-------------------------------- MODULE Cipher --------------------------------
(***************************************************************************)
(* The engines of cryptography: the AES peripheral behind hw_aes.c, with   *)
(* which the stack encrypts blocks (ECB), authenticates messages it hands  *)
(* over in pieces (CMAC) and seals frames (CCM), and the public key        *)
(* accelerator behind hw_pka.c, for the curve P-256.                       *)
(*                                                                         *)
(* A byte is the set of the bits that are known of it, so that XOR is the  *)
(* symmetric difference and a zero byte is empty.  The cipher and the      *)
(* doubling of a key in GF(2^128) are ideal: what they return equals       *)
(* nothing but itself.  The order of bytes within a word, which macros of  *)
(* the absent header baes_global.h exchange, is left out.  Tasks are not   *)
(* preempted by tasks and no interrupt uses the engines: a call is a step. *)
(***************************************************************************)
EXTENDS Integers, Sequences

CONSTANTS
  BlockBytes,   (* bytes of a block, 16                                    *)
  CipherKey,    (* keys the stack uses                                     *)
  CipherLength, (* bound: bytes of a message                               *)
  PkaUser       (* tasks that use the accelerator                          *)

ASSUME CipherAssumption ==
  /\ BlockBytes \in Nat \ {0} /\ CipherLength \in Nat

VARIABLES
  aes,     \* registers of the AES peripheral, with HW_AES_var.run
  iv,      \* BAES_CMAC_var.iv
  cmac,    \* history: the session of BAES_CmacSetKey, what it was fed
  sealed,  \* what the last call gave: <<kind, given, due by definition>>
  stuck,   \* a wait for the peripheral never ends
  pka,     \* registers and memory of the accelerator, with HW_PKA_var.run
  pkaWork  \* what each task does with it

cipherVars == <<aes, iv, cmac, sealed, stuck>>
pkaVars == <<pka, pkaWork>>

-----------------------------------------------------------------------------
(* Bytes and blocks.                                                        *)
InBlock == 1 .. BlockBytes
Xor(b, c) == [j \in InBlock |-> (b[j] \ c[j]) \cup (c[j] \ b[j])]
ZeroBlock == [j \in InBlock |-> {}]
Opaque(what, arg) == [j \in InBlock |-> {<<what, arg, j>>}]

Encipher(k, b) == Opaque("cipher", <<k, b>>)
Doubled(b) == Opaque("doubled", b)

(* The i-th block of a message, filled with zero bytes.                     *)
BlockOf(msg, i) ==
  [j \in InBlock |-> LET n == (i - 1) * BlockBytes + j IN IF n <= Len(msg) THEN msg[n] ELSE {}]
Blocks(n) == (n + BlockBytes - 1) \div BlockBytes

(* `state' after step(state, i) for each i of 1 .. n.                       *)
Iterate(state, n, Step(_, _)) ==
  LET f[i \in 0 .. n] == IF i = 0 THEN state ELSE Step(f[i - 1], i) IN f[n]

-----------------------------------------------------------------------------
(* The driver.  The peripheral answers only while it is clocked and enabled. *)
AesOff == [run |-> FALSE, clock |-> FALSE, en |-> FALSE, mode |-> "encrypt", key |-> "none"]

(* That the driver is in use is told to the caller, and no caller looks.    *)
HW_AES_Enable == IF aes.clock THEN aes ELSE [aes EXCEPT !.run = TRUE, !.clock = TRUE]
HW_AES_SetKey(mode, k) == [HW_AES_Enable EXCEPT !.en = TRUE, !.mode = mode, !.key = k]
HW_AES_Disable(a) == IF a.run THEN AesOff ELSE a
Answers(a) == a.clock /\ a.en

(* What was enciphered with the same key is recovered.                      *)
Decipher(k, b) ==
  LET bit == CHOOSE x \in b[1] : TRUE
  IN IF b[1] # {} /\ b = Opaque("cipher", bit[2]) /\ bit[2][1] = k
     THEN bit[2][2] ELSE Opaque("deciphered", <<k, b>>)

HW_AES_Crypt(a, b) == IF a.mode = "encrypt" THEN Encipher(a.key, b) ELSE Decipher(a.key, b)

-----------------------------------------------------------------------------
(* Block ciphers: ECB, which takes the engine from whoever had it.          *)
BAES_EcbCrypt(mode, k, b) == HW_AES_Crypt(HW_AES_SetKey(mode, k), b)

(* CMAC: all pieces but the last are whole blocks.  To the last one, what   *)
(* makes up a block is added, and one of two keys derived from the key.     *)
LastSize(msg) ==
  LET size == Len(msg) % BlockBytes IN IF msg # <<>> /\ size = 0 THEN BlockBytes ELSE size
Padding == {<<"padding", 0, 0>>}

BAES_CmacRawEncrypt(b) == HW_AES_Crypt(aes, b)
CmacChain(msg, n) == Iterate(iv, n, LAMBDA x, i : BAES_CmacRawEncrypt(Xor(BlockOf(msg, i), x)))

(* A bug to catch: the second key is taken for whole blocks as well.        *)
RollsTwice(size) ==
  Doubled(Doubled(BAES_CmacRawEncrypt(ZeroBlock)))
BAES_CmacKeyRoll(size) ==
  LET k1 == Doubled(BAES_CmacRawEncrypt(ZeroBlock)) IN IF size < BlockBytes THEN Doubled(k1) ELSE k1

CmacFinal(msg) ==
  LET size == LastSize(msg)
      full == (Len(msg) - size) \div BlockBytes
      left == [BlockOf(msg, full + 1) EXCEPT ![size + 1] = Padding]
      last == IF size < BlockBytes THEN left ELSE BlockOf(msg, full + 1)
  IN BAES_CmacRawEncrypt(Xor(last, Xor(CmacChain(msg, full), BAES_CmacKeyRoll(size))))

(* CCM: the peripheral keeps the code and the counter of the blocks; of the *)
(* last block it is told, by NPBLB, how many bytes are not of the message.  *)
Stream(k, nonce, i) == Encipher(k, Opaque("counter", <<nonce, i>>))
FirstBytes(b, n) == [j \in InBlock |-> IF j <= n THEN b[j] ELSE {}]
FirstBlock(nonce, tagLength, n) == Opaque("first", <<nonce, tagLength, n>>)
HeaderBlock(nonce) == Opaque("header", nonce)

HW_AES_InitCcm(decrypt, k, nonce, b0, b1) ==
  [decrypt |-> decrypt, key |-> k, nonce |-> nonce, count |-> 0, npblb |-> 0, out |-> ZeroBlock,
   mac |-> Encipher(k, Xor(Encipher(k, b0), b1))]

HW_AES_SetLast(ccm, size) == [ccm EXCEPT !.npblb = BlockBytes - size]

CcmPayload(ccm, b) ==
  LET out == Xor(b, Stream(ccm.key, ccm.nonce, ccm.count + 1))
      plain == IF ccm.decrypt THEN FirstBytes(out, BlockBytes - ccm.npblb) ELSE b
  IN [ccm EXCEPT !.count = @ + 1, !.out = out, !.mac = Encipher(ccm.key, Xor(@, plain))]

HW_AES_EndCcm(ccm, tagLength) == FirstBytes(Xor(ccm.mac, Stream(ccm.key, ccm.nonce, 0)), tagLength)

(* Decryption tells whether the tag is that of the message.                 *)
BAES_CcmCrypt(decrypt, k, nonce, input, tagLength, tag) ==
  LET n == Blocks(Len(input))
      Bytes(i) == IF i = n THEN Len(input) - (n - 1) * BlockBytes ELSE BlockBytes
      Crypt(s, i) ==
        LET ccm == IF Bytes(i) < BlockBytes /\ decrypt THEN HW_AES_SetLast(s.ccm, Bytes(i)) ELSE s.ccm
            next == CcmPayload(ccm, BlockOf(input, i))
        IN [ccm |-> next, output |-> s.output \o [j \in 1 .. Bytes(i) |-> next.out[j]]]
      b0 == FirstBlock(nonce, tagLength, Len(input))
      start == HW_AES_InitCcm(decrypt, k, nonce, b0, HeaderBlock(nonce))
      done == Iterate([ccm |-> start, output |-> <<>>], n, Crypt)
      code == HW_AES_EndCcm(done.ccm, tagLength)
  IN [output |-> done.output, tag |-> IF decrypt THEN ZeroBlock ELSE code,
      differs |-> decrypt /\ tag # code]

-----------------------------------------------------------------------------
(* What the modes are defined as: RFC 4493 and RFC 3610.                    *)
Cmac(k, vector, msg) ==
  LET n == IF msg = <<>> THEN 1 ELSE Blocks(Len(msg))
      whole == Len(msg) = n * BlockBytes
      k1 == Doubled(Encipher(k, ZeroBlock))
      chain == Iterate(vector, n - 1, LAMBDA x, i : Encipher(k, Xor(x, BlockOf(msg, i))))
      last == IF whole THEN Xor(BlockOf(msg, n), k1)
              ELSE Xor(BlockOf(Append(msg, Padding), n), Doubled(k1))
  IN Encipher(k, Xor(chain, last))

CcmText(k, nonce, msg) ==
  [i \in DOMAIN msg |-> LET pad == Stream(k, nonce, Blocks(i))[i - (Blocks(i) - 1) * BlockBytes]
                        IN (msg[i] \ pad) \cup (pad \ msg[i])]
CcmTag(k, nonce, tagLength, msg) ==
  LET blocks == <<FirstBlock(nonce, tagLength, Len(msg)), HeaderBlock(nonce)>>
                  \o [i \in 1 .. Blocks(Len(msg)) |-> BlockOf(msg, i)]
      mac == Iterate(ZeroBlock, Len(blocks), LAMBDA x, i : Encipher(k, Xor(x, blocks[i])))
  IN FirstBytes(Xor(mac, Stream(k, nonce, 0)), tagLength)

-----------------------------------------------------------------------------
(* Calls.  The n-th byte of a message is told from all others.              *)
Data(first, n) == [i \in 1 .. n |-> {<<"data", first + i, 0>>}]
Sealed(kind, got, due) == sealed' = <<kind, got, due>>
NoAnswer == Sealed("nothing", 0, 0) /\ UNCHANGED stuck
Waits == stuck' = TRUE /\ UNCHANGED <<aes, iv, cmac, sealed>>
NoSession == [open |-> FALSE, key |-> "none", vector |-> ZeroBlock, fed |-> <<>>]
EngineFree(a) == aes' = HW_AES_Disable(a) /\ cmac' = NoSession

ZIGBEE_PLAT_AesCmacSetKey ==
  \E k \in CipherKey :
    /\ aes' = HW_AES_SetKey("encrypt", k) /\ iv' = ZeroBlock
    /\ cmac' = [open |-> TRUE, key |-> k, vector |-> ZeroBlock, fed |-> <<>>]
    /\ NoAnswer

ZIGBEE_PLAT_AesCmacSetVector ==
  \E vector \in {ZeroBlock, Opaque("vector", 0)} :
    /\ iv' = vector /\ cmac' = [cmac EXCEPT !.vector = vector, !.fed = <<>>]
    /\ UNCHANGED aes /\ NoAnswer

(* A piece, without output: whole blocks.                                   *)
AesCmacPiece ==
  \E n \in 0 .. Blocks(CipherLength - Len(cmac.fed)) :
    LET msg == Data(Len(cmac.fed), n * BlockBytes)
    IN IF n > 0 /\ ~Answers(aes)
       THEN Waits
       ELSE /\ iv' = CmacChain(msg, n) /\ cmac' = [cmac EXCEPT !.fed = @ \o msg]
            /\ UNCHANGED aes /\ NoAnswer

(* The last piece may be empty only if it is the first one too.             *)
AesCmacLast ==
  \E n \in 0 .. CipherLength :
    /\ n = 0 => cmac.fed = <<>>
    /\ LET msg == Data(Len(cmac.fed), n)
       IN IF ~Answers(aes)
          THEN Waits
          ELSE /\ iv' = CmacFinal(msg) /\ EngineFree(aes)
               /\ Sealed("block", iv', Cmac(cmac.key, cmac.vector, cmac.fed \o msg)) /\ UNCHANGED stuck

(* A block with the key of the session: ZIGBEE_PLAT_AesCrypt and _AesCrypt32. *)
ZIGBEE_PLAT_AesCrypt ==
  LET b == BlockOf(Data(0, BlockBytes), 1)
  IN IF ~Answers(aes)
     THEN Waits
     ELSE Sealed("block", HW_AES_Crypt(aes, b), Encipher(cmac.key, b)) /\ UNCHANGED <<aes, iv, cmac, stuck>>

(* Encryption of a block, and decryption of what was encrypted.             *)
ZIGBEE_PLAT_AesEcbEncrypt ==
  \E k \in CipherKey, mode \in {"encrypt", "decrypt"} :
    LET b == BlockOf(Data(0, BlockBytes), 1)
    IN /\ Sealed("block", BAES_EcbCrypt(mode, k, IF mode = "encrypt" THEN b ELSE Encipher(k, b)),
                 IF mode = "encrypt" THEN Encipher(k, b) ELSE b)
       /\ EngineFree(HW_AES_SetKey(mode, k)) /\ UNCHANGED <<iv, stuck>>

(* A frame is sealed, or opened with the right tag or a wrong one.          *)
CcmCall ==
  \E k \in CipherKey, n \in 0 .. CipherLength, tagLength \in InBlock, decrypt, forged \in BOOLEAN :
    LET msg == Data(0, n)
        tag == CcmTag(k, 0, tagLength, msg)
        text == CcmText(k, 0, msg)
        false == [tag EXCEPT ![tagLength] = @ \cup Padding]
    IN /\ IF decrypt
          THEN Sealed("frame", BAES_CcmCrypt(TRUE, k, 0, text, tagLength, IF forged THEN false ELSE tag),
                      [output |-> msg, tag |-> ZeroBlock, differs |-> forged])
          ELSE Sealed("frame", BAES_CcmCrypt(FALSE, k, 0, msg, tagLength, ZeroBlock),
                      [output |-> text, tag |-> tag, differs |-> FALSE])
       /\ EngineFree(HW_AES_Enable) /\ UNCHANGED <<iv, stuck>>

BAES_Reset == EngineFree(aes) /\ NoAnswer /\ UNCHANGED iv

CipherInit ==
  /\ aes = AesOff /\ iv = ZeroBlock /\ cmac = NoSession
  /\ sealed = <<"nothing", 0, 0>> /\ stuck = FALSE

CipherNext ==
  /\ ~stuck
  /\ \/ ZIGBEE_PLAT_AesCmacSetKey \/ ZIGBEE_PLAT_AesCmacSetVector \/ AesCmacPiece \/ AesCmacLast
     \/ ZIGBEE_PLAT_AesCrypt \/ ZIGBEE_PLAT_AesEcbEncrypt \/ CcmCall \/ BAES_Reset

-----------------------------------------------------------------------------
(* The accelerator.  An operation reads all of its operands from the        *)
(* memory: those that are the curve's have their own names as values.       *)
PkaMode == {"range", "point", "mul"}
Curve(mode) ==
  CASE mode = "range" -> {"bits", "p"}
    [] mode = "point" -> {"bits", "sign", "a", "b", "p", "r2"}
    [] mode = "mul" -> {"k bits", "bits", "sign", "a", "b", "p", "n"}
Own(mode) == CASE mode = "range" -> {"x"} [] mode = "point" -> {"x", "y"} [] mode = "mul" -> {"k", "x", "y"}

(* Without a point the base point is multiplied.                            *)
HW_PKA_WriteOperand(mode, own, given) ==
  [slot \in Curve(mode) \cup Own(mode) |->
     IF slot \in Curve(mode) THEN slot ELSE IF slot \in given THEN <<own, slot>> ELSE <<"base", slot>>]

HW_PKA_Start(mode, own, given) ==
  pka' = [pka EXCEPT !.busy = TRUE, !.procend = FALSE, !.mode = mode,
                     !.ram = HW_PKA_WriteOperand(mode, own, given)]

AtPka(u, place) == pkaWork[u].at = place
GoesPka(u, place) == pkaWork' = [pkaWork EXCEPT ![u].at = place]

(* A task that finds the accelerator in use tries again later.              *)
HW_PKA_Enable(u) ==
  /\ AtPka(u, "away") /\ ~pka.run
  /\ pka' = [pka EXCEPT !.run = TRUE, !.clock = TRUE, !.procend = FALSE] /\ GoesPka(u, "has it")

PkaStart(u) ==
  \E mode \in PkaMode, base \in BOOLEAN :
    LET given == IF base /\ mode = "mul" THEN {"k"} ELSE Own(mode)
    IN /\ AtPka(u, "has it") /\ pka.clock
       /\ HW_PKA_Start(mode, u, given)
       /\ pkaWork' = [pkaWork EXCEPT ![u].at = "waits",
                                      ![u].due = <<mode, HW_PKA_WriteOperand(mode, u, given)>>]

PkaEnds ==
  /\ pka.busy
  /\ pka' = [pka EXCEPT !.busy = FALSE, !.procend = TRUE, !.out = <<pka.mode, pka.ram>>]
  /\ UNCHANGED pkaWork

(* HW_PKA_EndOfOperation, then what the operation left: IsRangeCheckOk,     *)
(* IsPointCheckOk or ReadEccScalarMul.                                      *)
HW_PKA_ReadResult(u) ==
  /\ AtPka(u, "waits") /\ pka.procend
  /\ pkaWork' = [pkaWork EXCEPT ![u].at = "has it", ![u].got = pka.out] /\ UNCHANGED pka

HW_PKA_Disable(u) ==
  /\ AtPka(u, "has it")
  /\ pka' = [pka EXCEPT !.run = FALSE, !.clock = FALSE] /\ GoesPka(u, "away")

PkaInit ==
  /\ pka = [run |-> FALSE, clock |-> FALSE, busy |-> FALSE, procend |-> FALSE, mode |-> "none", ram |-> <<>>,
            out |-> <<"none", <<>>>>]
  /\ pkaWork = [u \in PkaUser |-> [at |-> "away", due |-> <<"none", <<>>>>, got |-> <<"none", <<>>>>]]

PkaNext ==
  \/ PkaEnds
  \/ \E u \in PkaUser : HW_PKA_Enable(u) \/ PkaStart(u) \/ HW_PKA_ReadResult(u) \/ HW_PKA_Disable(u)

-----------------------------------------------------------------------------
(* Whatever the pieces a message comes in, each mode gives what its         *)
(* definition says, and CCM tells a wrong tag from the right one; the       *)
(* engine is on while a session is open, and no other time, so that only a  *)
(* call outside of one can wait for ever.  A task is given the result of    *)
(* its own operands.                                                        *)
CipherIsSound ==
  /\ sealed[2] = sealed[3]
  /\ aes.clock = cmac.open /\ (stuck => ~cmac.open)
  /\ \A u \in PkaUser : AtPka(u, "has it") => pkaWork[u].got = pkaWork[u].due
=============================================================================

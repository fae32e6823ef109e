-------------------------- MODULE CryptOperations --------------------------
(***************************************************************************)
(* The digest, encrypt, decrypt, sign and verify operations of a session:  *)
(* initialisation, single-part and multipart calls, length queries, short  *)
(* output buffers, context-specific login, cancellation and the loss of    *)
(* the user login in between.                                              *)
(*                                                                         *)
(* Data are sequences of units; the application sends the units 1, 2, ...  *)
(* of a message in order, so a lost, repeated or reordered unit shows.     *)
(* What a transformation gives out is a chunk: the units it was computed   *)
(* from, the chaining value it was computed with, and its length.  A       *)
(* ciphertext block is named by the last unit of its plaintext block.      *)
(***************************************************************************)
EXTENDS Integers, Sequences, FiniteSets

Seqs == INSTANCE SequencesExt

CONSTANTS
    BlockLength,  \* units in a cipher block
    TagLength,    \* units in an authentication tag
    KeyLength,    \* units in an RSA modulus
    HashLength,   \* units in the client data hash a FIDO assertion signs
    MaxInput,     \* bound on the units sent to an operation
    MaxPart,      \* bound on the units of a call
    MaxActive,    \* bound on the operations open at a time
    NoOp          \* an operation slot that is None

ASSUME LengthsAssumption ==
    /\ BlockLength \in Nat \ {0} /\ TagLength \in Nat /\ KeyLength \in Nat
    /\ HashLength \in Nat /\ MaxInput \in Nat /\ MaxPart \in Nat

VARIABLES
    slotRole,      \* a user login is recorded in the slot
    backendLogin,  \* the backend has a user login
    op,            \* the operation slots of the session
    trace          \* what an operation has been sent, has given out and has run

cryptVars == <<slotRole, backendLogin, op, trace>>

Ciphers == {"encrypt", "decrypt"}
Ops == Ciphers \cup {"digest", "sign", "verify"}

BlockMechanisms == {"ecb", "cbc", "cbc_pad"}
FidoMechanisms == {"fido_assertion", "preview_sign"}
Mechanisms ==
    [o \in Ops |->
        CASE o \in Ciphers   -> BlockMechanisms \cup {"aead", "rsa"}
          [] o = "digest"    -> {"hash"}
          [] o = "sign"      -> {"raw", "hash_ml_dsa", "oath"} \cup FidoMechanisms
          [] o = "verify"    -> {"raw", "hash_ml_dsa"}]

(* The output pointer is NULL: the caller asks for the length.             *)
Query == -1
Capacities == {Query} \cup 0..(MaxInput + BlockLength)
LengthError == -1
Unchained == -1

Units(chunks) == Seqs!FlattenSeq([i \in DOMAIN chunks |-> chunks[i].units])
Length(chunks) ==
    LET sum[i \in 0..Len(chunks)] == IF i = 0 THEN 0 ELSE sum[i - 1] + chunks[i].len
    IN  sum[Len(chunks)]
Chunk(iv, units, len) == [iv |-> iv, units |-> units, len |-> len]

NewOperation(mechanism, private) ==
    [mechanism |-> mechanism, private |-> private, buffer |-> <<>>, iv |-> 0,
     multipart |-> FALSE, authorized |-> FALSE, ready |-> FALSE, result |-> <<>>]

Blank == [sent |-> <<>>, out |-> <<>>, runs |-> 0, granted |-> 0, done |-> FALSE]

Unit == 1..MaxInput
Chunks == [iv : {Unchained} \cup 0..MaxInput, units : Seq(Unit), len : Nat]
Operation ==
    [mechanism : UNION {Mechanisms[o] : o \in Ops}, private : BOOLEAN, buffer : Seq(Unit),
     iv : 0..MaxInput, multipart : BOOLEAN, authorized : BOOLEAN, ready : BOOLEAN,
     result : Seq(Chunks)]
Trace == [sent : Seq(Unit), out : Seq(Chunks), runs : Nat, granted : Nat, done : BOOLEAN]

CryptTypeOK ==
    /\ slotRole \in BOOLEAN
    /\ backendLogin \in BOOLEAN
    /\ op \in [Ops -> Operation \cup {NoOp}]
    /\ trace \in [Ops -> Trace]

CryptInit ==
    /\ slotRole = FALSE
    /\ backendLogin = FALSE
    /\ op = [o \in Ops |-> NoOp]
    /\ trace = [o \in Ops |-> Blank]

-----------------------------------------------------------------------------
(* The login of the slot.                                                  *)

is_slot_user_logged_in == slotRole /\ backendLogin

(* clear_login_state: every operation of the session ends.                 *)
clear_login_state ==
    /\ slotRole' = FALSE
    /\ op' = [o \in Ops |-> NoOp]
    /\ trace' = [o \in Ops |-> Blank]

UserLogin ==
    /\ ~is_slot_user_logged_in
    /\ slotRole' = TRUE
    /\ backendLogin' = TRUE
    /\ IF slotRole
       THEN op' = [o \in Ops |-> NoOp] /\ trace' = [o \in Ops |-> Blank]
       ELSE UNCHANGED <<op, trace>>

LogoutUser ==
    /\ is_slot_user_logged_in
    /\ backendLogin' = FALSE
    /\ clear_login_state

LoginLost ==
    /\ backendLogin
    /\ backendLogin' = FALSE
    /\ UNCHANGED <<slotRole, op, trace>>

-----------------------------------------------------------------------------
(* What ends or changes an operation.                                      *)

take(o) ==
    /\ op' = [op EXCEPT ![o] = NoOp]
    /\ trace' = [trace EXCEPT ![o] = Blank]
    /\ UNCHANGED <<slotRole, backendLogin>>

(* CKR_USER_NOT_LOGGED_IN: reconcile_login_state, then the operation ends. *)
refuse(o) ==
    IF slotRole /\ ~backendLogin THEN clear_login_state /\ UNCHANGED backendLogin ELSE take(o)

\* Mutant of missing_login: the recorded role is trusted.
missing_role(o) == op[o].private /\ ~slotRole

missing_login(o) == op[o].private /\ ~is_slot_user_logged_in

Start(o, mechanism, private) ==
    /\ Cardinality({x \in Ops : op[x] # NoOp}) < MaxActive
    /\ private => is_slot_user_logged_in
    /\ op' = [op EXCEPT ![o] = NewOperation(mechanism, private)]
    /\ trace' = [x \in Ops |-> IF x = o \/ op[x] = NoOp THEN Blank ELSE trace[x]]
    /\ UNCHANGED <<slotRole, backendLogin>>

crypt_init(d, mechanism, private) ==
    /\ \A x \in Ciphers : op[x] = NoOp
    /\ Start(d, mechanism, private)

digest_init ==
    /\ op["digest"] = NoOp
    /\ Start("digest", "hash", FALSE)

sign_init(mechanism, private) ==
    /\ op["sign"] = NoOp
    /\ Start("sign", mechanism, private)

verify_init(mechanism, private) ==
    /\ op["verify"] = NoOp
    /\ Start("verify", mechanism, private)

cancel_operations(o) ==
    /\ op[o] # NoOp
    /\ take(o)

(* The next n units of the message of an operation.                        *)
Part(o, n) == [i \in 1..n |-> Len(trace[o].sent) + i]
Sendable(o, n) == Len(trace[o].sent) + n <= MaxInput

(* The part goes to the buffer, or into the running hash.                  *)
absorb(o, part) ==
    /\ op' = [op EXCEPT ![o].buffer = @ \o part, ![o].multipart = TRUE]
    /\ trace' = [trace EXCEPT ![o].sent = @ \o part]
    /\ UNCHANGED <<slotRole, backendLogin>>

(* The output goes to the caller and the operation is over.                *)
deliver(o, message, chunks, ran) ==
    /\ op' = [op EXCEPT ![o] = NoOp]
    /\ trace' = [trace EXCEPT ![o].sent = message, ![o].out = @ \o chunks,
                              ![o].runs = @ + ran, ![o].done = TRUE]
    /\ UNCHANGED <<slotRole, backendLogin>>

\* Mutant of keep: the operation goes back as it was.
keep_operation(o, message, data, chunks, ran) ==
    /\ trace' = [trace EXCEPT ![o].runs = @ + ran]
    /\ UNCHANGED <<slotRole, backendLogin, op>>

(* The output is kept with the operation for a call with a larger buffer.  *)
keep(o, message, data, chunks, ran) ==
    /\ op' = [op EXCEPT ![o].buffer = data, ![o].ready = TRUE, ![o].result = chunks,
                        ![o].authorized = @ /\ ran = 0]
    /\ trace' = [trace EXCEPT ![o].sent = message, ![o].runs = @ + ran]
    /\ UNCHANGED <<slotRole, backendLogin>>

-----------------------------------------------------------------------------
(* Encryption and decryption.                                              *)

chained(p) == p.mechanism # "ecb"

(* Whole blocks of s, each with the chaining value left by the one before. *)
Blocks(p, s) ==
    [i \in 1..(Len(s) \div BlockLength) |->
        Chunk(CASE ~chained(p) -> Unchained
                [] chained(p) /\ i = 1 -> p.iv
                [] OTHER -> s[(i - 1) * BlockLength],
              SubSeq(s, (i - 1) * BlockLength + 1, i * BlockLength), BlockLength)]

WholeBlocks(s) == Len(s) % BlockLength = 0

(* The results a transformation of the whole input s can have; none: it    *)
(* fails.                                                                  *)
BlockResults(p, s) == IF WholeBlocks(s) THEN {Blocks(p, s)} ELSE {}

PadEncrypted(p, s) ==
    LET whole == (Len(s) \div BlockLength) * BlockLength
    IN  {Blocks(p, s) \o
         <<Chunk(IF whole = 0 THEN p.iv ELSE s[whole], SubSeq(s, whole + 1, Len(s)), BlockLength)>>}

PadDecrypted(p, s) ==
    IF s = <<>> \/ ~WholeBlocks(s) THEN {}
    ELSE {[Blocks(p, s) EXCEPT ![Len(s) \div BlockLength].len = BlockLength - pad] :
              pad \in 1..BlockLength}

AeadResults(d, s) ==
    LET length == IF d = "encrypt" THEN Len(s) + TagLength ELSE Len(s) - TagLength
    IN  IF length < 0 THEN {} ELSE {<<Chunk(Unchained, s, length)>>}

RsaResults(d, s) ==
    IF d = "encrypt"
    THEN IF Len(s) <= KeyLength THEN {<<Chunk(Unchained, s, KeyLength)>>} ELSE {}
    ELSE IF Len(s) = KeyLength THEN {<<Chunk(Unchained, s, length)>> : length \in 0..KeyLength} ELSE {}

Results(d, p, s) ==
    CASE p.mechanism \in {"ecb", "cbc"} -> BlockResults(p, s)
      [] p.mechanism = "cbc_pad" /\ d = "encrypt" -> PadEncrypted(p, s)
      [] p.mechanism = "cbc_pad" /\ d = "decrypt" -> PadDecrypted(p, s)
      [] p.mechanism = "aead" -> AeadResults(d, s)
      [] p.mechanism = "rsa" -> RsaResults(d, s)

\* Mutant of crypt_output_length: padding a whole number of blocks adds none.
padded_output_length(d, p, n) ==
    CASE p.mechanism = "cbc_pad" -> n + ((BlockLength - (n % BlockLength)) % BlockLength)
      [] p.mechanism = "aead" /\ d = "encrypt" -> n + TagLength
      [] p.mechanism = "rsa" -> KeyLength
      [] OTHER -> n

crypt_output_length(d, p, n) ==
    CASE p.mechanism = "cbc_pad" /\ d = "encrypt" -> n + (BlockLength - (n % BlockLength))
      [] p.mechanism = "cbc_pad" /\ d = "decrypt" ->
            IF n = 0 \/ n % BlockLength # 0 THEN LengthError ELSE n
      [] p.mechanism = "aead" /\ d = "encrypt" -> n + TagLength
      [] p.mechanism = "aead" /\ d = "decrypt" -> IF n < TagLength THEN LengthError ELSE n - TagLength
      [] p.mechanism = "rsa" -> KeyLength
      [] OTHER -> n

(* C_Encrypt, C_EncryptFinal and their decrypting twins; Final sends       *)
(* nothing.  A result that is kept answers whatever the call sends.        *)
crypt(d, n, finalizing, capacity) ==
    /\ op[d] # NoOp
    /\ Sendable(d, n)
    /\ LET p == op[d]
           message == trace[d].sent \o Part(d, n)
           input == p.buffer \o Part(d, n)
           required == IF p.ready THEN Length(p.result)
                       ELSE crypt_output_length(d, p, Len(input))
           refused == missing_login(d)
           mixed == p.multipart /\ ~finalizing
       IN  \/ mixed /\ take(d)
           \/ ~mixed /\ refused /\ refuse(d)
           \/ ~mixed /\ ~refused /\ required = LengthError /\ take(d)
           \/ ~mixed /\ ~refused /\ required # LengthError /\ capacity = Query /\ UNCHANGED cryptVars
           \/ /\ ~mixed /\ ~refused /\ required # LengthError /\ capacity # Query
              /\ IF p.ready
                 THEN IF capacity < Length(p.result)
                      THEN UNCHANGED cryptVars
                      ELSE deliver(d, trace[d].sent, p.result, 0)
                 ELSE \/ take(d)    \* the transformation or the device fails
                      \/ \E result \in Results(d, p, input) :
                            IF capacity < Length(result)
                            THEN keep(d, message, <<>>, result, 1)
                            ELSE deliver(d, message, result, 1)

retained(d, p) == IF d = "decrypt" /\ p.mechanism = "cbc_pad" THEN 1 ELSE 0

(* max(whole - kept, 0) blocks go out: the subtraction saturates.          *)
produced(d, p, n) ==
    LET whole == (Len(p.buffer) + n) \div BlockLength
    IN  IF whole <= retained(d, p) THEN 0 ELSE (whole - retained(d, p)) * BlockLength

\* Mutant of crypt_update_blocks: every update starts from the mechanism's IV.
crypt_update_restarted(d, n) ==
    LET p == op[d]
        all == p.buffer \o Part(d, n)
        length == produced(d, p, n)
    IN  /\ op' = [op EXCEPT ![d].buffer = SubSeq(all, length + 1, Len(all)), ![d].multipart = TRUE]
        /\ trace' = [trace EXCEPT ![d].sent = @ \o Part(d, n),
                                  ![d].out = @ \o Blocks(p, SubSeq(all, 1, length))]
        /\ UNCHANGED <<slotRole, backendLogin>>

crypt_update_blocks(d, n) ==
    LET p == op[d]
        all == p.buffer \o Part(d, n)
        length == produced(d, p, n)
        blocks == SubSeq(all, 1, length)
    IN  /\ op' = [op EXCEPT ![d].buffer = SubSeq(all, length + 1, Len(all)),
                            ![d].iv = IF length = 0 \/ ~chained(p) THEN @ ELSE blocks[length],
                            ![d].multipart = TRUE]
        /\ trace' = [trace EXCEPT ![d].sent = @ \o Part(d, n), ![d].out = @ \o Blocks(p, blocks)]
        /\ UNCHANGED <<slotRole, backendLogin>>

crypt_update(d, n, capacity) ==
    /\ op[d] # NoOp
    /\ Sendable(d, n)
    /\ LET p == op[d]
           refused == missing_login(d)
           blocks == p.mechanism \in BlockMechanisms
       IN  \/ refused /\ refuse(d)
           \/ ~refused /\ take(d)    \* a result is kept, unreadable input, or the device fails
           \/ ~refused /\ ~p.ready /\ capacity = Query /\ UNCHANGED cryptVars
           \/ /\ ~refused /\ ~p.ready /\ blocks /\ capacity # Query
              /\ IF capacity < produced(d, p, n) THEN UNCHANGED cryptVars
                 ELSE crypt_update_blocks(d, n)
           \/ ~refused /\ ~p.ready /\ ~blocks /\ capacity # Query /\ absorb(d, Part(d, n))

-----------------------------------------------------------------------------
(* Digests.                                                                *)

copy_digest(n, capacity) ==
    LET message == trace["digest"].sent \o Part("digest", n)
    IN  IF capacity < HashLength THEN UNCHANGED cryptVars
        ELSE deliver("digest", message,
                     <<Chunk(Unchained, op["digest"].buffer \o Part("digest", n), HashLength)>>, 0)

C_Digest(n, capacity) ==
    /\ op["digest"] # NoOp
    /\ Sendable("digest", n)
    /\ \/ take("digest")
       \/ ~op["digest"].multipart /\ copy_digest(n, capacity)

(* C_DigestKey sends the value of a key that is visible; a part that       *)
(* cannot be read ends the operation.                                      *)
C_DigestUpdate(n) ==
    /\ op["digest"] # NoOp
    /\ Sendable("digest", n)
    /\ \/ take("digest")
       \/ absorb("digest", Part("digest", n))

C_DigestFinal(capacity) ==
    /\ op["digest"] # NoOp
    /\ \/ take("digest")
       \/ copy_digest(0, capacity)

-----------------------------------------------------------------------------
(* Signatures.                                                             *)

single_part(o) ==
    \/ op[o].mechanism = "hash_ml_dsa"
    \/ o = "sign" /\ op[o].mechanism \in {"oath", "fido_assertion"}

signature_update(o, n) ==
    /\ op[o] # NoOp
    /\ Sendable(o, n)
    /\ \/ take(o)
       \/ ~single_part(o) /\ absorb(o, Part(o, n))

(* The authenticator signs at most once: a query runs it as well, and the  *)
(* result answers the calls that follow, for the same data only.           *)
fido_sign(data, capacity) ==
    LET p == op["sign"]
        chunks == <<Chunk(Unchained, data, HashLength)>>
        accepted == Len(data) = HashLength /\ (p.buffer # <<>> => p.buffer = data)
    IN  \/ ~accepted /\ take("sign")
        \/ accepted /\ p.ready /\ IF capacity < HashLength THEN UNCHANGED cryptVars
                                  ELSE deliver("sign", data, p.result, 0)
        \/ accepted /\ ~p.ready /\ ~p.authorized /\ UNCHANGED cryptVars
        \/ accepted /\ ~p.ready /\ p.authorized /\ take("sign")
        \/ /\ accepted /\ ~p.ready /\ p.authorized
           /\ IF capacity < HashLength THEN keep("sign", data, data, chunks, 1)
              ELSE deliver("sign", data, chunks, 1)

(* oath::sign: the bound is known without a calculation.                   *)
oath_sign(data, capacity) ==
    \/ data # <<>> /\ take("sign")
    \/ data = <<>> /\ capacity < HashLength /\ UNCHANGED cryptVars
    \/ data = <<>> /\ capacity >= HashLength /\ take("sign")
    \/ data = <<>> /\ capacity >= HashLength /\ deliver("sign", <<>>, <<Chunk(Unchained, <<>>, HashLength)>>, 1)

(* The length of a signature follows from the key.  A wrong length of the  *)
(* data or a failing device ends the operation.                            *)
key_sign(data, capacity) ==
    \/ take("sign")
    \/ capacity < HashLength /\ UNCHANGED cryptVars
    \/ /\ capacity >= HashLength
       /\ deliver("sign", trace["sign"].sent \o data,
                  <<Chunk(Unchained, op["sign"].buffer \o data, HashLength)>>, 1)

sign(data, finalizing, capacity) ==
    /\ op["sign"] # NoOp
    /\ LET p == op["sign"]
           mixed == p.multipart /\ ~finalizing
           refused == missing_login("sign")
       IN  \/ mixed /\ take("sign")
           \/ ~mixed /\ refused /\ refuse("sign")
           \/ ~mixed /\ ~refused /\ p.mechanism = "oath" /\ oath_sign(data, capacity)
           \/ ~mixed /\ ~refused /\ p.mechanism \in FidoMechanisms /\ fido_sign(data, capacity)
           \/ ~mixed /\ ~refused /\ p.mechanism \in {"raw", "hash_ml_dsa"} /\ key_sign(data, capacity)

(* A caller may repeat C_Sign with the data it sent before or with others. *)
C_Sign(n, capacity) ==
    /\ Sendable("sign", n)
    /\ \E data \in {Part("sign", n), [i \in 1..n |-> i]} : sign(data, FALSE, capacity)

C_SignFinal(capacity) ==
    /\ op["sign"] # NoOp
    /\ IF op["sign"].mechanism \in {"oath", "hash_ml_dsa"} THEN take("sign")
       ELSE sign(<<>>, TRUE, capacity)

(* The operation is taken first, so whatever happens ends it.              *)
verify_with_mode(n, finalizing) ==
    /\ op["verify"] # NoOp
    /\ Sendable("verify", n)
    /\ LET p == op["verify"]
           mixed == p.multipart /\ ~finalizing
           refused == missing_login("verify")
       IN  \/ take("verify")
           \/ ~mixed /\ refused /\ refuse("verify")
           \/ /\ ~mixed /\ ~refused
              /\ ~(finalizing /\ p.mechanism = "hash_ml_dsa")
              /\ deliver("verify", trace["verify"].sent \o Part("verify", n),
                         <<Chunk(Unchained, p.buffer \o Part("verify", n), 0)>>, 1)

(* C_Login(CKU_CONTEXT_SPECIFIC): for the one operation that can need it;  *)
(* a FIDO operation receives the authorization.                            *)
login_context_specific ==
    /\ (op["sign"] # NoOp) # (op["decrypt"] # NoOp)
    /\ \/ slotRole /\ ~backendLogin /\ clear_login_state /\ UNCHANGED backendLogin
       \/ /\ is_slot_user_logged_in
          /\ op["sign"] # NoOp
          /\ op["sign"].mechanism \in FidoMechanisms
          /\ trace["sign"].granted < 2
          /\ op' = [op EXCEPT !["sign"].authorized = TRUE]
          /\ trace' = [trace EXCEPT !["sign"].granted = @ + 1]
          /\ UNCHANGED <<slotRole, backendLogin>>

CryptNext ==
    \/ UserLogin
    \/ LogoutUser
    \/ LoginLost
    \/ login_context_specific
    \/ digest_init
    \/ \E o \in Ops : cancel_operations(o)
    \/ \E d \in Ciphers, m \in Mechanisms["encrypt"], private \in BOOLEAN : crypt_init(d, m, private)
    \/ \E m \in Mechanisms["sign"], private \in BOOLEAN : sign_init(m, private)
    \/ \E m \in Mechanisms["verify"], private \in BOOLEAN : verify_init(m, private)
    \/ \E o \in {"sign", "verify"}, n \in 0..MaxPart : signature_update(o, n)
    \/ \E n \in 0..MaxPart : C_DigestUpdate(n)
    \/ \E n \in 0..MaxPart : verify_with_mode(n, FALSE)
    \/ verify_with_mode(0, TRUE)
    \/ \E capacity \in Capacities :
        \/ C_SignFinal(capacity)
        \/ C_DigestFinal(capacity)
        \/ \E d \in Ciphers : crypt(d, 0, TRUE, capacity)
        \/ \E n \in 0..MaxPart :
            \/ C_Digest(n, capacity)
            \/ C_Sign(n, capacity)
            \/ \E d \in Ciphers : crypt(d, n, FALSE, capacity) \/ crypt_update(d, n, capacity)

CryptSpec == CryptInit /\ [][CryptNext]_cryptVars

-----------------------------------------------------------------------------
(* Properties. *)

(* However a message is cut into calls, and whatever length queries, short *)
(* buffers and failures come between them, what an operation has given out *)
(* was computed from the units it was sent, each once and in order, every  *)
(* block chained to the one before it; a completed operation has used all. *)
StreamExact ==
    \A o \in Ops :
        LET out == trace[o].out
        IN  /\ Seqs!IsPrefix(Units(out), trace[o].sent)
            /\ trace[o].done => Units(out) = trace[o].sent
            /\ \A i \in DOMAIN out : out[i].iv # Unchained =>
                    out[i].iv = IF i = 1 THEN 0 ELSE Seqs!Last(out[i - 1].units)

(* The key of a signature, or of a transformation that needs the whole     *)
(* input, is used at most once in an operation: length queries and short   *)
(* buffers never send a second command to the device.  An authenticator is *)
(* asked only after a context-specific login to this operation.            *)
KeyUsedOnce ==
    \A o \in Ops :
        /\ trace[o].runs <= 1
        /\ (op[o] # NoOp /\ op[o].mechanism \in FidoMechanisms) =>
                trace[o].runs <= trace[o].granted

(* Nothing computed with a private key leaves an operation, and its key is *)
(* not used, unless the backend still has the user's login; this includes  *)
(* results that were computed before the login was lost.                   *)
NothingWithoutLogin ==
    [][\A o \in Ops :
          (op[o] # NoOp /\ op[o].private /\ trace'[o] # Blank
              /\ (trace'[o].out # trace[o].out \/ trace'[o].runs # trace[o].runs))
          => slotRole /\ backendLogin]_cryptVars

(* A buffer of the length that a query reports, for the input that the     *)
(* call then sends, always takes the result.                               *)
QuotedLengthSuffices ==
    \A d \in Ciphers, n \in 0..MaxPart :
        (op[d] # NoOp /\ ~op[d].ready /\ Sendable(d, n)) =>
            LET input == op[d].buffer \o Part(d, n)
                quoted == crypt_output_length(d, op[d], Len(input))
            IN  quoted # LengthError =>
                    \A result \in Results(d, op[d], input) : Length(result) <= quoted
=============================================================================

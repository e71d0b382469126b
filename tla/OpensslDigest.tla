---------------------------- MODULE OpensslDigest ----------------------------
(***************************************************************************)
(* OpensslHash and OpensslHMAC (comex_openssl.cpp:31-241): a digest object  *)
(* that is fed in pieces, gives a digest and is used again.                 *)
(*                                                                          *)
(* A digest is the record of what it is the digest of: type, key, data.     *)
(***************************************************************************)
EXTENDS Naturals, Sequences

CONSTANTS Digests,  \* names OpenSSL has a digest for
          HmacKeys, \* pieces given to OpensslHMAC::setKey
          Data      \* pieces of data

NoType == "none" \* a name OpenSSL does not have, the empty one included

VARIABLES hash, \* the object: kind, type, key, and its context
          fed,  \* history: what the caller began and fed since the last finish
          sum   \* the last finish: what it gave, and what was fed for it

digestVars == <<hash, fed, sum>>

NoContext == [state |-> "none", type |-> NoType, key |-> << >>, data |-> << >>]
Nothing   == [type |-> NoType, key |-> << >>, data |-> << >>]

(* EVP_DigestInit_ex, EVP_MAC_init: a digest is needed, and for the latter a
   key; a context whose init failed takes no data and gives no digest. *)
Initialised(type, key, keyed) ==
  [state |-> IF type \in Digests /\ (keyed => key # << >>) THEN "ready" ELSE "broken",
   type |-> type, key |-> key, data |-> << >>]

(* OpensslHash has its type from the constructor, OpensslHMAC has none. *)
HashCreated(type) == [kind |-> "hash", type |-> type, key |-> << >>, ctx |-> Initialised(type, << >>, FALSE)]
HmacCreated       == [kind |-> "hmac", type |-> NoType, key |-> << >>, ctx |-> NoContext]

DigestInit ==
  /\ hash \in {HashCreated(t) : t \in Digests \cup {NoType}} \cup {HmacCreated}
  /\ fed = Nothing
  /\ sum = [given |-> Nothing, fed |-> Nothing]

HmacSetType(t) ==
  /\ hash.kind = "hmac"
  /\ hash' = [hash EXCEPT !.type = t]
  /\ UNCHANGED <<fed, sum>>

(* setKey appends to the key, it does not replace it. *)
HmacSetKey(k) ==
  /\ hash.kind = "hmac"
  /\ hash' = [hash EXCEPT !.key = Append(@, k)]
  /\ UNCHANGED <<fed, sum>>

(* append: OpensslHMAC makes its context at the first piece of a message, and
   keeps it if the init failed. *)
Begun == IF hash.ctx.state = "none" THEN Initialised(hash.type, hash.key, TRUE) ELSE hash.ctx

DigestAppend(d) ==
  LET c == Begun IN
  /\ hash' = [hash EXCEPT !.ctx = IF c.state = "ready" THEN [c EXCEPT !.data = Append(@, d)] ELSE c]
  /\ fed' = IF c.state # "ready" THEN fed
            ELSE IF fed.data # << >> THEN [fed EXCEPT !.data = Append(@, d)]
            ELSE [type |-> hash.type, key |-> hash.key, data |-> <<d>>]
  /\ UNCHANGED sum

(* finish: OpensslHash is initialised again, OpensslHMAC frees its context.  A
   failed final leaves the context as it is. *)
(* Mutated form: the hash is not initialised again. *)
FinishedNot == hash.ctx
Finished == IF hash.kind = "hash" THEN Initialised(hash.type, << >>, FALSE) ELSE NoContext

DigestFinish ==
  LET c == hash.ctx IN
  /\ hash' = [hash EXCEPT !.ctx = IF c.state = "ready" THEN Finished ELSE c]
  /\ sum' = IF c.state # "ready" THEN [given |-> Nothing, fed |-> Nothing]
            ELSE [given |-> [type |-> c.type, key |-> c.key, data |-> c.data],
                  fed |-> IF fed.data = << >> THEN [Nothing EXCEPT !.type = hash.type] ELSE fed]
  /\ fed' = IF c.state = "ready" THEN Nothing ELSE fed

DigestStep ==
  \/ \E t \in Digests \cup {NoType} : HmacSetType(t)
  \/ \E k \in HmacKeys : HmacSetKey(k)
  \/ \E d \in Data : DigestAppend(d)
  \/ DigestFinish

-----------------------------------------------------------------------------
(* The static Digest of a type, a key and all the data at once: the reference. *)
Digest(m) == [type |-> m.type, key |-> m.key, data |-> m.data]

Types    == Digests \cup {NoType}
Messages == [type : Types, key : Seq(HmacKeys), data : Seq(Data)]

DigestTypeOK ==
  /\ hash \in [kind : {"hash", "hmac"}, type : Types, key : Seq(HmacKeys),
              ctx : [state : {"none", "ready", "broken"}, type : Types,
                     key : Seq(HmacKeys), data : Seq(Data)]]
  /\ fed \in Messages /\ sum \in [given : Messages, fed : Messages]
=============================================================================

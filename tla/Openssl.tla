-------------------------------- MODULE Openssl --------------------------------
(***************************************************************************)
(* The objects of comex_openssl.cpp that keep a context between calls: an  *)
(* application has a digest or a cipher object and makes any sequence of   *)
(* calls on it.                                                            *)
(***************************************************************************)
EXTENDS OpensslDigest, OpensslCipher

CONSTANTS MaxDigestSteps, MaxCipherSteps \* bounds on the calls of a run

VARIABLES use,  \* which of the objects this run is about
          steps

vars == <<digestVars, cipherVars, use, steps>>

(* The object that is not used has any one of its first states. *)
Init ==
  /\ DigestInit /\ CipherInit /\ steps = 0
  /\ \/ use = "digest" /\ cfiles = [f \in CipherFiles |-> << >>] /\ Settings = FirstSettings
     \/ use = "cipher" /\ hash = HmacCreated

Next ==
  /\ UNCHANGED use /\ steps' = steps + 1
  /\ \/ use = "digest" /\ steps < MaxDigestSteps /\ DigestStep /\ UNCHANGED cipherVars
     \/ use = "cipher" /\ steps < MaxCipherSteps /\ CipherStep /\ UNCHANGED digestVars

Spec == Init /\ [][Next]_vars

-----------------------------------------------------------------------------
(* The variables have their types, and a decryption that checks a tag has one. *)
TypeOK == DigestTypeOK /\ CipherTypeOK /\ use \in {"digest", "cipher"} /\ steps \in Nat

(* A digest is that of exactly what was fed since the first piece of its
   message, under the type and key of then.  And after an encryption whose end
   went well the object's tag is that of exactly what was fed since its begin,
   under the settings of then, if the mode of the end was one that has tags; in
   another mode it is the tag from before, however the context was begun.  It
   stays so through what is set, decrypted, begun or fails afterwards, until a
   tag is set or another encryption ends well (comex_openssl.cpp:65-96, 155-219,
   385-453, 517-619). *)
SumIsOfItsMessage ==
  /\ sum.given = Digest(sum.fed)
  /\ sealed.known => crypto.tag = sealed.tag

(* What decrypts with the settings, and in CCM and GCM the tag, it was made
   with comes back as it was, in memory and from file to file, whatever the
   object did before; with another tag or in another state CCM and GCM fail.
   Excused are a full disk and a target that is the source, and CCM of nothing
   at all, which checks no tag (comex_openssl.cpp:365-383, 455-515, 621-703). *)
OpensWhatItMade ==
  LET whole == Fits(opened.set, opened.pieces)
      b     == BoxOf(opened.set, opened.pieces)
      tagged == Tagged(opened.set.mode)
  IN ~opened.excused /\ opened.pieces # << >> =>
       /\ whole /\ (tagged => opened.tag = {b}) => opened.out = b.data
       /\ tagged /\ ~(whole /\ opened.tag = {b}) => opened.out = Failed
=============================================================================

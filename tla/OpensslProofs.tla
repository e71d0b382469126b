---------------------------- MODULE OpensslProofs ----------------------------
(***************************************************************************)
(* What holds of the digest and cipher objects for every set of digests,   *)
(* keys, settings and texts, and for any number of calls.                  *)
(***************************************************************************)
EXTENDS Openssl, SequenceTheorems, FiniteSetTheorems, TLAPS

(* Between two calls a digest object either has nothing of a message, and if
   it can take one is as new, or its context holds exactly what was fed. *)
AsFed ==
  /\ hash.kind = "hash" => hash.key = << >> /\ hash.ctx.state # "none"
  /\ fed.data = << >> /\ hash.ctx.state = "ready" =>
       /\ hash.kind = "hash"
       /\ hash.ctx.type = hash.type /\ hash.ctx.key = << >> /\ hash.ctx.data = << >>
  /\ fed.data # << >> =>
       /\ hash.ctx.state = "ready"
       /\ hash.ctx.type = fed.type /\ hash.ctx.key = fed.key /\ hash.ctx.data = fed.data

DigestInv == DigestTypeOK /\ AsFed /\ sum.given = Digest(sum.fed)

(* The tag is what it should be, and the context of an encryption under way holds
   the settings of its begin and what was fed since. *)
SealedInv ==
  /\ sealed.known => crypto.tag = sealed.tag
  /\ ctx.dir = "enc" => Box(ctx.set, ctx.pieces) = begun

LEMMA ContextsType ==
  ASSUME NEW t \in Types, NEW k \in Seq(HmacKeys), NEW keyed \in BOOLEAN
  PROVE  Initialised(t, k, keyed) \in [state : {"none", "ready", "broken"}, type : Types,
                                       key : Seq(HmacKeys), data : Seq(Data)]
  BY DEF Initialised

LEMMA DigestStarts == DigestInit => DigestInv
<1> SUFFICES ASSUME DigestInit PROVE DigestInv
  OBVIOUS
<1>1. << >> \in Seq(HmacKeys) /\ << >> \in Seq(Data) /\ NoType \in Types
  BY DEF Types
<1>2. Nothing \in Messages /\ fed.data = << >>
  BY <1>1 DEF DigestInit, Nothing, Messages
<1>3. CASE hash = HmacCreated
  BY <1>1, <1>2, <1>3 DEF DigestInit, DigestInv, DigestTypeOK, AsFed, HmacCreated, NoContext, Digest, Nothing
<1>4. CASE \E t \in Digests \cup {NoType} : hash = HashCreated(t)
  <2>1. PICK t \in Types : hash = HashCreated(t)
    BY <1>4 DEF Types
  <2>2. hash.ctx \in [state : {"none", "ready", "broken"}, type : Types, key : Seq(HmacKeys), data : Seq(Data)]
    BY <1>1, <2>1, ContextsType DEF HashCreated
  <2> QED
    BY <1>1, <1>2, <2>1, <2>2 DEF DigestInit, DigestInv, DigestTypeOK, AsFed, HashCreated, Initialised, Digest, Nothing
<1> QED
  BY <1>3, <1>4 DEF DigestInit

LEMMA AppendKeeps ==
  ASSUME DigestInv, NEW d \in Data, DigestAppend(d)
  PROVE  DigestInv'
<1> DEFINE Contexts == [state : {"none", "ready", "broken"}, type : Types, key : Seq(HmacKeys), data : Seq(Data)]
<1>1. Begun \in Contexts
  BY ContextsType DEF DigestInv, DigestTypeOK, Begun
<1>2. hash.type \in Types /\ hash.key \in Seq(HmacKeys) /\ fed.data \in Seq(Data)
  BY DEF DigestInv, DigestTypeOK, Messages
<1>3. CASE Begun.state # "ready"
  <2>1. fed.data = << >>
    BY <1>3 DEF DigestInv, AsFed, Begun
  <2>2. hash' = [hash EXCEPT !.ctx = Begun] /\ fed' = fed /\ sum' = sum
    BY <1>3 DEF DigestAppend
  <2> QED
    BY <1>1, <1>3, <2>1, <2>2 DEF DigestInv, DigestTypeOK, AsFed, Begun, Digest, Initialised
<1>4. CASE Begun.state = "ready"
  <2> DEFINE c == [Begun EXCEPT !.data = Append(@, d)]
  <2>1. hash' = [hash EXCEPT !.ctx = c] /\ sum' = sum
    BY <1>4 DEF DigestAppend
  <2>2. Append(Begun.data, d) \in Seq(Data) /\ Append(Begun.data, d) # << >>
    BY <1>1, AppendProperties
  <2>3. c \in Contexts /\ c.state = "ready" /\ c.data = Append(Begun.data, d)
        /\ c.type = Begun.type /\ c.key = Begun.key
    BY <1>1, <1>4, <2>2
  <2>4. fed' \in Messages /\ fed'.data # << >> /\ c.type = fed'.type /\ c.key = fed'.key /\ c.data = fed'.data
    <3>1. CASE fed.data # << >>
      <4>1. Begun = hash.ctx
        BY <3>1 DEF DigestInv, AsFed, Begun
      <4>2. fed' = [fed EXCEPT !.data = Append(@, d)]
        BY <1>4, <3>1 DEF DigestAppend
      <4> QED
        BY <1>2, <2>2, <2>3, <3>1, <4>1, <4>2 DEF DigestInv, DigestTypeOK, AsFed, Messages
    <3>2. CASE fed.data = << >>
      <4>1. fed' = [type |-> hash.type, key |-> hash.key, data |-> <<d>>]
        BY <1>4, <3>2 DEF DigestAppend
      <4>2. Begun.type = hash.type /\ Begun.key = hash.key /\ Begun.data = << >>
        BY <1>4, <3>2 DEF DigestInv, AsFed, Begun, Initialised
      <4> QED
        BY <1>2, <2>3, <4>1, <4>2 DEF Messages
    <3> QED
      BY <3>1, <3>2
  <2>5. hash' \in [kind : {"hash", "hmac"}, type : Types, key : Seq(HmacKeys), ctx : Contexts]
        /\ hash'.ctx = c /\ hash'.kind = hash.kind /\ hash'.key = hash.key
    BY <2>1, <2>3 DEF DigestInv, DigestTypeOK
  <2>6. AsFed'
    BY <2>3, <2>4, <2>5 DEF DigestInv, AsFed
  <2> QED
    BY <2>1, <2>4, <2>5, <2>6 DEF DigestInv, DigestTypeOK, Digest
<1> QED
  BY <1>3, <1>4

LEMMA FinishKeeps ==
  ASSUME DigestInv, DigestFinish
  PROVE  DigestInv'
<1> DEFINE Contexts == [state : {"none", "ready", "broken"}, type : Types, key : Seq(HmacKeys), data : Seq(Data)]
<1>1. << >> \in Seq(HmacKeys) /\ << >> \in Seq(Data) /\ NoType \in Types /\ Nothing \in Messages
  BY DEF Types, Nothing, Messages
<1>2. hash.type \in Types /\ hash.ctx \in Contexts /\ fed \in Messages
  BY DEF DigestInv, DigestTypeOK
<1>3. CASE hash.ctx.state # "ready"
  <2>1. hash' = hash /\ fed' = fed /\ sum' = [given |-> Nothing, fed |-> Nothing]
    BY <1>3 DEF DigestFinish, DigestInv, DigestTypeOK
  <2> QED
    BY <1>1, <2>1 DEF DigestInv, DigestTypeOK, AsFed, Digest, Nothing
<1>4. CASE hash.ctx.state = "ready"
  <2> DEFINE told == IF fed.data = << >> THEN [Nothing EXCEPT !.type = hash.type] ELSE fed
             given == [type |-> hash.ctx.type, key |-> hash.ctx.key, data |-> hash.ctx.data]
  <2>1. hash' = [hash EXCEPT !.ctx = Finished] /\ fed' = Nothing /\ sum' = [given |-> given, fed |-> told]
    BY <1>4 DEF DigestFinish
  <2>2. Finished \in Contexts
    BY <1>1, <1>2, ContextsType DEF Finished, NoContext
  <2>3. given \in Messages /\ told \in Messages
    BY <1>1, <1>2 DEF Messages, Nothing
  <2>4. given = Digest(told)
    BY <1>4 DEF DigestInv, AsFed, Digest, Nothing
  <2>5. DigestTypeOK'
    BY <1>1, <2>1, <2>2, <2>3 DEF DigestInv, DigestTypeOK
  <2>6. AsFed'
    <3>1. hash'.ctx = Finished /\ hash'.kind = hash.kind /\ hash'.key = hash.key /\ hash'.type = hash.type
      BY <2>1 DEF DigestInv, DigestTypeOK
    <3>2. fed'.data = << >>
      BY <2>1 DEF Nothing
    <3> QED
      BY <3>1, <3>2 DEF AsFed, DigestInv, DigestTypeOK, Finished, Initialised, NoContext
  <2> QED
    BY <2>1, <2>4, <2>5, <2>6 DEF DigestInv
<1> QED
  BY <1>3, <1>4

LEMMA SettingsKeep ==
  ASSUME DigestInv,
         \/ \E t \in Digests \cup {NoType} : HmacSetType(t)
         \/ \E k \in HmacKeys : HmacSetKey(k)
  PROVE  DigestInv'
<1>1. ASSUME NEW t \in Types, HmacSetType(t) PROVE DigestInv'
  BY <1>1 DEF HmacSetType, DigestInv, DigestTypeOK, AsFed, Digest
<1>2. ASSUME NEW k \in HmacKeys, HmacSetKey(k) PROVE DigestInv'
  <2>1. Append(hash.key, k) \in Seq(HmacKeys)
    BY DEF DigestInv, DigestTypeOK
  <2> QED
    BY <1>2, <2>1 DEF HmacSetKey, DigestInv, DigestTypeOK, AsFed, Digest
<1> QED
  BY <1>1, <1>2 DEF Types

-----------------------------------------------------------------------------
(* The cipher objects *)

Sets      == [mode : Modes, key : Keys, iv : IVs]
Boxes     == [set : Sets, data : Seq(Texts)]
Tags      == {{}} \cup {{b} : b \in Boxes}
BoxPieces == [of : {"box"}, set : Sets, upto : Seq(Texts), end : BOOLEAN]
Units     == [of : {"text"}, text : Texts] \cup BoxPieces \cup [of : {"tag"}, box : Boxes]
               \cup {[of |-> "garbage"]}

(* Only one piece is made and taken under CCM, and in what a decryption was fed
   under it the tag has been checked; a tagged decryption has a tag. *)
ContextOK(c) ==
  /\ c \in [dir : {"none", "dec"}, set : Sets, tag : Tags, pieces : Seq(BoxPieces)]
            \cup [dir : {"enc"}, set : Sets, tag : Tags, pieces : Seq(Texts)]
  /\ c.dir = "enc" /\ c.set.mode = "CCM" => Len(c.pieces) <= 1
  /\ c.dir = "dec" /\ Tagged(c.set.mode) => c.tag # {}
  /\ c.dir = "dec" /\ c.set.mode = "CCM" /\ c.pieces # << >> =>
       Fits(c.set, c.pieces) /\ c.tag = {BoxOf(c.set, c.pieces)}

BoxOK(b) == b \in Boxes /\ (b.set.mode = "CCM" => Len(b.data) <= 1)

FileOK(units) ==
  units \in Seq(Units) /\ \A i \in DOMAIN units :
    units[i].of = "box" => (units[i].set.mode = "CCM" => i = 1)

CipherInv ==
  /\ crypto \in [mode : Modes, key : Keys, iv : IVs, tag : Tags]
  /\ ContextOK(ctx)
  /\ \A b \in boxes : BoxOK(b)
  /\ cfiles \in [CipherFiles -> Seq(Units)] /\ \A f \in CipherFiles : FileOK(cfiles[f])
  /\ begun \in Boxes /\ sealed \in [known : BOOLEAN, tag : Tags]

LEMMA SetsType ==
  ASSUME CipherInv
  PROVE  /\ Settings \in Sets /\ FirstSettings \in Sets
         /\ ContextOK(Idle) /\ ContextOK(Began("enc"))
         /\ CanDecrypt => ContextOK(Began("dec"))
<1>1. Settings \in Sets /\ crypto.tag \in Tags
  BY DEF CipherInv, Settings, Sets
<1>2. FirstSettings \in Sets
  BY DEF CipherInv, FirstSettings, Sets
<1>3. << >> \in Seq(BoxPieces) /\ << >> \in Seq(Texts) /\ Len(<< >>) = 0 /\ {} \in Tags
  BY EmptySeq DEF Tags
<1>4. ContextOK(Idle)
  BY <1>2, <1>3 DEF Idle, ContextOK
<1>5. ContextOK(Began("enc"))
  BY <1>1, <1>3 DEF Began, ContextOK
<1>6. ASSUME CanDecrypt PROVE ContextOK(Began("dec"))
  BY <1>1, <1>3, <1>6 DEF Began, ContextOK, CanDecrypt, Settings
<1> QED
  BY <1>1, <1>2, <1>4, <1>5, <1>6

(* The context of an operation that is fed at once. *)
LEMMA EncryptFeeds ==
  ASSUME CipherInv, NEW p \in Seq(Texts), crypto.mode = "CCM" => Len(p) <= 1,
         NEW c, c = [Began("enc") EXCEPT !.pieces = p]
  PROVE  ContextOK(c) /\ c.dir = "enc" /\ c.set = Settings /\ c.pieces = p
<1>1. Began("enc") \in [dir : {"enc"}, set : Sets, tag : Tags, pieces : Seq(Texts)]
  BY SetsType DEF ContextOK, Began
<1>2. c \in [dir : {"enc"}, set : Sets, tag : Tags, pieces : Seq(Texts)] /\ c.pieces = p
  BY <1>1
<1>3. c.set = Settings
  BY <1>1 DEF Began
<1> QED
  BY <1>2, <1>3 DEF ContextOK, Settings

LEMMA DecryptFeeds ==
  ASSUME CipherInv, CanDecrypt, NEW p \in Seq(BoxPieces), p = << >> \/ Takes(Began("dec"), p),
         NEW c, c = [Began("dec") EXCEPT !.pieces = p]
  PROVE  ContextOK(c) /\ c.dir = "dec" /\ c.set = Settings /\ c.tag = crypto.tag /\ c.pieces = p
<1>1. Began("dec") \in [dir : {"dec"}, set : Sets, tag : Tags, pieces : Seq(BoxPieces)]
  BY SetsType DEF ContextOK, Began
<1>2. c \in [dir : {"dec"}, set : Sets, tag : Tags, pieces : Seq(BoxPieces)] /\ c.pieces = p
  BY <1>1
<1>3. c.set = Settings /\ c.tag = crypto.tag
  BY <1>1 DEF Began
<1>4. Began("dec").set = Settings /\ Began("dec").tag = crypto.tag
  BY DEF Began
<1> QED
  BY <1>2, <1>3, <1>4 DEF ContextOK, Settings, CanDecrypt, Takes

(* The pieces of a box are of its settings, and under CCM one for each of its
   data. *)
LEMMA PiecesType ==
  ASSUME NEW b \in Boxes
  PROVE  /\ Pieces(b) \in Seq(BoxPieces) /\ DOMAIN Pieces(b) = 1..Len(Pieces(b))
         /\ \A i \in DOMAIN Pieces(b) : Pieces(b)[i] \in BoxPieces /\ Pieces(b)[i].set = b.set
         /\ b.set.mode = "CCM" => Len(Pieces(b)) = Len(b.data)
<1> DEFINE padded == Padded(b.set.mode)
           n == IF padded /\ b.data = << >> THEN 1 ELSE Len(b.data)
           piece(i) == [of |-> "box", set |-> b.set, upto |-> IF b.data = << >> THEN << >> ELSE SubSeq(b.data, 1, i),
                        end |-> padded /\ i = n]
<1>1. b.set \in Sets /\ b.data \in Seq(Texts) /\ Len(b.data) \in Nat
  BY LenProperties DEF Boxes
<1>2. n \in Nat
  BY <1>1
<1>3. ASSUME NEW i \in 1..n PROVE piece(i) \in BoxPieces
  <2>1. CASE b.data = << >>
    <3>1. << >> \in Seq(Texts)
      BY EmptySeq
    <3> QED
      BY <1>1, <2>1, <3>1 DEF BoxPieces
  <2>2. CASE b.data # << >>
    <3>1. i \in 1..Len(b.data)
      BY <2>2
    <3>2. i \in Int /\ i \in Nat /\ \A j \in 1..i : b.data[j] \in Texts
      BY <1>1, <3>1, ElementOfSeq
    <3>3. SubSeq(b.data, 1, i) \in Seq(Texts)
      BY <3>2, SubSeqProperties
    <3> QED
      BY <1>1, <2>2, <3>3 DEF BoxPieces
  <2> QED
    BY <2>1, <2>2
<1>4. Pieces(b) = [i \in 1..n |-> piece(i)]
  BY DEF Pieces
<1>5. b.set.mode = "CCM" => n = Len(b.data)
  BY DEF Padded
<1>6. \A i \in 1..n : piece(i).set = b.set
  OBVIOUS
<1> HIDE DEF n, piece
<1>7. Pieces(b) \in [1..n -> BoxPieces] /\ \A i \in 1..n : Pieces(b)[i] = piece(i)
  BY <1>3, <1>4
<1>8. Pieces(b) \in Seq(BoxPieces)
  BY <1>2, <1>7, SeqDef
<1>9. Len(Pieces(b)) = n
  BY <1>2, <1>7, <1>8, LenProperties
<1> QED
  BY <1>3, <1>5, <1>6, <1>7, <1>8, <1>9

(* A settings' tag as it is attached to a file. *)
LEMMA TagsType ==
  ASSUME NEW T \in Tags
  PROVE  SetToSeq({Tag(t) : t \in T}) \in Seq([of : {"tag"}, box : Boxes])
<1> DEFINE S == {Tag(t) : t \in T}
<1>1. S \subseteq [of : {"tag"}, box : Boxes]
  BY DEF Tags, Tag
<1>2. S = {} \/ \E x : S = {x}
  <2>1. CASE T = {}
    BY <2>1
  <2>2. ASSUME NEW b \in Boxes, T = {b} PROVE \E x : S = {x}
    <3>1. S = {Tag(b)}
      BY <2>2
    <3> QED
      BY <3>1
  <2> QED
    BY <2>1, <2>2 DEF Tags
<1> HIDE DEF S
<1>3. PICK n \in Nat : n = Cardinality(S) /\ \E f \in [1..n -> S] : IsInjective(f)
  <2>1. CASE S = {}
    <3>1. Cardinality(S) = 0
      BY <2>1, FS_EmptySet
    <3>2. [i \in 1..0 |-> 0] \in [1..0 -> S] /\ IsInjective([i \in 1..0 |-> 0])
      BY DEF IsInjective
    <3>3. \E f \in [1..0 -> S] : IsInjective(f)
      BY <3>2
    <3> WITNESS 0 \in Nat
    <3> QED
      BY <3>1, <3>3
  <2>2. ASSUME NEW x, S = {x}
        PROVE  \E n \in Nat : n = Cardinality(S) /\ \E f \in [1..n -> S] : IsInjective(f)
    <3>1. Cardinality(S) = 1
      BY <2>2, FS_Singleton
    <3>2. [i \in 1..1 |-> x] \in [1..1 -> S] /\ IsInjective([i \in 1..1 |-> x])
      BY <2>2 DEF IsInjective
    <3>3. \E f \in [1..1 -> S] : IsInjective(f)
      BY <3>2
    <3> QED
      BY <3>1, <3>3
  <2> QED
    BY <1>2, <2>1, <2>2
<1>4. SetToSeq(S) \in [1..n -> S]
  BY <1>3 DEF SetToSeq
<1>5. SetToSeq(S) \in [1..n -> [of : {"tag"}, box : Boxes]]
  BY <1>1, <1>4
<1> QED
  BY <1>5, SeqDef DEF S

(* What an encryption that ended well has made. *)
LEMMA SealedType ==
  ASSUME CipherInv, NEW c, ContextOK(c), c.dir = "enc", NEW fedBox \in Boxes
  PROVE  /\ BoxOK(Box(c.set, c.pieces))
         /\ Sealed(c, fedBox) => /\ crypto' \in [mode : Modes, key : Keys, iv : IVs, tag : Tags]
                                 /\ sealed' \in [known : BOOLEAN, tag : Tags]
<1>1. c.set \in Sets /\ c.pieces \in Seq(Texts) /\ (c.set.mode = "CCM" => Len(c.pieces) <= 1)
  BY DEF ContextOK
<1>2. BoxOK(Box(c.set, c.pieces)) /\ Box(c.set, c.pieces) \in Boxes
  BY <1>1 DEF BoxOK, Boxes, Box
<1>3. ASSUME Sealed(c, fedBox)
      PROVE  /\ crypto' \in [mode : Modes, key : Keys, iv : IVs, tag : Tags]
             /\ sealed' \in [known : BOOLEAN, tag : Tags]
  <2>1. TagAfter(c) \in Tags /\ {fedBox} \in Tags /\ crypto.tag \in Tags
    BY <1>2 DEF TagAfter, Tags, CipherInv
  <2> QED
    BY <1>3, <2>1 DEF Sealed, CipherInv
<1> QED
  BY <1>2, <1>3

(* What fits settings consists of pieces made under them. *)
LEMMA FitsMeans ==
  ASSUME NEW s \in Sets, NEW p, Fits(s, p), BoxOf(s, p) \in Boxes
  PROVE  /\ p \in Seq(BoxPieces) /\ DOMAIN p = 1..Len(p)
         /\ \A i \in DOMAIN p : p[i] \in BoxPieces /\ p[i].set = s
<1>1. p = Pieces(BoxOf(s, p)) /\ BoxOf(s, p).set = s
  BY DEF Fits, BoxOf, Box
<1> HIDE DEF BoxOf
<1> QED
  BY <1>1, PiecesType

LEMMA BoxOfType ==
  ASSUME NEW s \in Sets, NEW p \in Seq(Units)
  PROVE  BoxOf(s, p) \in Boxes
<1>1. << >> \in Seq(Texts)
  BY EmptySeq
<1>2. CASE p # << >> /\ p[Len(p)].of = "box"
  <2>1. Len(p) \in 1..Len(p)
    BY <1>2, EmptySeq, LenProperties
  <2>2. p[Len(p)] \in Units
    BY <2>1, ElementOfSeq
  <2>3. p[Len(p)].upto \in Seq(Texts)
    BY <1>2, <2>2 DEF Units, BoxPieces
  <2> QED
    BY <1>2, <2>3 DEF BoxOf, Box, Boxes
<1> QED
  BY <1>1, <1>2 DEF BoxOf, Box, Boxes

(* A decryption that ends in what it may end in is as it should be, and one that
   fails too if it was fed something else or checks another tag. *)
LEMMA OutcomeOpens ==
  ASSUME NEW c, NEW out \in Outcome(c), Opened(c, out, FALSE),
         c.set.mode = "CCM" /\ c.pieces # << >> =>
           Fits(c.set, c.pieces) /\ c.tag = {BoxOf(c.set, c.pieces)}
  PROVE  OpensWhatItMade'
<1> DEFINE b == BoxOf(c.set, c.pieces)
<1>1. opened' = [set |-> c.set, tag |-> c.tag, pieces |-> c.pieces, out |-> out, excused |-> FALSE]
  BY DEF Opened
<1>2. c.pieces # << >> =>
        /\ Fits(c.set, c.pieces) /\ (Tagged(c.set.mode) => c.tag = {b}) => out = b.data
        /\ Tagged(c.set.mode) /\ ~(Fits(c.set, c.pieces) /\ c.tag = {b}) => out = Failed
  <2> HIDE DEF b
  <2>1. CASE c.set.mode = "GCM"
    BY <2>1 DEF Outcome, Tagged, b
  <2>2. CASE c.set.mode = "CCM"
    BY <2>2 DEF Outcome, Tagged, Padded, b
  <2>3. CASE ~Tagged(c.set.mode)
    BY <2>3 DEF Outcome, Tagged, b
  <2> QED
    BY <2>1, <2>2, <2>3 DEF Tagged
<1> QED
  BY <1>1, <1>2 DEF OpensWhatItMade

LEMMA FailureOpens ==
  ASSUME NEW c, NEW excused, Opened(c, Failed, excused),
         excused \/ (Tagged(c.set.mode) /\ ~(Fits(c.set, c.pieces) /\ c.tag = {BoxOf(c.set, c.pieces)}))
  PROVE  OpensWhatItMade'
<1>1. opened' = [set |-> c.set, tag |-> c.tag, pieces |-> c.pieces, out |-> Failed, excused |-> excused]
  BY DEF Opened
<1> QED
  BY <1>1 DEF OpensWhatItMade

(* The settings, the operations in memory. *)
LEMMA SettersKeep ==
  ASSUME CipherInv, OpensWhatItMade,
         \/ \E m \in Modes : SetMode(m)
         \/ \E k \in Keys : SetKey(k)
         \/ \E v \in IVs : SetIV(v)
         \/ \E b \in boxes : SetTag(b)
  PROVE  CipherInv' /\ OpensWhatItMade'
<1>1. \A b \in boxes : {b} \in Tags
  BY DEF CipherInv, BoxOK, Tags
<1>2. crypto' \in [mode : Modes, key : Keys, iv : IVs, tag : Tags]
  BY <1>1 DEF CipherInv, SetMode, SetKey, SetIV, SetTag
<1>3. UNCHANGED <<ctx, boxes, cfiles, begun, opened>>
  BY DEF SetMode, SetKey, SetIV, SetTag
<1>4. sealed' \in [known : BOOLEAN, tag : Tags]
  <2>1. {} \in Tags /\ sealed \in [known : BOOLEAN, tag : Tags]
    BY DEF Tags, CipherInv
  <2>2. UNCHANGED sealed \/ sealed' = [known |-> FALSE, tag |-> {}]
    BY DEF SetMode, SetKey, SetIV, SetTag
  <2>3. [known |-> FALSE, tag |-> {}] \in [known : BOOLEAN, tag : Tags]
    BY <2>1
  <2> QED
    BY <2>1, <2>2, <2>3
<1> QED
  BY <1>2, <1>3, <1>4 DEF CipherInv, OpensWhatItMade

LEMMA EncryptingKeeps ==
  ASSUME CipherInv, OpensWhatItMade,
         EncryptBegin \/ EncryptEnd \/ \E d \in Texts : EncryptAppend(d) \/ Encrypt(d)
  PROVE  CipherInv' /\ OpensWhatItMade'
<1>1. UNCHANGED <<cfiles, opened>>
  BY DEF EncryptBegin, EncryptEnd, EncryptAppend, Encrypt
<1>2. OpensWhatItMade'
  BY <1>1 DEF OpensWhatItMade
<1>3. ASSUME EncryptBegin PROVE CipherInv'
  <2>1. begun' \in Boxes
    BY <1>3, SetsType, EmptySeq DEF EncryptBegin, Box, Boxes
  <2> QED
    BY <1>3, <2>1, SetsType DEF EncryptBegin, CipherInv
<1>4. ASSUME NEW d \in Texts, EncryptAppend(d) PROVE CipherInv'
  <2> DEFINE c == [ctx EXCEPT !.pieces = Append(@, d)]
  <2>1. ContextOK(ctx) /\ ctx.dir = "enc"
    BY <1>4 DEF EncryptAppend, CipherInv
  <2>2. ctx \in [dir : {"enc"}, set : Sets, tag : Tags, pieces : Seq(Texts)]
    BY <2>1 DEF ContextOK
  <2>3. Append(ctx.pieces, d) \in Seq(Texts) /\ Len(Append(ctx.pieces, d)) = Len(ctx.pieces) + 1
    BY <2>2, AppendProperties
  <2>4. ASSUME ctx.set.mode = "CCM" => ctx.pieces = << >> PROVE ContextOK(c)
    <3>1. c \in [dir : {"enc"}, set : Sets, tag : Tags, pieces : Seq(Texts)]
      BY <2>2, <2>3
    <3>2. c.set.mode = "CCM" => Len(c.pieces) <= 1
      BY <2>2, <2>3, <2>4, EmptySeq
    <3>3. c.dir = "enc"
      BY <3>1
    <3> HIDE DEF c
    <3> QED
      BY <3>1, <3>2, <3>3 DEF ContextOK
  <2>5. ContextOK(ctx')
    BY <1>4, <2>4, SetsType DEF EncryptAppend
  <2>6. begun' \in Boxes
    <3>1. begun.data \in Seq(Texts) /\ begun \in [set : Sets, data : Seq(Texts)]
      BY DEF CipherInv, Boxes
    <3>2. Append(begun.data, d) \in Seq(Texts)
      BY <3>1, AppendProperties
    <3>3. [begun EXCEPT !.data = Append(@, d)] \in Boxes
      BY <3>1, <3>2 DEF Boxes
    <3> QED
      BY <1>4, <3>1, <3>3 DEF EncryptAppend, Boxes
  <2> QED
    BY <1>4, <2>5, <2>6 DEF EncryptAppend, CipherInv
<1>5. ASSUME EncryptEnd PROVE CipherInv'
  <2>1. ctx.dir = "enc" /\ ContextOK(ctx) /\ ContextOK(ctx') /\ UNCHANGED begun /\ begun \in Boxes
    BY <1>5, SetsType DEF EncryptEnd, CipherInv
  <2>2. CASE UNCHANGED <<crypto, boxes, sealed>>
    BY <1>1, <2>1, <2>2 DEF CipherInv
  <2>3. CASE Sealed(ctx, begun) /\ boxes' = boxes \cup {Box(ctx.set, ctx.pieces)}
    <3>1. /\ crypto' \in [mode : Modes, key : Keys, iv : IVs, tag : Tags]
          /\ sealed' \in [known : BOOLEAN, tag : Tags] /\ \A b \in boxes' : BoxOK(b)
      BY <2>1, <2>3, SealedType DEF CipherInv
    <3> QED
      BY <1>1, <2>1, <3>1 DEF CipherInv
  <2> QED
    BY <1>5, <2>2, <2>3 DEF EncryptEnd
<1>6. ASSUME NEW d \in Texts, Encrypt(d) PROVE CipherInv'
  <2>0. PICK c : c = [Began("enc") EXCEPT !.pieces = <<d>>]
    OBVIOUS
  <2>1. <<d>> \in Seq(Texts) /\ Len(<<d>>) <= 1
    OBVIOUS
  <2>3. ContextOK(c) /\ c.dir = "enc"
    BY <2>0, <2>1, EncryptFeeds
  <2>4. Sealed(c, Box(Settings, <<d>>)) /\ boxes' = boxes \cup {Box(c.set, c.pieces)} /\ ctx' = Idle
        /\ UNCHANGED begun /\ Box(Settings, <<d>>) \in Boxes
    BY <1>6, <2>0, <2>1, SetsType DEF Encrypt, Box, Boxes
  <2>5. /\ crypto' \in [mode : Modes, key : Keys, iv : IVs, tag : Tags]
        /\ sealed' \in [known : BOOLEAN, tag : Tags] /\ \A b \in boxes' : BoxOK(b)
    BY <2>3, <2>4, SealedType DEF CipherInv
  <2> QED
    BY <1>1, <2>4, <2>5, SetsType DEF CipherInv
<1> QED
  BY <1>2, <1>3, <1>4, <1>5, <1>6

LEMMA DecryptingKeeps ==
  ASSUME CipherInv, OpensWhatItMade,
         \/ DecryptBegin \/ DecryptEnd
         \/ \E b \in boxes : Decrypt(b) \/ \E i \in DOMAIN Pieces(b) : DecryptAppend(Pieces(b)[i])
  PROVE  CipherInv' /\ OpensWhatItMade'
<1>1. UNCHANGED <<crypto, boxes, cfiles, begun, sealed>>
  BY DEF DecryptBegin, DecryptEnd, Decrypt, DecryptAppend
<1>2. ContextOK(ctx') => CipherInv'
  BY <1>1 DEF CipherInv
<1>3. UNCHANGED opened => OpensWhatItMade'
  BY DEF OpensWhatItMade
<1>4. CASE DecryptBegin
  BY <1>2, <1>3, <1>4, SetsType DEF DecryptBegin
<1>5. CASE DecryptEnd
  <2>1. ContextOK(ctx) /\ ctx.dir = "dec" /\ ContextOK(ctx')
    BY <1>5, SetsType DEF DecryptEnd, CipherInv
  <2>2. PICK out \in Outcome(ctx) : Opened(ctx, out, FALSE)
    BY <1>5 DEF DecryptEnd
  <2> QED
    BY <1>2, <2>1, <2>2, OutcomeOpens DEF ContextOK
<1>6. ASSUME NEW b \in boxes, Decrypt(b) PROVE CipherInv' /\ OpensWhatItMade'
  <2>1. PICK c : c = [Began("dec") EXCEPT !.pieces = Pieces(b)]
    OBVIOUS
  <2>2. b \in Boxes /\ (b.set.mode = "CCM" => Len(b.data) <= 1)
    BY DEF CipherInv, BoxOK
  <2>3. Pieces(b) \in Seq(BoxPieces) /\ Pieces(b) # << >> /\ CanDecrypt /\ ContextOK(ctx')
    BY <1>6, <2>2, PiecesType, SetsType DEF Decrypt
  <2>4. OpensWhatItMade'
    <3>1. CASE Takes(Began("dec"), Pieces(b))
      <4>1. ContextOK(c) /\ c.dir = "dec"
        BY <2>1, <2>3, <3>1, DecryptFeeds
      <4>2. PICK out \in Outcome(c) : Opened(c, out, FALSE)
        BY <1>6, <2>1, <3>1 DEF Decrypt
      <4> QED
        BY <4>1, <4>2, OutcomeOpens DEF ContextOK
    <3>2. CASE ~Takes(Began("dec"), Pieces(b))
      <4>1. Opened(c, Failed, FALSE)
        BY <1>6, <2>1, <3>2 DEF Decrypt
      <4>2. Began("dec").set = Settings /\ Began("dec").tag = crypto.tag /\ Began("dec").pieces = << >>
        BY DEF Began
      <4>3. c.set = Settings /\ c.tag = crypto.tag /\ c.pieces = Pieces(b)
        <5>1. Began("dec") \in [dir : {"dec"}, set : Sets, tag : Tags, pieces : Seq(BoxPieces)]
          BY <2>3, SetsType DEF ContextOK, Began
        <5> QED
          BY <2>1, <4>2, <5>1
      <4>4. Settings.mode = "CCM" /\ Settings \in Sets
        BY <3>2, <4>2, SetsType DEF Takes
      <4>5. ASSUME Fits(Settings, Pieces(b)) PROVE Len(Pieces(b)) = 1
        <5>1. Pieces(b) \in Seq(Units)
          <6>1. BoxPieces \subseteq Units
            BY DEF Units
          <6> QED
            BY <2>3, <6>1, SeqMonotonic
        <5>2. 1 \in DOMAIN Pieces(b) /\ Len(Pieces(b)) \in Nat \ {0}
          BY <2>2, <2>3, PiecesType, EmptySeq, LenProperties
        <5>3. Pieces(b)[1].set = Settings
          BY <4>4, <4>5, <5>1, <5>2, BoxOfType, FitsMeans
        <5>4. b.set.mode = "CCM"
          BY <2>2, <4>4, <5>2, <5>3, PiecesType
        <5>5. Len(Pieces(b)) <= 1
          BY <2>2, <5>4, PiecesType
        <5>6. \A n \in Nat \ {0} : n <= 1 => n = 1
          OBVIOUS
        <5> QED
          BY <5>2, <5>5, <5>6, Zenon
      <4>6. ~(Fits(c.set, c.pieces) /\ c.tag = {BoxOf(c.set, c.pieces)})
        BY <3>2, <4>2, <4>3, <4>5 DEF Takes
      <4> QED
        BY <4>1, <4>3, <4>4, <4>6, FailureOpens DEF Tagged
    <3> QED
      BY <3>1, <3>2
  <2> QED
    BY <1>2, <2>3, <2>4
<1>7. ASSUME NEW b \in boxes, NEW i \in DOMAIN Pieces(b), DecryptAppend(Pieces(b)[i])
      PROVE  CipherInv' /\ OpensWhatItMade'
  <2> DEFINE p == Pieces(b)[i]
  <2>1. b \in Boxes
    BY DEF CipherInv, BoxOK
  <2>2. p \in BoxPieces /\ UNCHANGED opened
    BY <1>7, <2>1, PiecesType DEF DecryptAppend
  <2>3. /\ ctx.dir = "dec" /\ ContextOK(ctx)
        /\ ctx' = IF Takes(ctx, <<p>>) THEN [ctx EXCEPT !.pieces = Append(@, p)] ELSE Idle
    BY <1>7 DEF DecryptAppend, CipherInv
  <2> HIDE DEF p
  <2>4. ASSUME Takes(ctx, <<p>>) PROVE ContextOK(ctx')
    <3>1. ctx \in [dir : {"dec"}, set : Sets, tag : Tags, pieces : Seq(BoxPieces)]
      BY <2>3 DEF ContextOK
    <3>2. Append(ctx.pieces, p) \in Seq(BoxPieces)
      BY <2>2, <3>1, AppendProperties
    <3>3. ctx' \in [dir : {"dec"}, set : Sets, tag : Tags, pieces : Seq(BoxPieces)]
          /\ ctx'.set = ctx.set /\ ctx'.tag = ctx.tag /\ ctx'.pieces = Append(ctx.pieces, p)
      BY <2>3, <2>4, <3>1, <3>2
    <3>4. ctx.set.mode = "CCM" => ctx'.pieces = <<p>>
      <4>1. Append(<< >>, p) = <<p>>
        OBVIOUS
      <4>2. ctx.set.mode = "CCM" => ctx.pieces = << >>
        BY <2>4 DEF Takes
      <4> QED
        BY <3>3, <4>1, <4>2
    <3>5. ctx.set.mode = "CCM" => Fits(ctx'.set, ctx'.pieces) /\ ctx'.tag = {BoxOf(ctx'.set, ctx'.pieces)}
      BY <2>4, <3>3, <3>4 DEF Takes
    <3>6. Tagged(ctx.set.mode) => ctx'.tag # {}
      BY <2>3, <3>3 DEF ContextOK
    <3> QED
      BY <3>3, <3>5, <3>6 DEF ContextOK
  <2>5. ContextOK(ctx')
    BY <2>3, <2>4, SetsType
  <2> QED
    BY <1>2, <1>3, <2>2, <2>5
<1> QED
  BY <1>4, <1>5, <1>6, <1>7

(* What is written into files. *)
LEMMA PlainFile ==
  ASSUME NEW t \in Seq(Texts)
  PROVE  FileOK(Plain(t))
<1>1. Len(t) \in Nat /\ DOMAIN t = 1..Len(t) /\ \A i \in 1..Len(t) : t[i] \in Texts
  BY LenProperties, ElementOfSeq
<1>2. \A i \in 1..Len(t) : [of |-> "text", text |-> t[i]] \in Units
  BY <1>1 DEF Units
<1>3. Plain(t) = [i \in 1..Len(t) |-> [of |-> "text", text |-> t[i]]]
  BY <1>1 DEF Plain
<1>4. Plain(t) \in [1..Len(t) -> Units] /\ \A i \in 1..Len(t) : Plain(t)[i].of = "text"
  BY <1>2, <1>3
<1>5. Plain(t) \in Seq(Units)
  BY <1>1, <1>4, SeqDef
<1> QED
  BY <1>4, <1>5 DEF FileOK

LEMMA CipherFile ==
  ASSUME NEW b, BoxOK(b), NEW tags \in Seq([of : {"tag"}, box : Boxes])
  PROVE  /\ FileOK(Pieces(b) \o tags)
         /\ \A n \in 0..(Len(Pieces(b)) - 1) : FileOK(SubSeq(Pieces(b), 1, n))
<1> DEFINE p == Pieces(b)
<1>1. BoxPieces \subseteq Units /\ [of : {"tag"}, box : Boxes] \subseteq Units
  BY DEF Units
<1>2. /\ p \in Seq(BoxPieces) /\ DOMAIN p = 1..Len(p) /\ Len(p) \in Nat
      /\ \A i \in 1..Len(p) : p[i].set = b.set /\ p[i] \in Units
      /\ b.set.mode = "CCM" => Len(p) = Len(b.data) /\ Len(b.data) <= 1
  BY <1>1, PiecesType, LenProperties DEF BoxOK
<1> HIDE DEF p
<1>3. p \in Seq(Units) /\ tags \in Seq(Units) /\ Len(tags) \in Nat
  BY <1>1, <1>2, SeqMonotonic, LenProperties
<1>4. \A i \in 1..Len(p) : p[i].set.mode = "CCM" => i = 1
  <2>1. ASSUME NEW i \in 1..Len(p), p[i].set.mode = "CCM" PROVE i = 1
    <3>1. Len(p) <= 1
      BY <1>2, <2>1
    <3> QED
      BY <1>2, <3>1
  <2> QED
    BY <2>1
<1>5. FileOK(p \o tags)
  <2>1. p \o tags \in Seq(Units) /\ Len(p \o tags) = Len(p) + Len(tags)
        /\ \A i \in 1..Len(p) + Len(tags) : (p \o tags)[i] = IF i <= Len(p) THEN p[i] ELSE tags[i - Len(p)]
    BY <1>3, ConcatProperties
  <2>2. DOMAIN (p \o tags) = 1..Len(p) + Len(tags)
    BY <2>1, LenProperties
  <2>3. \A i \in 1..Len(tags) : tags[i].of = "tag"
    <3>1. \A i \in 1..Len(tags) : tags[i] \in [of : {"tag"}, box : Boxes]
      BY ElementOfSeq
    <3> QED
      BY <3>1
  <2>4. ASSUME NEW i \in 1..Len(p) + Len(tags), (p \o tags)[i].of = "box", (p \o tags)[i].set.mode = "CCM"
        PROVE  i = 1
    <3>1. CASE i <= Len(p)
      <4>1. i \in 1..Len(p)
        BY <1>2, <1>3, <3>1
      <4> QED
        BY <1>4, <2>1, <2>4, <3>1, <4>1
    <3>2. CASE ~(i <= Len(p))
      <4>1. i - Len(p) \in 1..Len(tags)
        BY <1>2, <1>3, <3>2
      <4>2. tags[i - Len(p)].of = "tag"
        BY <2>3, <4>1
      <4> QED
        BY <2>1, <2>4, <3>2, <4>2
    <3> QED
      BY <3>1, <3>2
  <2> QED
    BY <2>1, <2>2, <2>4 DEF FileOK
<1>6. ASSUME NEW n \in 0..(Len(p) - 1) PROVE FileOK(SubSeq(p, 1, n))
  <2>1. n \in Int /\ n \in Nat /\ 1 \in Int /\ \A i \in 1..n : i \in 1..Len(p) /\ p[i] \in Units
    BY <1>2
  <2>2. SubSeq(p, 1, n) \in Seq(Units) /\ (Len(SubSeq(p, 1, n)) = IF 1 <= n THEN n - 1 + 1 ELSE 0)
        /\ \A i \in 1..n - 1 + 1 : SubSeq(p, 1, n)[i] = p[1 + i - 1]
    BY <2>1, SubSeqProperties
  <2>3. DOMAIN SubSeq(p, 1, n) = 1..n /\ \A i \in 1..n : SubSeq(p, 1, n)[i] = p[i]
    <3>1. Len(SubSeq(p, 1, n)) = n /\ n - 1 + 1 = n /\ \A i \in 1..n : 1 + i - 1 = i
      BY <2>1, <2>2
    <3> QED
      BY <2>2, <3>1, LenProperties
  <2> QED
    BY <1>4, <2>1, <2>2, <2>3 DEF FileOK
<1> QED
  BY <1>5, <1>6 DEF p

LEMMA FileWritten ==
  ASSUME CipherInv, NEW dst \in CipherFiles, NEW units, FileOK(units), cfiles' = [cfiles EXCEPT ![dst] = units]
  PROVE  cfiles' \in [CipherFiles -> Seq(Units)] /\ \A f \in CipherFiles : FileOK(cfiles'[f])
<1>1. units \in Seq(Units) /\ cfiles \in [CipherFiles -> Seq(Units)] /\ \A f \in CipherFiles : FileOK(cfiles[f])
  BY DEF FileOK, CipherInv
<1> QED
  BY <1>1

LEMMA EncryptFileKeeps ==
  ASSUME CipherInv, OpensWhatItMade, NEW src \in CipherFiles, NEW dst \in CipherFiles,
         NEW attach \in BOOLEAN, NEW full \in BOOLEAN, EncryptFile(src, dst, attach, full)
  PROVE  CipherInv' /\ OpensWhatItMade'
<1> DEFINE text  == IF src = dst THEN << >> ELSE [i \in DOMAIN cfiles[src] |-> cfiles[src][i].text]
           taken == IF crypto.mode = "CCM" /\ text # << >> THEN <<text[1]>> ELSE text
<1>1. text \in Seq(Texts)
  <2>1. cfiles[src] \in Seq(Units) /\ \A i \in DOMAIN cfiles[src] : cfiles[src][i].of = "text"
    BY DEF CipherInv, EncryptFile
  <2>2. DOMAIN cfiles[src] = 1..Len(cfiles[src]) /\ Len(cfiles[src]) \in Nat
    BY <2>1, LenProperties
  <2>3. \A i \in 1..Len(cfiles[src]) : cfiles[src][i].text \in Texts
    <3>1. ASSUME NEW i \in 1..Len(cfiles[src]) PROVE cfiles[src][i].text \in Texts
      <4>1. cfiles[src][i] \in Units /\ cfiles[src][i].of = "text"
        BY <2>1, <2>2, ElementOfSeq
      <4> QED
        BY <4>1 DEF Units, BoxPieces
    <3> QED
      BY <3>1
  <2>4. [i \in DOMAIN cfiles[src] |-> cfiles[src][i].text] \in [1..Len(cfiles[src]) -> Texts]
    BY <2>2, <2>3
  <2>5. << >> \in Seq(Texts)
    BY EmptySeq
  <2> QED
    BY <2>2, <2>4, <2>5, SeqDef
<1> HIDE DEF text
<1>2. taken \in Seq(Texts) /\ (crypto.mode = "CCM" => Len(taken) <= 1)
  <2>1. CASE crypto.mode = "CCM" /\ text # << >>
    <3>1. text[1] \in Texts
      BY <1>1, <2>1, EmptySeq, LenProperties, ElementOfSeq
    <3> QED
      BY <2>1, <3>1
  <2>2. CASE crypto.mode = "CCM" /\ text = << >>
    BY <1>1, <2>2, EmptySeq
  <2>3. CASE crypto.mode # "CCM"
    BY <1>1, <2>3
  <2> QED
    BY <2>1, <2>2, <2>3
<1>3. PICK c : c = [Began("enc") EXCEPT !.pieces = taken]
  OBVIOUS
<1>4. /\ \/ Sealed(c, Box(Settings, text))
         \/ UNCHANGED <<crypto, sealed>>
      /\ LET out == Pieces(Box(c.set, taken)) IN
         \/ full /\ \E n \in 0..(Len(out) - 1) : cfiles' = [cfiles EXCEPT ![dst] = SubSeq(out, 1, n)]
         \/ ~full /\ cfiles' = [cfiles EXCEPT ![dst] = out \o
                      (IF attach THEN SetToSeq({Tag(t) : t \in crypto'.tag}) ELSE << >>)]
      /\ ctx' = Idle /\ UNCHANGED <<boxes, begun, opened>>
  BY <1>3 DEF EncryptFile, text
<1> HIDE DEF taken
<1>5. ContextOK(c) /\ c.dir = "enc" /\ c.pieces = taken
  BY <1>2, <1>3, EncryptFeeds
<1>6. /\ BoxOK(Box(c.set, c.pieces))
      /\ crypto' \in [mode : Modes, key : Keys, iv : IVs, tag : Tags] /\ sealed' \in [known : BOOLEAN, tag : Tags]
  <2>1. Box(Settings, text) \in Boxes
    BY <1>1, SetsType DEF Box, Boxes
  <2> QED
    BY <1>4, <1>5, <2>1, SealedType DEF CipherInv
<1>7. cfiles' \in [CipherFiles -> Seq(Units)] /\ \A f \in CipherFiles : FileOK(cfiles'[f])
  <2> DEFINE out == Pieces(Box(c.set, c.pieces))
             tags == IF attach THEN SetToSeq({Tag(t) : t \in crypto'.tag}) ELSE << >>
  <2>1. tags \in Seq([of : {"tag"}, box : Boxes])
    <3>1. crypto'.tag \in Tags
      BY <1>6
    <3>2. << >> \in Seq([of : {"tag"}, box : Boxes])
      BY EmptySeq
    <3> QED
      BY <3>1, <3>2, TagsType
  <2>2. \/ \E n \in 0..(Len(out) - 1) : cfiles' = [cfiles EXCEPT ![dst] = SubSeq(out, 1, n)]
        \/ cfiles' = [cfiles EXCEPT ![dst] = out \o tags]
    BY <1>4, <1>5
  <2> HIDE DEF tags
  <2>3. FileOK(out \o tags) /\ \A n \in 0..(Len(out) - 1) : FileOK(SubSeq(out, 1, n))
    BY <1>6, <2>1, CipherFile
  <2> HIDE DEF out
  <2> QED
    BY <2>2, <2>3, FileWritten
<1>8. ContextOK(ctx') /\ boxes' = boxes
  BY <1>4, SetsType
<1> QED
  BY <1>4, <1>6, <1>7, <1>8 DEF CipherInv, OpensWhatItMade

LEMMA DecryptFileKeeps ==
  ASSUME CipherInv, OpensWhatItMade, NEW src \in CipherFiles, NEW dst \in CipherFiles,
         NEW full \in BOOLEAN, DecryptFile(src, dst, full)
  PROVE  CipherInv' /\ OpensWhatItMade'
<1> DEFINE p     == IF src = dst THEN << >> ELSE cfiles[src]
           goes  == p = << >> \/ Takes(Began("dec"), p)
           taken == IF goes THEN p ELSE IF Takes(Began("dec"), <<p[1]>>) THEN <<p[1]>> ELSE << >>
<1>1. PICK c : c = [Began("dec") EXCEPT !.pieces = p]
  OBVIOUS
<1> DEFINE plain == IF Fits(c.set, taken) THEN Plain(BoxOf(c.set, taken).data) ELSE <<[of |-> "garbage"]>>
<1>2. PICK out \in (IF goes THEN Outcome(c) ELSE {Failed}) \cup (IF full THEN {Failed} ELSE {}) :
        Opened([c EXCEPT !.pieces = cfiles[src]], out, full \/ src = dst)
  BY <1>1 DEF DecryptFile
<1>11. \E n \in 0..Len(plain) : cfiles' = [cfiles EXCEPT ![dst] = SubSeq(plain, 1, n)]
  BY <1>1 DEF DecryptFile
<1>3. CanDecrypt /\ ContextOK(ctx') /\ UNCHANGED <<crypto, boxes, begun, sealed>>
  BY SetsType DEF DecryptFile
<1>4. p \in Seq(Units) /\ FileOK(p)
  BY EmptySeq DEF CipherInv, FileOK
<1>5. c.set = Settings /\ c.tag = crypto.tag /\ c.pieces = p /\ c.dir = "dec" /\ DOMAIN c = {"dir", "set", "tag", "pieces"}
  <2>1. Began("dec") \in [dir : {"dec"}, set : Sets, tag : Tags, pieces : Seq(BoxPieces)]
        /\ Began("dec").set = Settings /\ Began("dec").tag = crypto.tag
    BY <1>3, SetsType DEF ContextOK, Began
  <2> HIDE DEF p
  <2> QED
    BY <1>1, <2>1
<1> HIDE DEF p
<1>6. Settings \in Sets /\ BoxOf(Settings, p) \in Boxes
  BY <1>4, SetsType, BoxOfType
<1>7. taken \in Seq(Units)
  <2>1. CASE goes
    BY <1>4, <2>1
  <2>2. CASE ~goes
    <3>1. p # << >>
      BY <2>2
    <3>2. p[1] \in Units
      BY <1>4, <3>1, EmptySeq, LenProperties, ElementOfSeq
    <3>3. <<p[1]>> \in Seq(Units) /\ << >> \in Seq(Units)
      BY <3>2, EmptySeq
    <3> HIDE DEF goes
    <3> QED
      BY <2>2, <3>3
  <2> QED
    BY <2>1, <2>2
<1> HIDE DEF taken
<1>8. cfiles' \in [CipherFiles -> Seq(Units)] /\ \A f \in CipherFiles : FileOK(cfiles'[f])
  <2>1. plain \in Seq(Units) /\ \A i \in 1..Len(plain) : plain[i].of # "box"
    <3>1. CASE Fits(c.set, taken)
      <4>1. BoxOf(c.set, taken) \in Boxes
        BY <1>5, <1>6, <1>7, BoxOfType
      <4>2. PICK t \in Seq(Texts) : t = BoxOf(c.set, taken).data
        BY <4>1 DEF Boxes
      <4>3. FileOK(Plain(t)) /\ plain = Plain(t)
        BY <3>1, <4>2, PlainFile
      <4>4. DOMAIN Plain(t) = DOMAIN t /\ \A i \in DOMAIN t : Plain(t)[i].of = "text"
        BY DEF Plain
      <4>5. Plain(t) \in Seq(Units) /\ DOMAIN Plain(t) = 1..Len(Plain(t))
        BY <4>3, LenProperties DEF FileOK
      <4> QED
        BY <4>3, <4>4, <4>5
    <3>2. CASE ~Fits(c.set, taken)
      <4>1. [of |-> "garbage"] \in Units /\ [of |-> "garbage"].of = "garbage"
        BY DEF Units
      <4>2. PICK u : u = [of |-> "garbage"]
        OBVIOUS
      <4>3. <<u>> \in Seq(Units) /\ Len(<<u>>) = 1 /\ <<u>>[1] = u
        BY <4>1, <4>2
      <4>4. plain = <<u>>
        BY <3>2, <4>2
      <4> HIDE DEF plain
      <4> QED
        BY <4>1, <4>2, <4>3, <4>4
    <3> QED
      BY <3>1, <3>2
  <2>2. PICK n \in 0..Len(plain) : cfiles' = [cfiles EXCEPT ![dst] = SubSeq(plain, 1, n)]
    BY <1>11
  <2> HIDE DEF plain
  <2>3. FileOK(SubSeq(plain, 1, n))
    <3>1. Len(plain) \in Nat /\ n \in Int /\ n \in Nat /\ 1 \in Int
      BY <2>1, LenProperties
    <3>2. \A i \in 1..n : i \in 1..Len(plain)
      BY <3>1
    <3>3. \A i \in 1..n : plain[i] \in Units /\ plain[i].of # "box"
      BY <2>1, <3>2, ElementOfSeq
    <3>4. SubSeq(plain, 1, n) \in Seq(Units) /\ (Len(SubSeq(plain, 1, n)) = IF 1 <= n THEN n - 1 + 1 ELSE 0)
          /\ \A i \in 1..n - 1 + 1 : SubSeq(plain, 1, n)[i] = plain[1 + i - 1]
      BY <3>1, <3>3, SubSeqProperties
    <3>5. DOMAIN SubSeq(plain, 1, n) = 1..n /\ \A i \in 1..n : SubSeq(plain, 1, n)[i] = plain[i]
      <4>1. Len(SubSeq(plain, 1, n)) = n /\ n - 1 + 1 = n /\ \A i \in 1..n : 1 + i - 1 = i
        BY <3>1, <3>4
      <4> QED
        BY <3>4, <4>1, LenProperties
    <3> QED
      BY <3>3, <3>4, <3>5 DEF FileOK
  <2> QED
    BY <2>2, <2>3, FileWritten
<1>9. CipherInv'
  BY <1>3, <1>8 DEF CipherInv
<1>10. OpensWhatItMade'
  <2>1. CASE full \/ src = dst
    <3>1. opened'.excused
      BY <1>2, <2>1 DEF Opened
    <3> QED
      BY <3>1 DEF OpensWhatItMade
  <2>2. CASE ~(full \/ src = dst)
    <3>1. p = cfiles[src]
      BY <2>2 DEF p
    <3>2. Opened(c, out, FALSE)
      BY <1>2, <1>5, <2>2, <3>1 DEF Opened
    <3>3. CASE p = << >>
      BY <1>5, <3>2, <3>3 DEF Opened, OpensWhatItMade
    <3>4. CASE p # << >> /\ Takes(Began("dec"), p)
      <4>1. Settings.mode = "CCM" => Fits(Settings, p) /\ crypto.tag = {BoxOf(Settings, p)}
        BY <3>4 DEF Takes, Began
      <4>2. out \in Outcome(c)
        BY <1>2, <2>2, <3>4
      <4> QED
        BY <1>5, <3>2, <4>1, <4>2, OutcomeOpens
    <3>5. CASE p # << >> /\ ~Takes(Began("dec"), p)
      <4>1. Opened(c, Failed, FALSE)
        BY <1>2, <3>2, <3>5
      <4>2. Settings.mode = "CCM"
        BY <3>5 DEF Takes, Began
      <4>3. ASSUME Fits(Settings, p) PROVE Len(p) = 1
        <5>1. p \in Seq(BoxPieces) /\ DOMAIN p = 1..Len(p) /\ Len(p) \in Nat
              /\ \A i \in DOMAIN p : p[i] \in BoxPieces /\ p[i].set = Settings
          BY <1>6, <4>3, FitsMeans, LenProperties
        <5>2. \A i \in 1..Len(p) : i = 1
          BY <1>4, <4>2, <5>1 DEF FileOK, BoxPieces
        <5>3. Len(p) # 0
          BY <3>5, <5>1, EmptySeq
        <5>4. Len(p) \in 1..Len(p)
          BY <5>1, <5>3
        <5> QED
          BY <5>2, <5>4
      <4>4. ~(Fits(Settings, p) /\ crypto.tag = {BoxOf(Settings, p)})
        BY <3>5, <4>3 DEF Takes, Began
      <4> QED
        BY <1>5, <4>1, <4>2, <4>4, FailureOpens DEF Tagged
    <3> QED
      BY <3>3, <3>4, <3>5
  <2> QED
    BY <2>1, <2>2
<1> QED
  BY <1>9, <1>10

(* Only an encryption that ends and a tag that is set change the tag. *)
LEMMA SealingKeeps ==
  ASSUME SealedInv, CipherInv, CipherStep
  PROVE  SealedInv'
<1> DEFINE Known == sealed.known => crypto.tag = sealed.tag
           Fed   == ctx.dir = "enc" => Box(ctx.set, ctx.pieces) = begun
<1>1. Idle.dir # "enc" /\ Began("dec").dir # "enc"
  BY DEF Idle, Began
<1>2. ASSUME UNCHANGED <<sealed, crypto>> PROVE Known'
  BY <1>2 DEF SealedInv
<1>3. ASSUME ctx' = Idle PROVE Fed'
  BY <1>1, <1>3
<1>4. ASSUME NEW c, NEW fedBox, Sealed(c, fedBox), Box(c.set, c.pieces) = fedBox PROVE Known'
  <2>1. crypto \in [mode : Modes, key : Keys, iv : IVs, tag : Tags]
    BY DEF CipherInv
  <2>2. crypto'.tag = TagAfter(c)
    BY <1>4, <2>1 DEF Sealed
  <2> QED
    BY <1>4, <2>2 DEF Sealed, TagAfter
<1>5. ASSUME EncryptBegin PROVE SealedInv'
  <2>1. ctx' = Began("enc") /\ begun' = Box(Settings, << >>) /\ UNCHANGED <<sealed, crypto>>
    BY <1>5 DEF EncryptBegin
  <2>2. Fed'
    BY <2>1 DEF Began, Box
  <2> QED
    BY <1>2, <2>1, <2>2 DEF SealedInv
<1>6. ASSUME NEW d \in Texts, EncryptAppend(d) PROVE SealedInv'
  <2>1. UNCHANGED <<sealed, crypto>> /\ ctx.dir = "enc"
    BY <1>6 DEF EncryptAppend
  <2>2. Box(ctx.set, ctx.pieces) = begun
    BY <2>1 DEF SealedInv
  <2>3. CASE ctx' = [ctx EXCEPT !.pieces = Append(@, d)] /\ begun' = [begun EXCEPT !.data = Append(@, d)]
    <3>1. ctx \in [dir : {"enc"}, set : Sets, tag : Tags, pieces : Seq(Texts)]
      BY <2>1 DEF CipherInv, ContextOK
    <3>2. ctx'.set = ctx.set /\ ctx'.pieces = Append(ctx.pieces, d)
      BY <2>3, <3>1
    <3>3. begun' = Box(ctx.set, Append(ctx.pieces, d))
      BY <2>2, <2>3 DEF Box
    <3>4. Fed'
      BY <3>2, <3>3 DEF Box
    <3> QED
      BY <1>2, <2>1, <3>4 DEF SealedInv
  <2> QED
    BY <1>2, <1>3, <1>6, <2>1, <2>3 DEF EncryptAppend, SealedInv
<1>7. ASSUME EncryptEnd PROVE SealedInv'
  <2>1. ctx.dir = "enc" /\ ctx' = Idle /\ (Sealed(ctx, begun) \/ UNCHANGED <<sealed, crypto>>)
    BY <1>7 DEF EncryptEnd
  <2>2. Box(ctx.set, ctx.pieces) = begun
    BY <2>1 DEF SealedInv
  <2>3. Known'
    BY <1>2, <1>4, <2>1, <2>2
  <2>4. Fed'
    BY <1>3, <2>1
  <2> QED
    BY <2>3, <2>4 DEF SealedInv
<1>8. ASSUME NEW d \in Texts, Encrypt(d) PROVE SealedInv'
  <2>1. PICK c : c = [Began("enc") EXCEPT !.pieces = <<d>>]
    OBVIOUS
  <2>2. Sealed(c, Box(Settings, <<d>>)) /\ ctx' = Idle
    BY <1>8, <2>1 DEF Encrypt
  <2>3. c.set = Settings /\ c.pieces = <<d>>
    BY <2>1 DEF Began
  <2>4. Known'
    BY <1>4, <2>2, <2>3
  <2> QED
    BY <1>3, <2>2, <2>4 DEF SealedInv
<1>9. ASSUME NEW src \in CipherFiles, NEW dst \in CipherFiles, NEW attach \in BOOLEAN, NEW full \in BOOLEAN,
             EncryptFile(src, dst, attach, full)
      PROVE  SealedInv'
  <2> DEFINE text  == IF src = dst THEN << >> ELSE [i \in DOMAIN cfiles[src] |-> cfiles[src][i].text]
             taken == IF crypto.mode = "CCM" /\ text # << >> THEN <<text[1]>> ELSE text
  <2> HIDE DEF text
  <2>1. PICK c : c = [Began("enc") EXCEPT !.pieces = taken]
    OBVIOUS
  <2>2. ctx' = Idle /\ ((taken = text /\ Sealed(c, Box(Settings, text))) \/ UNCHANGED <<sealed, crypto>>)
    BY <1>9, <2>1 DEF EncryptFile, text
  <2> HIDE DEF taken
  <2>3. c.set = Settings /\ c.pieces = taken
    BY <2>1 DEF Began
  <2>4. Known'
    BY <1>2, <1>4, <2>2, <2>3
  <2> QED
    BY <1>3, <2>2, <2>4 DEF SealedInv
<1>10. ASSUME (\E m \in Modes : SetMode(m)) \/ (\E k \in Keys : SetKey(k)) \/ (\E v \in IVs : SetIV(v))
       PROVE  SealedInv'
  <2>1. crypto \in [mode : Modes, key : Keys, iv : IVs, tag : Tags]
    BY DEF CipherInv
  <2>2. crypto'.tag = crypto.tag /\ UNCHANGED <<ctx, begun, sealed>>
    BY <1>10, <2>1 DEF SetMode, SetKey, SetIV
  <2> QED
    BY <2>2 DEF SealedInv
<1>11. ASSUME \E b \in boxes : SetTag(b) PROVE SealedInv'
  <2>1. sealed' = [known |-> FALSE, tag |-> {}] /\ UNCHANGED <<ctx, begun>>
    BY <1>11 DEF SetTag
  <2> QED
    BY <2>1 DEF SealedInv
<1>12. ASSUME DecryptBegin PROVE SealedInv'
  BY <1>1, <1>2, <1>12 DEF DecryptBegin, SealedInv
<1>13. ASSUME DecryptEnd \/ (\E b \in boxes : Decrypt(b)) PROVE SealedInv'
  BY <1>2, <1>3, <1>13 DEF DecryptEnd, Decrypt, SealedInv
<1>14. ASSUME NEW b \in boxes, NEW i \in DOMAIN Pieces(b), DecryptAppend(Pieces(b)[i]) PROVE SealedInv'
  <2>1. PICK p : p = Pieces(b)[i]
    OBVIOUS
  <2>2. ctx.dir = "dec" /\ UNCHANGED <<sealed, crypto>>
        /\ (ctx' = Idle \/ ctx' = [ctx EXCEPT !.pieces = Append(@, p)])
    BY <1>14, <2>1 DEF DecryptAppend
  <2>3. ctx \in [dir : {"dec"}, set : Sets, tag : Tags, pieces : Seq(BoxPieces)]
    BY <2>2 DEF CipherInv, ContextOK
  <2>4. ctx'.dir # "enc"
    BY <1>1, <2>2, <2>3
  <2> QED
    BY <1>2, <2>2, <2>4 DEF SealedInv
<1>15. ASSUME NEW src \in CipherFiles, NEW dst \in CipherFiles, NEW full \in BOOLEAN, DecryptFile(src, dst, full)
       PROVE  SealedInv'
  <2>1. ctx' = Idle /\ UNCHANGED <<sealed, crypto>>
    BY <1>15 DEF DecryptFile
  <2> QED
    BY <1>2, <1>3, <2>1 DEF SealedInv
<1> QED
  BY <1>5, <1>6, <1>7, <1>8, <1>9, <1>10, <1>11, <1>12, <1>13, <1>14, <1>15 DEF CipherStep

LEMMA CipherStarts == CipherInit => CipherInv /\ OpensWhatItMade
<1> SUFFICES ASSUME CipherInit PROVE CipherInv /\ OpensWhatItMade
  OBVIOUS
<1>1. {} \in Tags /\ << >> \in Seq(BoxPieces)
  BY EmptySeq DEF Tags
<1>2. PICK m \in Modes, k \in Keys, v \in IVs : crypto = [mode |-> m, key |-> k, iv |-> v, tag |-> {}]
  BY DEF CipherInit
<1>3. crypto \in [mode : Modes, key : Keys, iv : IVs, tag : Tags]
  BY <1>1, <1>2
<1>4. FirstSettings \in Sets
  BY <1>2 DEF FirstSettings, Sets
<1>5. ContextOK(Idle)
  BY <1>1, <1>4 DEF Idle, ContextOK
<1>6. cfiles \in [CipherFiles -> Seq(Units)] /\ \A f \in CipherFiles : FileOK(cfiles[f])
  <2>1. \A t \in FirstTexts : FileOK(Plain(t)) /\ Plain(t) \in Seq(Units)
    BY CipherAssumption, PlainFile DEF FileOK
  <2> QED
    BY <2>1 DEF CipherInit
<1>7. begun \in Boxes /\ sealed \in [known : BOOLEAN, tag : Tags]
  BY <1>1, <1>4, EmptySeq DEF CipherInit, Box, Boxes
<1>8. OpensWhatItMade
  BY DEF CipherInit, OpensWhatItMade
<1> QED
  BY <1>3, <1>5, <1>6, <1>7, <1>8 DEF CipherInit, CipherInv

LEMMA CipherTypes == CipherInv => CipherTypeOK
<1> SUFFICES ASSUME CipherInv PROVE CipherTypeOK
  OBVIOUS
<1>1. crypto \in [mode : Modes, key : Keys, iv : IVs, tag : Tags] /\ Settings \in Sets
  BY SetsType DEF CipherInv
<1>2. \A T \in Tags : T \subseteq Boxes
  BY DEF Tags
<1>3. \A b \in boxes : b \in Boxes
  BY DEF CipherInv, BoxOK
<1>4. /\ ctx.dir \in {"none", "enc", "dec"} /\ ctx.set \in Sets /\ ctx.tag \in Tags
      /\ ctx.dir = "dec" /\ Tagged(ctx.set.mode) => ctx.tag # {}
      /\ ctx.pieces \in (IF ctx.dir = "enc" THEN Seq(Texts) ELSE Seq(BoxPieces))
  BY DEF CipherInv, ContextOK
<1>5. ASSUME NEW f \in CipherFiles, NEW i \in DOMAIN cfiles[f]
      PROVE  cfiles[f][i].of \in {"text", "box", "tag", "garbage"}
  <2>1. cfiles[f] \in Seq(Units)
    BY DEF CipherInv
  <2>2. cfiles[f][i] \in Units
    BY <2>1, LenProperties, ElementOfSeq
  <2> QED
    BY <2>2 DEF Units, BoxPieces
<1>6. begun \in Boxes /\ sealed.known \in BOOLEAN /\ sealed.tag \in Tags
  BY DEF CipherInv
<1> QED
  BY <1>1, <1>2, <1>3, <1>4, <1>5, <1>6 DEF CipherTypeOK, Sets, Boxes, BoxPieces

LEMMA CipherStepKeeps ==
  ASSUME CipherInv, OpensWhatItMade, CipherStep
  PROVE  CipherInv' /\ OpensWhatItMade'
  BY SettersKeep, EncryptingKeeps, DecryptingKeeps, EncryptFileKeeps, DecryptFileKeeps DEF CipherStep

-----------------------------------------------------------------------------
(* Both kinds of objects. *)

IInv ==
  /\ DigestInv /\ SealedInv /\ CipherInv /\ OpensWhatItMade
  /\ use \in {"digest", "cipher"} /\ steps \in Nat

LEMMA InitHolds == Init => IInv
<1>1. Init => DigestInit /\ CipherInit /\ use \in {"digest", "cipher"} /\ steps = 0
  BY DEF Init
<1>2. CipherInit => SealedInv
  BY DEF CipherInit, SealedInv, Idle
<1> QED
  BY <1>1, <1>2, DigestStarts, CipherStarts DEF IInv

LEMMA StepKeeps == IInv /\ [Next]_vars => IInv'
<1> SUFFICES ASSUME IInv, [Next]_vars PROVE IInv'
  OBVIOUS
<1>1. UNCHANGED digestVars => DigestInv'
  BY DEF digestVars, IInv, DigestInv, DigestTypeOK, AsFed, Digest
<1>2. UNCHANGED cipherVars => SealedInv' /\ CipherInv' /\ OpensWhatItMade'
  BY DEF cipherVars, IInv, SealedInv, CipherInv, OpensWhatItMade
<1>3. CASE DigestStep /\ UNCHANGED <<cipherVars, use>> /\ steps' = steps + 1
  <2>1. DigestInv'
    BY <1>3, AppendKeeps, FinishKeeps, SettingsKeep DEF DigestStep, IInv
  <2> QED
    BY <1>2, <1>3, <2>1 DEF IInv
<1>4. CASE CipherStep /\ UNCHANGED <<digestVars, use>> /\ steps' = steps + 1
  <2>1. SealedInv' /\ CipherInv' /\ OpensWhatItMade'
    BY <1>4, SealingKeeps, CipherStepKeeps DEF IInv
  <2> QED
    BY <1>1, <1>4, <2>1 DEF IInv
<1>5. CASE UNCHANGED vars
  BY <1>1, <1>2, <1>5 DEF vars, IInv
<1> QED
  BY <1>3, <1>4, <1>5 DEF Next

(* Every reachable state of the digest and cipher objects is well typed, and a
   decryption under way that checks a tag has one. *)
THEOREM TypeCorrect == Spec => []TypeOK
<1>1. IInv => TypeOK
  BY CipherTypes DEF IInv, DigestInv, TypeOK
<1> QED
  BY <1>1, InitHolds, StepKeeps, PTL DEF Spec

(* A digest is that of exactly what was fed since the first piece of its message,
   and after an encryption whose end went well the tag stays that of exactly what
   was fed since its begin, under the settings of then, or the one from before
   if the mode of the end has no tags (comex_openssl.cpp:65-96, 155-219, 385-453,
   517-619): for any number of calls. *)
THEOREM SumCorrect == Spec => []SumIsOfItsMessage
<1>1. IInv => SumIsOfItsMessage
  BY DEF IInv, DigestInv, SealedInv, SumIsOfItsMessage
<1> QED
  BY <1>1, InitHolds, StepKeeps, PTL DEF Spec

(* What decrypts with the settings and the tag it was made with comes back as it
   was, in memory and from file to file; with another tag or in another state
   CCM and GCM fail (comex_openssl.cpp:365-383, 455-515, 621-703): for every set
   of modes, keys, vectors, texts and files, and any number of calls. *)
THEOREM OpensCorrect == Spec => []OpensWhatItMade
<1>1. IInv => OpensWhatItMade
  BY DEF IInv
<1> QED
  BY <1>1, InitHolds, StepKeeps, PTL DEF Spec
=============================================================================

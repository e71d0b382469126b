---------------------------- MODULE OpensslCipher ----------------------------
(***************************************************************************)
(* OpensslCrypto with its AES, DES, 2DES, 3DES and SM4 classes              *)
(* (comex_openssl.cpp:243-1062): one object whose one context encrypts and  *)
(* decrypts, whole or in pieces, in memory or from file to file, and whose  *)
(* settings may change at any time.                                         *)
(*                                                                          *)
(* A ciphertext is a box: the settings it was made under and its data; its  *)
(* tag is the box again, for a tag belongs to nothing else.  What is fed to *)
(* a decryption are pieces, the i-th piece of a box.  OpenSSL is external:  *)
(* CCM takes one piece and checks the tag with it, GCM checks it at the     *)
(* end, the padded modes may notice at the end what is not theirs, and the  *)
(* others never do.  An initialisation vector that fits is set.  The caller *)
(* stops at the first call of an operation that fails.                      *)
(***************************************************************************)
EXTENDS Naturals, SequencesExt

CONSTANTS Class,    \* which of the classes the object is
          Modes,    \* modes that are set
          Keys,     \* keys that are set: records with id and size
          IVs,      \* vectors that are set
          Texts,    \* pieces of plain text
          MaxPieces,\* bound on the pieces of a text
          FirstTexts, \* what a file is at first
          CipherFiles \* names of files

ASSUME CipherAssumption ==
  /\ Class \in {"AES", "DES", "2DES", "3DES", "SM4"}
  /\ \A k \in Keys : k.size \in Nat
  /\ MaxPieces \in Nat /\ << >> \in FirstTexts /\ FirstTexts \subseteq Seq(Texts)

VARIABLES crypto, \* the settings: mode, key, iv, tag
          ctx,    \* the context: direction, settings at the begin, tag, pieces
          boxes,  \* the ciphertexts made in memory
          cfiles, \* the files
          begun,  \* history: the settings at the last encryptBegin, and what was fed since
          sealed, \* history: the tag that the last encryption that ended well leaves
          opened  \* history: the last decryption, what was asked and what came out

cipherVars == <<crypto, ctx, boxes, cfiles, begun, sealed, opened>>

(* getCipher: the modes of each class, with the sizes of key that each takes. *)
AesCiphers ==
  ({"ECB", "CBC", "CFB8", "CFB128", "OFB", "CTR", "CCM", "GCM"} \X {16, 24, 32})
    \cup ({"CFB1"} \X {16, 24}) \cup ({"XTS"} \X {32, 64})
DesCiphers  == {"ECB", "CBC", "CFB1", "CFB8", "CFB64"} \X {8}
Des2Ciphers == {"EDE-ECB", "EDE-CBC", "EDE-CFB64", "EDE-OFB"} \X {16}
Des3Ciphers == {"EDE-ECB", "EDE-CBC", "EDE-CFB1", "EDE-CFB8", "EDE-CFB64", "EDE-OFB"} \X {24}
Sm4Ciphers  == {"ECB", "CBC"} \X {16}

HasCipher ==
  <<crypto.mode, crypto.key.size>> \in (CASE Class = "AES"  -> AesCiphers
                                          [] Class = "DES"  -> DesCiphers
                                          [] Class = "2DES" -> Des2Ciphers
                                          [] Class = "3DES" -> Des3Ciphers
                                          [] Class = "SM4"  -> Sm4Ciphers)

Tagged(mode) == mode \in {"CCM", "GCM"}
Padded(mode) == mode \in {"ECB", "CBC", "EDE-ECB", "EDE-CBC"}

Settings     == [mode |-> crypto.mode, key |-> crypto.key, iv |-> crypto.iv]
Box(s, data) == [set |-> s, data |-> data]
(* A piece of ciphertext depends on the text up to it; the padded modes mark
   the end, also that of an empty text. *)
Pieces(b) == LET padded == Padded(b.set.mode)
                 n == IF padded /\ b.data = << >> THEN 1 ELSE Len(b.data)
             IN [i \in 1..n |-> [of |-> "box", set |-> b.set, upto |-> IF b.data = << >> THEN << >> ELSE SubSeq(b.data, 1, i),
                                 end |-> padded /\ i = n]]
Plain(data) == [i \in DOMAIN data |-> [of |-> "text", text |-> data[i]]]
Tag(b)      == [of |-> "tag", box |-> b]

(* The box under s that the pieces are, if they are one. *)
BoxOf(s, pieces) == Box(s, IF pieces = << >> \/ pieces[Len(pieces)].of # "box" THEN << >>
                           ELSE pieces[Len(pieces)].upto)
Fits(s, pieces)  == pieces = Pieces(BoxOf(s, pieces))

Failed  == <<"failed">>
Garbage == <<"anything">>

Began(dir) == [dir |-> dir, set |-> Settings, tag |-> IF dir = "dec" THEN crypto.tag ELSE {}, pieces |-> << >>]
FirstSettings == [mode |-> CHOOSE m \in Modes : TRUE, key |-> CHOOSE k \in Keys : TRUE,
                  iv |-> CHOOSE v \in IVs : TRUE]
Idle       == [dir |-> "none", set |-> FirstSettings, tag |-> {}, pieces |-> << >>]

CipherInit ==
  /\ \E m \in Modes, k \in Keys, v \in IVs : crypto = [mode |-> m, key |-> k, iv |-> v, tag |-> {}]
  /\ ctx = Idle
  /\ boxes = {}
  /\ cfiles \in [CipherFiles -> {Plain(t) : t \in FirstTexts}]
  /\ \E f \in CipherFiles : \A g \in CipherFiles : cfiles[g] = << >> \/ g = f
  /\ begun = Box(FirstSettings, << >>)
  /\ sealed = [known |-> FALSE, tag |-> {}]
  /\ opened = [set |-> FirstSettings, tag |-> {}, pieces |-> << >>, out |-> Failed, excused |-> TRUE]

(* setMode, setKey, setIV, setTag: a key or a vector replaces the last one, a
   tag that is set the one of the last encryption. *)
SetMode(m) == crypto' = [crypto EXCEPT !.mode = m] /\ UNCHANGED <<ctx, boxes, cfiles, begun, sealed, opened>>
SetKey(k)  == crypto' = [crypto EXCEPT !.key = k] /\ UNCHANGED <<ctx, boxes, cfiles, begun, sealed, opened>>
SetIV(v)   == crypto' = [crypto EXCEPT !.iv = v] /\ UNCHANGED <<ctx, boxes, cfiles, begun, sealed, opened>>
SetTag(b)  ==
  /\ crypto' = [crypto EXCEPT !.tag = {b}] /\ sealed' = [known |-> FALSE, tag |-> {}]
  /\ UNCHANGED <<ctx, boxes, cfiles, begun, opened>>

-----------------------------------------------------------------------------
(* Encryption.  encryptEnd goes by the mode that is set now: it asks for a tag,
   which only a tagged context gives, CCM only after a piece; in another mode
   it leaves the last tag. *)
HasTag(c)  == Tagged(c.set.mode) /\ (c.set.mode = "CCM" => c.pieces # << >>)
EndsWell(c) == Tagged(crypto.mode) => HasTag(c)
(* Mutated form: only CCM is asked for its tag. *)
TagOfCcm(c) == IF crypto.mode = "CCM" THEN {Box(c.set, c.pieces)} ELSE crypto.tag
TagAfter(c) == IF Tagged(crypto.mode) THEN {Box(c.set, c.pieces)} ELSE crypto.tag

(* The end of an encryption of what the caller has fed. *)
Sealed(c, fedBox) ==
  /\ EndsWell(c)
  /\ crypto' = [crypto EXCEPT !.tag = TagAfter(c)]
  /\ sealed' = [known |-> TRUE, tag |-> IF Tagged(crypto.mode) THEN {fedBox} ELSE crypto.tag]

EncryptBegin ==
  /\ HasCipher
  /\ ctx' = Began("enc") /\ begun' = Box(Settings, << >>)
  /\ UNCHANGED <<crypto, boxes, cfiles, sealed, opened>>

EncryptAppend(d) ==
  /\ ctx.dir = "enc" /\ Len(ctx.pieces) < MaxPieces
  /\ \/ ctx.set.mode = "CCM" /\ ctx.pieces # << >>
        /\ ctx' = Idle /\ UNCHANGED begun
     \/ ~(ctx.set.mode = "CCM" /\ ctx.pieces # << >>)
        /\ ctx' = [ctx EXCEPT !.pieces = Append(@, d)]
        /\ begun' = [begun EXCEPT !.data = Append(@, d)]
  /\ UNCHANGED <<crypto, boxes, cfiles, sealed, opened>>

EncryptEnd ==
  /\ ctx.dir = "enc" /\ ctx' = Idle
  /\ \/ Sealed(ctx, begun) /\ boxes' = boxes \cup {Box(ctx.set, ctx.pieces)}
     \/ ~EndsWell(ctx) /\ UNCHANGED <<crypto, boxes, sealed>>
  /\ UNCHANGED <<cfiles, begun, opened>>

(* encrypt: begin, one append, end. *)
Encrypt(d) ==
  LET c == [Began("enc") EXCEPT !.pieces = <<d>>] IN
  /\ HasCipher /\ Sealed(c, Box(Settings, <<d>>))
  /\ ctx' = Idle
  /\ boxes' = boxes \cup {Box(c.set, c.pieces)}
  /\ UNCHANGED <<cfiles, begun, opened>>

(* encryptFile of a plain file, a piece at a time: CCM fails at the second
   one, the disk may be full after any, and for the tag too.  The end comes only
   if all went well before, and sets the tag also when what is written after it
   finds the disk full or when only the flush would have told; the tag that is
   set then is attached in any case.  The target is emptied before the source
   is read, which loses a source of the same name. *)
EncryptFile(src, dst, attach, full) ==
  LET text  == IF src = dst THEN << >> ELSE [i \in DOMAIN cfiles[src] |-> cfiles[src][i].text]
      taken == IF crypto.mode = "CCM" /\ text # << >> THEN <<text[1]>> ELSE text
      c     == [Began("enc") EXCEPT !.pieces = taken]
  IN /\ HasCipher /\ \A i \in DOMAIN cfiles[src] : cfiles[src][i].of = "text"
     /\ ctx' = Idle
     /\ \/ taken = text /\ Sealed(c, Box(Settings, text))
        \/ (full \/ taken # text \/ ~EndsWell(c)) /\ UNCHANGED <<crypto, sealed>>
     /\ LET out == Pieces(Box(c.set, taken)) IN
        \/ full /\ \E n \in 0..(Len(out) - 1) : cfiles' = [cfiles EXCEPT ![dst] = SubSeq(out, 1, n)]
        \/ ~full /\ cfiles' = [cfiles EXCEPT ![dst] = out \o
                      (IF attach THEN SetToSeq({Tag(t) : t \in crypto'.tag}) ELSE << >>)]
     /\ UNCHANGED <<boxes, begun, opened>>

-----------------------------------------------------------------------------
(* Decryption.  decryptBegin initialises the context anew, and fails without a
   tag in a tagged mode. *)
(* Mutated form: the result of setting the tag is ignored. *)
CanDecryptAnyway == HasCipher
CanDecrypt == HasCipher /\ (Tagged(crypto.mode) => crypto.tag # {})

(* CCM takes one piece, whole, and checks its tag. *)
Takes(c, new) ==
  c.set.mode = "CCM" => /\ c.pieces = << >> /\ Len(new) = 1
                        /\ Fits(c.set, new) /\ c.tag = {BoxOf(c.set, new)}

(* decryptEnd: what can come out of all that was fed. *)
(* Mutated form: the result of EVP_DecryptFinal_ex is ignored. *)
OutcomeAnyway(c) == {IF Fits(c.set, c.pieces) THEN BoxOf(c.set, c.pieces).data ELSE Garbage}
Outcome(c) ==
  LET b == BoxOf(c.set, c.pieces) IN
  IF c.set.mode = "GCM" THEN {IF Fits(c.set, c.pieces) /\ c.tag = {b} THEN b.data ELSE Failed}
  ELSE IF Fits(c.set, c.pieces) THEN {b.data}
  ELSE IF Padded(c.set.mode) THEN {Failed, Garbage} ELSE {Garbage}

Opened(c, out, excused) ==
  opened' = [set |-> c.set, tag |-> c.tag, pieces |-> c.pieces, out |-> out, excused |-> excused]

DecryptBegin ==
  /\ HasCipher
  /\ ctx' = IF CanDecrypt THEN Began("dec") ELSE Idle
  /\ UNCHANGED <<crypto, boxes, cfiles, begun, sealed, opened>>

DecryptAppend(p) ==
  /\ ctx.dir = "dec" /\ Len(ctx.pieces) < MaxPieces
  /\ ctx' = IF Takes(ctx, <<p>>) THEN [ctx EXCEPT !.pieces = Append(@, p)] ELSE Idle
  /\ UNCHANGED <<crypto, boxes, cfiles, begun, sealed, opened>>

DecryptEnd ==
  /\ ctx.dir = "dec" /\ ctx' = Idle
  /\ \E out \in Outcome(ctx) : Opened(ctx, out, FALSE)
  /\ UNCHANGED <<crypto, boxes, cfiles, begun, sealed>>

(* decrypt: begin, one append of all, end. *)
Decrypt(b) ==
  LET c == [Began("dec") EXCEPT !.pieces = Pieces(b)] IN
  /\ CanDecrypt /\ Pieces(b) # << >>
  /\ ctx' = Idle
  /\ \E out \in (IF Takes(Began("dec"), Pieces(b)) THEN Outcome(c) ELSE {Failed}) : Opened(c, out, FALSE)
  /\ UNCHANGED <<crypto, boxes, cfiles, begun, sealed>>

(* decryptFile, a piece at a time: what was decrypted before a failure stays in
   the target, of which a full disk may leave any beginning, told or not.  A tag
   attached to the source is fed like the rest, and the target is emptied first
   here too. *)
DecryptFile(src, dst, full) ==
  LET p     == IF src = dst THEN << >> ELSE cfiles[src]
      goes  == p = << >> \/ Takes(Began("dec"), p)
      taken == IF goes THEN p ELSE IF Takes(Began("dec"), <<p[1]>>) THEN <<p[1]>> ELSE << >>
      c     == [Began("dec") EXCEPT !.pieces = p]
      plain == IF Fits(c.set, taken) THEN Plain(BoxOf(c.set, taken).data) ELSE <<[of |-> "garbage"]>>
  IN /\ CanDecrypt
     /\ ctx' = Idle
     /\ \E out \in (IF goes THEN Outcome(c) ELSE {Failed}) \cup (IF full THEN {Failed} ELSE {}) :
          Opened([c EXCEPT !.pieces = cfiles[src]], out, full \/ src = dst)
     /\ \E n \in 0..Len(plain) :
          (full \/ n = Len(plain)) /\ cfiles' = [cfiles EXCEPT ![dst] = SubSeq(plain, 1, n)]
     /\ UNCHANGED <<crypto, boxes, begun, sealed>>

CipherStep ==
  \/ \E m \in Modes : SetMode(m)
  \/ \E k \in Keys : SetKey(k)
  \/ \E v \in IVs : SetIV(v)
  \/ \E b \in boxes : SetTag(b)
  \/ EncryptBegin \/ EncryptEnd \/ DecryptBegin \/ DecryptEnd
  \/ \E d \in Texts : EncryptAppend(d) \/ Encrypt(d)
  \/ \E b \in boxes : Decrypt(b) \/ \E i \in DOMAIN Pieces(b) : DecryptAppend(Pieces(b)[i])
  \/ \E src, dst \in CipherFiles, full, attach \in BOOLEAN :
        EncryptFile(src, dst, attach, full) \/ DecryptFile(src, dst, full)

CipherTypeOK ==
  LET Sets  == [mode : Modes, key : Keys, iv : IVs]
      Boxes == [set : Sets, data : Seq(Texts)]
  IN
  /\ Settings \in Sets /\ crypto.tag \subseteq Boxes /\ boxes \subseteq Boxes
  /\ ctx.dir \in {"none", "enc", "dec"} /\ ctx.set \in Sets /\ ctx.tag \subseteq Boxes
  /\ ctx.dir = "dec" /\ Tagged(ctx.set.mode) => ctx.tag # {}
  /\ ctx.pieces \in (IF ctx.dir = "enc" THEN Seq(Texts)
                      ELSE Seq([of : {"box"}, set : Sets, upto : Seq(Texts), end : BOOLEAN]))
  /\ \A f \in CipherFiles, i \in 1..(MaxPieces + 1) :
       i \in DOMAIN cfiles[f] => cfiles[f][i].of \in {"text", "box", "tag", "garbage"}
  /\ begun \in Boxes /\ sealed.known \in BOOLEAN /\ sealed.tag \subseteq Boxes
=============================================================================

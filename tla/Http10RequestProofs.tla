------------------------- MODULE Http10RequestProofs -------------------------
(***************************************************************************)
(* What decodeHttp10Request answers does not change when more octets       *)
(* arrive: once it has said "request" or thrown, it says the same of every *)
(* longer buffer.  The argument follows the scan: a longer buffer has the  *)
(* same line ends up to the end of the shorter one, hence the same head    *)
(* once the blank line is there, hence the same body once it has arrived.  *)
(*                                                                         *)
(* What a decoded request says of the octets: its request line has two     *)
(* spaces in the first line, it took eight octets at least, its header     *)
(* values stand in the octets, and its body is the declared one.  Headers  *)
(* and lengths are folds in the codec, so that these go by induction over  *)
(* the sets of lines, or of digits, that were folded.                      *)
(*                                                                         *)
(* What encode writes: a request that reads as written encodes to a text   *)
(* that decodes to it, and a decoded request is such a request unless it   *)
(* has a header without a name.                                            *)
(***************************************************************************)
EXTENDS Http10Request, NaturalsLemmas, SequenceTheorems, FiniteSetTheorems,
        TLAPS

-----------------------------------------------------------------------------
(* Prefixes.                                                               *)

(* s has arrived of t.                                                     *)
Arrived(s, t) ==
  /\ s \in String /\ t \in String
  /\ Len(s) <= Len(t)
  /\ \A i \in 1..Len(s) : s[i] = t[i]

(* The line ends of a buffer are those of a longer one that lie within it. *)
LEMMA CRLFsOfPrefix ==
  ASSUME NEW s, NEW t, Arrived(s, t)
  PROVE  \A p : p \in CRLFs(s) <=> p \in CRLFs(t) /\ p + 1 <= Len(s)
<1>1. Len(s) \in Nat /\ Len(t) \in Nat
  BY DEF Arrived, String
<1> QED
  BY <1>1 DEF Arrived, CRLFs

(* Line ends are positions.                                                *)
LEMMA CRLFsType ==
  ASSUME NEW s \in String
  PROVE  \A p \in CRLFs(s) : p \in Nat /\ 1 <= p /\ p + 1 <= Len(s)
<1>1. Len(s) \in Nat
  BY DEF String
<1> QED
  BY <1>1 DEF CRLFs

(* Whether a line ends the head depends only on what precedes it.          *)
LEMMA HeadEndsOfPrefix ==
  ASSUME NEW s, NEW t, Arrived(s, t)
  PROVE  /\ \A p \in CRLFs(s) : IsBlankLine(s, p) <=> IsBlankLine(t, p)
         /\ \A p : p \in HeadEnds(s) <=> p \in HeadEnds(t) /\ p + 1 <= Len(s)
<1>1. s \in String /\ t \in String /\ Len(s) \in Nat
  BY DEF Arrived, String
<1>2. \A p : p \in CRLFs(s) <=> p \in CRLFs(t) /\ p + 1 <= Len(s)
  BY CRLFsOfPrefix
<1>3. \A p \in CRLFs(t) : p \in Nat /\ 1 <= p /\ p + 1 <= Len(t)
  BY <1>1, CRLFsType
<1>4. \A p \in CRLFs(s) : IsBlankLine(s, p) <=> IsBlankLine(t, p)
  BY <1>1, <1>2, <1>3 DEF IsBlankLine
<1>5. ASSUME NEW p, p \in HeadEnds(s)
      PROVE  p \in HeadEnds(t) /\ p + 1 <= Len(s)
  <2>1. p \in CRLFs(s) /\ \A q \in CRLFs(s) : q < p => ~IsBlankLine(s, q)
    BY <1>5 DEF HeadEnds
  <2>2. ASSUME NEW q \in CRLFs(t), q < p
        PROVE  ~IsBlankLine(t, q)
    <3>1. q \in CRLFs(s)
      BY <1>1, <1>2, <1>3, <2>1, <2>2
    <3> QED
      BY <1>4, <2>1, <2>2, <3>1
  <2> QED
    BY <1>2, <2>1, <2>2 DEF HeadEnds
<1>6. ASSUME NEW p, p \in HeadEnds(t), p + 1 <= Len(s)
      PROVE  p \in HeadEnds(s)
  BY <1>2, <1>4, <1>6 DEF HeadEnds
<1> QED
  BY <1>4, <1>5, <1>6

(* A line that has arrived keeps its beginning and its text.               *)
LEMMA LineOfPrefix ==
  ASSUME NEW s, NEW t, Arrived(s, t), NEW p \in CRLFs(s)
  PROVE  LineAt(s, p) = LineAt(t, p)
<1> DEFINE Starts(u) == {1} \cup {q + 2 : q \in {r \in CRLFs(u) : r < p}}
<1>1. s \in String /\ t \in String /\ Len(s) \in Nat /\ Len(t) \in Nat
  BY DEF Arrived, String
<1>2. \A q : q \in CRLFs(s) <=> q \in CRLFs(t) /\ q + 1 <= Len(s)
  BY CRLFsOfPrefix
<1>3. /\ p \in Nat /\ 1 <= p /\ p + 1 <= Len(s)
      /\ \A q \in CRLFs(t) : q \in Nat /\ 1 <= q
  BY <1>1, CRLFsType
<1>4. {r \in CRLFs(s) : r < p} = {r \in CRLFs(t) : r < p}
  <2>1. \A q \in CRLFs(t) : q < p => q + 1 <= Len(s)
    BY <1>1, <1>3
  <2> QED
    BY <1>2, <2>1, Zenon
<1>5. Starts(s) \in SUBSET (0..Len(s) + 1)
  BY <1>1, <1>3, <1>4
<1>6. Max(Starts(s)) \in Starts(s)
  <2>1. Len(s) + 1 \in Nat /\ Starts(s) # {}
    BY <1>1
  <2> HIDE DEF Starts
  <2> QED
    BY <1>5, <2>1, MaxOfNats
<1>7. LineStart(s, p) = LineStart(t, p)
  BY <1>4 DEF LineStart
<1>8. LineStart(s, p) \in Nat /\ 1 <= LineStart(s, p)
  BY <1>1, <1>3, <1>4, <1>6 DEF LineStart
<1> DEFINE a == LineStart(s, p)
<1>9. SubSeq(s, a, p - 1) = SubSeq(t, a, p - 1)
  <2>1. \A i \in a..(p - 1) : s[i] \in Octet /\ t[i] \in Octet /\ s[i] = t[i]
    BY <1>1, <1>3, <1>8 DEF Arrived, String
  <2>2. a \in Int /\ p - 1 \in Int
    BY <1>3, <1>8
  <2> HIDE DEF a
  <2>3. /\ SubSeq(s, a, p - 1) \in Seq(Octet)
        /\ Len(SubSeq(s, a, p - 1)) = IF a <= p - 1 THEN p - 1 - a + 1 ELSE 0
        /\ \A i \in 1..(p - 1 - a + 1) : SubSeq(s, a, p - 1)[i] = s[a + i - 1]
    BY <2>1, <2>2, SubSeqProperties
  <2>4. /\ SubSeq(t, a, p - 1) \in Seq(Octet)
        /\ Len(SubSeq(t, a, p - 1)) = IF a <= p - 1 THEN p - 1 - a + 1 ELSE 0
        /\ \A i \in 1..(p - 1 - a + 1) : SubSeq(t, a, p - 1)[i] = t[a + i - 1]
    BY <2>1, <2>2, SubSeqProperties
  <2>5. \A i \in 1..Len(SubSeq(s, a, p - 1)) :
          SubSeq(s, a, p - 1)[i] = SubSeq(t, a, p - 1)[i]
    BY <2>1, <2>2, <2>3, <2>4
  <2> QED
    BY <2>3, <2>4, <2>5, SeqEqual
<1> QED
  BY <1>7, <1>9 DEF LineAt

(* A line the decoder looks at is malformed in the shorter buffer just     *)
(* when it is in the longer one.                                           *)
LEMMA MalformedOfPrefix ==
  ASSUME NEW s, NEW t, Arrived(s, t), NEW p \in HeadEnds(s)
  PROVE  Malformed(s, p) <=> Malformed(t, p)
<1>1. s \in String /\ t \in String /\ Len(s) \in Nat
  BY DEF Arrived, String
<1>2. p \in CRLFs(s)
  BY DEF HeadEnds
<1>3. \A q : q \in CRLFs(s) <=> q \in CRLFs(t) /\ q + 1 <= Len(s)
  BY CRLFsOfPrefix
<1>4. \A q \in CRLFs(t) : q \in Nat
  BY <1>1, CRLFsType
<1>5. IsRequestLine(s, p) <=> IsRequestLine(t, p)
  BY <1>1, <1>2, <1>3, <1>4 DEF IsRequestLine
<1>6. IsBlankLine(s, p) <=> IsBlankLine(t, p)
  BY <1>2, HeadEndsOfPrefix
<1>7. LineAt(s, p) = LineAt(t, p)
  BY <1>2, LineOfPrefix
<1> QED
  BY <1>5, <1>6, <1>7 DEF Malformed

(* A complete head is the same head in every longer buffer.                *)
LEMMA HeadOfPrefix ==
  ASSUME NEW s, NEW t, Arrived(s, t), HeadComplete(s)
  PROVE  /\ HeadComplete(t)
         /\ HeadEnds(t) = HeadEnds(s)
         /\ HeadLines(t) = HeadLines(s)
<1>1. s \in String /\ t \in String /\ Len(s) \in Nat
  BY DEF Arrived, String
<1>2. \A q : q \in HeadEnds(s) <=> q \in HeadEnds(t) /\ q + 1 <= Len(s)
  BY HeadEndsOfPrefix
<1>3. \A q \in HeadEnds(t) : q \in CRLFs(t) /\ q \in Nat
  BY <1>1, CRLFsType DEF HeadEnds
<1>4. PICK p \in HeadEnds(s) : IsBlankLine(s, p)
  BY DEF HeadComplete
<1>5. p \in CRLFs(s) /\ p \in HeadEnds(t) /\ p + 1 <= Len(s)
  BY <1>2 DEF HeadEnds
<1>6. IsBlankLine(t, p)
  BY <1>4, <1>5, HeadEndsOfPrefix
<1>7. HeadEnds(t) = HeadEnds(s)
  <2> SUFFICES ASSUME NEW q \in HeadEnds(t) PROVE q + 1 <= Len(s)
    BY <1>2
  <2>1. ~(p < q)
    BY <1>3, <1>5, <1>6 DEF HeadEnds
  <2> QED
    BY <1>1, <1>3, <1>5, <2>1
<1>8. \A q \in HeadEnds(s) : LineAt(s, q) = LineAt(t, q)
  BY LineOfPrefix DEF HeadEnds
<1> QED
  BY <1>5, <1>6, <1>7, <1>8 DEF HeadComplete, HeadLines

-----------------------------------------------------------------------------
(* The outcome.                                                            *)

(* The sum of two lengths that each fit a std::string does not wrap.       *)
LEMMA SumDoesNotWrap ==
  ASSUME NEW a \in 0..MaxString, NEW b \in 0..MaxString
  PROVE  (a + b) % SizeMod = a + b
<1>1. a + b \in Nat /\ SizeMod \in Nat /\ a + b < SizeMod
  BY SizeAssumption
<1>2. \A m \in Nat, n \in Nat : n < m => n % m = n
  OBVIOUS
<1> QED
  BY <1>1, <1>2

(* The octets after a complete head begin inside the buffer or at its end. *)
LEMMA HeadFits ==
  ASSUME NEW s \in String, HeadComplete(s)
  PROVE  Max(DOMAIN HeadLines(s)) + 1 \in 2..Len(s)
<1>1. Len(s) \in Nat
  BY DEF String
<1>2. \A p \in HeadEnds(s) : p \in 1..Len(s) /\ p + 1 <= Len(s)
  BY <1>1, CRLFsType DEF HeadEnds
<1>3. HeadEnds(s) # {}
  BY DEF HeadComplete
<1>4. HeadEnds(s) \in SUBSET (0..Len(s))
  BY <1>1, <1>2
<1>5. Max(HeadEnds(s)) \in HeadEnds(s)
  BY <1>1, <1>3, <1>4, MaxOfNats
<1>6. DOMAIN HeadLines(s) = HeadEnds(s)
  BY DEF HeadLines
<1> QED
  BY <1>1, <1>2, <1>5, <1>6

(* What the body of a complete head can turn out to be.                    *)
LEMMA DecodeBodyCases ==
  ASSUME NEW s \in String, Len(s) <= MaxString, NEW lines, NEW headers,
         NEW position \in 2..Len(s), NEW length
  PROVE  LET d == DecodeBody(s, lines, headers, position, length)
         IN  \/ d = Incomplete
             \/ d = Throws("length_error")
             \/ /\ length \in Nat /\ position + length <= Len(s)
                /\ d = Parsed(RequestOf(lines, BodyAt(s, position, length),
                                        headers),
                              position + length)
<1>1. Len(s) \in Nat
  BY DEF String
<1>2. CASE (position + length) % SizeMod \notin 0..Len(s)
  BY <1>2 DEF DecodeBody
<1>3. CASE /\ (position + length) % SizeMod \in 0..Len(s)
           /\ length \notin 0..MaxString
  BY <1>3 DEF DecodeBody
<1>4. CASE /\ (position + length) % SizeMod \in 0..Len(s)
           /\ length \in 0..MaxString
  <2>1. position \in 0..MaxString
    BY <1>1, SizeAssumption
  <2>2. (position + length) % SizeMod = position + length
    BY <1>4, <2>1, SumDoesNotWrap
  <2>3. length \in Nat /\ position + length <= Len(s)
    BY <1>1, <1>4, <2>2
  <2> QED
    BY <1>4, <2>3 DEF DecodeBody
<1> QED
  BY <1>2, <1>3, <1>4

(* A body that has arrived is the same body in every longer buffer.        *)
LEMMA BodyOfPrefix ==
  ASSUME NEW s, NEW t, Arrived(s, t), NEW position \in Nat, NEW length \in Nat,
         position + length <= Len(s)
  PROVE  BodyAt(s, position, length) = BodyAt(t, position, length)
<1>1. s \in String /\ t \in String /\ Len(s) \in Nat /\ Len(t) \in Nat
  BY DEF Arrived, String
<1> DEFINE a == position + 1
           b == position + length
<1>2. \A i \in a..b : s[i] \in Octet /\ t[i] \in Octet /\ s[i] = t[i]
  BY <1>1 DEF Arrived, String
<1>3. a \in Int /\ b \in Int
  OBVIOUS
<1> HIDE DEF a, b
<1>4. /\ SubSeq(s, a, b) \in Seq(Octet)
      /\ Len(SubSeq(s, a, b)) = IF a <= b THEN b - a + 1 ELSE 0
      /\ \A i \in 1..(b - a + 1) : SubSeq(s, a, b)[i] = s[a + i - 1]
  BY <1>2, <1>3, SubSeqProperties
<1>5. /\ SubSeq(t, a, b) \in Seq(Octet)
      /\ Len(SubSeq(t, a, b)) = IF a <= b THEN b - a + 1 ELSE 0
      /\ \A i \in 1..(b - a + 1) : SubSeq(t, a, b)[i] = t[a + i - 1]
  BY <1>2, <1>3, SubSeqProperties
<1>6. \A i \in 1..Len(SubSeq(s, a, b)) : SubSeq(s, a, b)[i] = SubSeq(t, a, b)[i]
  BY <1>2, <1>3, <1>4, <1>5
<1>7. SubSeq(s, a, b) = SubSeq(t, a, b)
  BY <1>4, <1>5, <1>6, SeqEqual
<1> QED
  BY <1>7 DEF BodyAt, a, b

(* decodeHttp10Request returns NULL, throws one of two exceptions, or      *)
(* returns a request that took at least one octet and no more than there   *)
(* are: the drain loop always makes progress and never erases too much.    *)
LEMMA DecodeCases ==
  ASSUME NEW s \in String, Len(s) <= MaxString
  PROVE  \/ Decode(s) = Incomplete
         \/ \E e \in Exceptions : Decode(s) = Throws(e)
         \/ \E r, c : c \in 1..Len(s) /\ Decode(s) = Parsed(r, c)
<1>1. CASE \E p \in HeadEnds(s) : Malformed(s, p)
  BY <1>1 DEF Decode, Exceptions
<1>2. CASE ~(\E p \in HeadEnds(s) : Malformed(s, p)) /\ ~HeadComplete(s)
  BY <1>2 DEF Decode
<1>3. CASE ~(\E p \in HeadEnds(s) : Malformed(s, p)) /\ HeadComplete(s)
  <2> DEFINE lines == HeadLines(s)
             position == Max(DOMAIN lines) + 1
             declared == HeaderGet(HeadersOf(lines), ContentLengthName)
  <2>1. Decode(s) = DecodeHead(s, lines)
    BY <1>3 DEF Decode
  <2>2. position \in 2..Len(s) /\ Len(s) \in Nat
    BY <1>3, HeadFits DEF String
  <2>3. CASE declared = None
    BY <2>1, <2>2, <2>3 DEF DecodeHead
  <2>4. CASE declared # None /\ BadContentLength(declared[1])
    BY <2>1, <2>4 DEF DecodeHead, Exceptions
  <2>5. CASE declared # None /\ ~BadContentLength(declared[1])
    <3> DEFINE length == ContentLength(declared[1])
    <3>1. Decode(s) = DecodeBody(s, lines, HeadersOf(lines), position, length)
      BY <2>1, <2>5 DEF DecodeHead
    <3> HIDE DEF lines, position, declared, length
    <3> QED
      BY <2>2, <3>1, DecodeBodyCases DEF Exceptions
  <2> QED
    BY <2>3, <2>4, <2>5
<1> QED
  BY <1>1, <1>2, <1>3

(* The verdict on a buffer is final: unless the decoder asked for more, it *)
(* says the same of every longer buffer.                                   *)
LEMMA DecodeStable ==
  ASSUME NEW s, NEW t, Arrived(s, t), Len(t) <= MaxString,
         Decode(s).outcome # "incomplete"
  PROVE  Decode(t) = Decode(s)
<1>1. /\ s \in String /\ t \in String /\ Len(s) \in Nat /\ Len(t) \in Nat
      /\ Len(s) <= Len(t)
  BY DEF Arrived, String
<1>2. \A p : p \in HeadEnds(s) <=> p \in HeadEnds(t) /\ p + 1 <= Len(s)
  BY HeadEndsOfPrefix
<1>3. \A p \in HeadEnds(s) : Malformed(s, p) <=> Malformed(t, p)
  BY MalformedOfPrefix
<1>4. CASE \E p \in HeadEnds(s) : Malformed(s, p)
  BY <1>2, <1>3, <1>4 DEF Decode
<1>5. CASE ~(\E p \in HeadEnds(s) : Malformed(s, p))
  <2>1. HeadComplete(s)
    BY <1>5 DEF Decode, Incomplete
  <2>2. /\ HeadComplete(t)
        /\ HeadEnds(t) = HeadEnds(s)
        /\ HeadLines(t) = HeadLines(s)
    BY <2>1, HeadOfPrefix
  <2> DEFINE lines == HeadLines(s)
             headers == HeadersOf(lines)
             position == Max(DOMAIN lines) + 1
             declared == HeaderGet(headers, ContentLengthName)
  <2>3. Decode(s) = DecodeHead(s, lines) /\ Decode(t) = DecodeHead(t, lines)
    BY <1>3, <1>5, <2>1, <2>2 DEF Decode
  <2>4. position \in 2..Len(s)
    BY <1>1, <2>1, HeadFits
  <2>5. CASE declared = None \/ BadContentLength(declared[1])
    BY <2>3, <2>5 DEF DecodeHead
  <2>6. CASE declared # None /\ ~BadContentLength(declared[1])
    <3> DEFINE length == ContentLength(declared[1])
    <3>1. /\ Decode(s) = DecodeBody(s, lines, headers, position, length)
          /\ Decode(t) = DecodeBody(t, lines, headers, position, length)
      BY <2>3, <2>6 DEF DecodeHead
    <3> HIDE DEF lines, headers, position, declared, length
    <3>2. (position + length) % SizeMod \in 0..Len(s)
      BY <3>1 DEF DecodeBody, Incomplete
    <3>3. (position + length) % SizeMod \in 0..Len(t)
      BY <1>1, <3>2
    <3>4. CASE length \notin 0..MaxString
      BY <3>1, <3>2, <3>3, <3>4 DEF DecodeBody
    <3>5. CASE length \in 0..MaxString
      <4>1. position \in 0..MaxString
        BY <1>1, <2>4, SizeAssumption
      <4>2. position + length <= Len(s)
        BY <1>1, <3>2, <3>5, <4>1, SumDoesNotWrap
      <4>3. BodyAt(s, position, length) = BodyAt(t, position, length)
        BY <3>5, <4>1, <4>2, BodyOfPrefix
      <4> QED
        BY <3>1, <3>2, <3>3, <3>5, <4>3 DEF DecodeBody
    <3> QED
      BY <3>4, <3>5
  <2> QED
    BY <2>5, <2>6
<1> QED
  BY <1>4, <1>5

(* An empty buffer decodes to nothing.                                     *)
LEMMA DecodeEmpty == Decode(<<>>) = Incomplete
<1>1. CRLFs(<<>>) = {}
  BY DEF CRLFs
<1> QED
  BY <1>1 DEF Decode, HeadEnds, HeadComplete

-----------------------------------------------------------------------------
(* The request line.                                                       *)

(* The first line of a buffer begins with its first octet.                 *)
LEMMA FirstLine ==
  ASSUME NEW s \in String, NEW p \in CRLFs(s), \A q \in CRLFs(s) : p <= q
  PROVE  LineAt(s, p) = SubSeq(s, 1, p - 1)
<1>1. \A q \in CRLFs(s) : q \in Nat
  BY CRLFsType
<1>2. {q + 2 : q \in {x \in CRLFs(s) : x < p}} = {}
  BY <1>1
<1>3. Max({1}) = 1
  <2>1. {1} \in SUBSET (0..1) /\ {1} # {}
    OBVIOUS
  <2>2. Max({1}) \in {1}
    BY <2>1, MaxOfNats
  <2> QED
    BY <2>2
<1>4. {1} \cup {q + 2 : q \in {x \in CRLFs(s) : x < p}} = {1}
  BY <1>2
<1> QED
  BY <1>3, <1>4 DEF LineAt, LineStart

(* A set of two positions is a smaller one and a larger one.               *)
LEMMA TwoPositions ==
  ASSUME NEW n \in Nat, NEW S \in SUBSET (1..n), Cardinality(S) = 2
  PROVE  \E a, b \in S : a < b /\ S = {a, b} /\ Max(S) = b
<1>1. IsFiniteSet(S)
  <2>1. IsFiniteSet(1..n)
    BY FS_Interval
  <2> QED
    BY <2>1, FS_Subset
<1>2. S # {}
  BY FS_EmptySet
<1>3. Max(S) \in S /\ \A y \in S : y <= Max(S)
  <2>1. S \in SUBSET (0..n)
    OBVIOUS
  <2> QED
    BY <1>2, <2>1, MaxOfNats
<1> DEFINE b == Max(S)
<1> HIDE DEF b
<1>4. IsFiniteSet(S \ {b}) /\ Cardinality(S \ {b}) = 1
  BY <1>1, <1>3, FS_RemoveElement DEF b
<1>5. PICK a : S \ {b} = {a}
  BY <1>4, FS_Singleton
<1>6. a \in S /\ a # b /\ a <= b /\ S = {a, b}
  BY <1>3, <1>5 DEF b
<1>7. a < b
  BY <1>6
<1> QED
  BY <1>3, <1>6, <1>7 DEF b

(* What the decoder found when it returned a request: the first line is a  *)
(* request line, and a blank line follows it within the octets it took.    *)
LEMMA RequestLineOfDecoded ==
  ASSUME NEW s \in String, Len(s) <= MaxString,
         NEW r, NEW c \in 1..Len(s), Decode(s) = Parsed(r, c)
  PROVE  /\ r.version = HTTP_1_0
         /\ \E p \in 1..c : /\ p + 3 <= c
                           /\ ~BadRequestLine(SubSeq(s, 1, p - 1))
<1>1. Len(s) \in Nat
  BY DEF String
<1>2. /\ ~(\E p \in HeadEnds(s) : Malformed(s, p))
      /\ HeadComplete(s)
      /\ Decode(s) = DecodeHead(s, HeadLines(s))
  BY DEF Decode, Throws, Incomplete, Parsed
<1> DEFINE lines == HeadLines(s)
           headers == HeadersOf(lines)
           position == Max(DOMAIN lines) + 1
           declared == HeaderGet(headers, ContentLengthName)
           length == ContentLength(declared[1])
<1>3. position \in 2..Len(s)
  BY <1>2, HeadFits
<1>4. /\ r.version = HTTP_1_0
      /\ c >= position
  <2>1. CASE declared = None
    <3>1. DecodeHead(s, lines) = Parsed(RequestOf(lines, None, headers), position)
      BY <2>1 DEF DecodeHead
    <3> HIDE DEF lines, headers, position
    <3>2. r = RequestOf(lines, None, headers) /\ c = position
      BY <1>2, <3>1 DEF Parsed, lines
    <3> QED
      BY <1>3, <3>2 DEF RequestOf, NewRequest, RequestVersion
  <2>2. CASE declared # None /\ ~BadContentLength(declared[1])
    <3>1. DecodeHead(s, lines) = DecodeBody(s, lines, headers, position, length)
      BY <2>2 DEF DecodeHead
    <3> HIDE DEF lines, headers, position, declared, length
    <3>2. /\ length \in Nat
          /\ Parsed(r, c) = Parsed(RequestOf(lines, BodyAt(s, position, length),
                                             headers),
                                   position + length)
      BY <1>1, <1>2, <1>3, <3>1, DecodeBodyCases
      DEF lines, Incomplete, Throws, Parsed
    <3>3. /\ r = RequestOf(lines, BodyAt(s, position, length), headers)
          /\ c = position + length
      BY <3>2 DEF Parsed
    <3> QED
      BY <1>3, <3>2, <3>3 DEF RequestOf, NewRequest, RequestVersion
  <2>3. CASE declared # None /\ BadContentLength(declared[1])
    <3>1. DecodeHead(s, lines) = Throws("invalid_argument")
      BY <2>3 DEF DecodeHead
    <3> QED
      BY <1>2, <3>1 DEF Throws, Parsed
  <2> QED
    BY <2>1, <2>2, <2>3
<1>5. /\ \A q \in CRLFs(s) : q \in Nat /\ 1 <= q
      /\ CRLFs(s) \in SUBSET Nat /\ CRLFs(s) # {}
  BY <1>2, CRLFsType DEF HeadComplete, HeadEnds
<1> DEFINE p == Min(CRLFs(s))
<1>6. p \in CRLFs(s) /\ \A q \in CRLFs(s) : p <= q
  BY <1>5, MinOfNats
<1> HIDE DEF p
<1>7. p \in Nat /\ 1 <= p /\ p \in HeadEnds(s) /\ IsRequestLine(s, p)
  BY <1>5, <1>6 DEF HeadEnds, IsRequestLine
<1>8. ~BadRequestLine(LineAt(s, p))
  BY <1>2, <1>7 DEF Malformed
<1>9. LineAt(s, p) = SubSeq(s, 1, p - 1)
  BY <1>6, <1>7, FirstLine
<1>10. PICK q \in HeadEnds(s) : IsBlankLine(s, q)
  BY <1>2 DEF HeadComplete
<1>11. q - 2 \in CRLFs(s) /\ q \in Nat /\ p <= q - 2
  BY <1>5, <1>6, <1>10 DEF IsBlankLine, HeadEnds
<1>12. p + 3 <= c
  <2>1. HeadEnds(s) \in SUBSET (0..Len(s)) /\ HeadEnds(s) # {}
    <3>1. \A r0 \in HeadEnds(s) : r0 \in Nat /\ 1 <= r0 /\ r0 + 1 <= Len(s)
      BY CRLFsType DEF HeadEnds
    <3>2. \A r0 \in HeadEnds(s) : r0 \in 0..Len(s)
      BY <1>1, <3>1
    <3> QED
      BY <1>7, <3>2
  <2>2. q <= Max(HeadEnds(s)) /\ Max(HeadEnds(s)) \in Nat
    <3>1. /\ Max(HeadEnds(s)) \in HeadEnds(s)
          /\ \A y \in HeadEnds(s) : y <= Max(HeadEnds(s))
      BY <1>1, <2>1, MaxOfNats
    <3> QED
      BY <1>10, <2>1, <3>1
  <2>3. position = Max(HeadEnds(s)) + 1
    BY DEF HeadLines
  <2> HIDE DEF position
  <2> QED
    BY <1>3, <1>4, <1>7, <1>11, <2>2, <2>3
<1>13. p \in 1..c
  BY <1>7, <1>12
<1> QED
  BY <1>4, <1>8, <1>9, <1>12, <1>13

(* Two spaces, a word before them and a word behind them.                  *)
LEMMA RequestLineHasFour ==
  ASSUME NEW line \in String, ~BadRequestLine(line)
  PROVE  4 <= Len(line)
<1> DEFINE spaces == Occurrences(SP, line)
<1>1. Len(line) \in Nat /\ DOMAIN line = 1..Len(line)
      /\ \A i \in 1..Len(line) : line[i] \in Octet
  BY DEF String
<1>2. /\ Cardinality(spaces) = 2
      /\ VersionPart(line) = VersionToken(RequestVersion)
      /\ \E m \in HttpMethod : MethodPart(line) = MethodToken(m)
  BY DEF BadRequestLine, ParseHttpMethod
<1>3. spaces \in SUBSET (1..Len(line)) /\ spaces \in SUBSET Nat
  BY <1>1 DEF Occurrences
<1>4. PICK a \in spaces, b \in spaces : a < b /\ spaces = {a, b}
      /\ Max(spaces) = b
  <2> HIDE DEF spaces
  <2> QED
    BY <1>1, <1>2, <1>3, TwoPositions
<1>5. Min(spaces) \in spaces
  <2> HIDE DEF spaces
  <2> QED
    BY <1>3, <1>4, MinOfNats
<1> DEFINE least == Min(spaces)
<1> HIDE DEF least, spaces
<1>6. /\ a \in 1..Len(line) /\ b \in 1..Len(line) /\ least \in 1..Len(line)
      /\ a < b /\ least <= a
  <2>1. \A y \in spaces : least <= y
    BY <1>3, <1>4, MinOfNats DEF least
  <2> QED
    BY <1>3, <1>4, <1>5, <2>1 DEF least
<1>7. least = 2
  <2>1. PICK m \in HttpMethod : SubSeq(line, 1, least - 1) = <<m>>
    BY <1>2 DEF MethodPart, MethodToken, least, spaces
  <2>2. 1 \in Int /\ least - 1 \in Int
        /\ \A i \in 1..(least - 1) : line[i] \in Octet
    BY <1>1, <1>6
  <2>3. Len(SubSeq(line, 1, least - 1)) = IF 1 <= least - 1 THEN least - 1 - 1 + 1 ELSE 0
    BY <2>2, SubSeqProperties
  <2>4. Len(<<m>>) = 1
    OBVIOUS
  <2> QED
    BY <1>6, <2>1, <2>3, <2>4
<1>8. b = Len(line) - 1
  <2>1. SubSeq(line, b + 1, Len(line)) = VersionToken(RequestVersion)
    BY <1>2, <1>4 DEF VersionPart, spaces
  <2>2. b + 1 \in Int /\ Len(line) \in Int
        /\ \A i \in (b + 1)..Len(line) : line[i] \in Octet
    BY <1>1, <1>6
  <2>3. Len(SubSeq(line, b + 1, Len(line)))
          = IF b + 1 <= Len(line) THEN Len(line) - (b + 1) + 1 ELSE 0
    BY <2>2, SubSeqProperties
  <2>4. Len(VersionToken(RequestVersion)) = 1
    BY DEF VersionToken
  <2>5. Len(SubSeq(line, b + 1, Len(line))) = 1
    BY <2>1, <2>4, Zenon
  <2> DEFINE n == Len(line)
             k == Len(SubSeq(line, b + 1, n))
  <2>6. n \in Nat /\ b \in Nat /\ b <= n
    BY <1>1, <1>6
  <2>7. k = 1
    BY <2>5
  <2>8. k = IF b + 1 <= n THEN n - (b + 1) + 1 ELSE 0
    BY <2>3
  <2> HIDE DEF n, k
  <2>9. b = n - 1
    BY <2>6, <2>7, <2>8
  <2> QED
    BY <2>9 DEF n
<1> QED
  BY <1>1, <1>6, <1>7, <1>8

(* A request takes eight octets at least, words counted as one.            *)
LEMMA RequestHasEight ==
  ASSUME NEW s \in String, Len(s) <= MaxString,
         NEW r, NEW c \in 1..Len(s), Decode(s) = Parsed(r, c)
  PROVE  8 <= c
<1>1. PICK p \in 1..c : p + 3 <= c /\ ~BadRequestLine(SubSeq(s, 1, p - 1))
  BY RequestLineOfDecoded
<1>2. Len(s) \in Nat /\ 1 \in Int /\ p - 1 \in Int
      /\ \A i \in 1..(p - 1) : s[i] \in Octet
  BY DEF String
<1>3. /\ SubSeq(s, 1, p - 1) \in Seq(Octet)
      /\ Len(SubSeq(s, 1, p - 1)) = IF 1 <= p - 1 THEN p - 1 - 1 + 1 ELSE 0
  BY <1>2, SubSeqProperties
<1>4. 4 <= Len(SubSeq(s, 1, p - 1))
  BY <1>1, <1>3, RequestLineHasFour DEF String
<1> QED
  BY <1>1, <1>3, <1>4

-----------------------------------------------------------------------------
(* Strings and headers.                                                    *)

HeaderLists == Seq([name : String, value : String])

(* A piece of a string is a string.                                        *)
LEMMA PieceIsString ==
  ASSUME NEW s \in String, NEW a \in Nat \ {0}, NEW b \in Nat, b <= Len(s)
  PROVE  SubSeq(s, a, b) \in String
<1>1. \A i \in a..b : s[i] \in Octet
  BY DEF String
<1> QED
  BY <1>1, SubSeqProperties DEF String

(* Trimming a string gives a string.                                       *)
LEMMA TrimIsString ==
  ASSUME NEW v \in String
  PROVE  TrimLeft(v) \in String /\ TrimRight(v) \in String
<1>1. Len(v) \in Nat /\ <<>> \in String
  BY DEF String
<1>2. Ink(v) \in SUBSET (0..Len(v)) /\ Ink(v) \in SUBSET Nat
      /\ \A i \in Ink(v) : i \in 1..Len(v)
  BY DEF Ink, String
<1>3. CASE Ink(v) = {}
  BY <1>1, <1>3 DEF TrimLeft, TrimRight
<1>4. CASE Ink(v) # {}
  <2> DEFINE least == Min(Ink(v))
             last == Max(Ink(v))
  <2>1. least \in 1..Len(v)
    BY <1>2, <1>4, MinOfNats
  <2>2. last \in 1..Len(v)
    BY <1>1, <1>2, <1>4, MaxOfNats
  <2> HIDE DEF least, last
  <2>3. SubSeq(v, least, Len(v)) \in String
    BY <1>1, <2>1, PieceIsString
  <2>4. SubSeq(v, 1, last) \in String
    BY <1>1, <2>2, PieceIsString
  <2> QED
    BY <1>4, <2>3, <2>4 DEF TrimLeft, TrimRight, least, last
<1> QED
  BY <1>3, <1>4

(* Setting a header leaves a list of headers.                              *)
LEMMA HeaderSetType ==
  ASSUME NEW h \in HeaderLists, NEW name \in String, NEW value \in String
  PROVE  HeaderSet(h, name, value) \in HeaderLists
<1> DEFINE Header == [name : String, value : String]
<1>1. ToLower(name) \in String
  <2>1. \A i \in DOMAIN name : LowerCase[name[i]] \in Octet
    BY OctetAssumption DEF String
  <2>2. DOMAIN name = 1..Len(name) /\ Len(name) \in Nat
    BY DEF String
  <2> QED
    BY <2>1, <2>2 DEF ToLower, String
<1>2. CASE Places(h, name) = {}
  <2>1. [name |-> ToLower(name), value |-> value] \in Header
    BY <1>1
  <2> HIDE DEF Header
  <2>2. Append(h, [name |-> ToLower(name), value |-> value]) \in Seq(Header)
    BY <2>1 DEF HeaderLists, Header
  <2> QED
    BY <1>2, <2>2 DEF HeaderSet, HeaderLists, Header
<1>3. CASE Places(h, name) # {}
  <2>1. Len(h) \in Nat /\ DOMAIN h = 1..Len(h)
        /\ \A i \in 1..Len(h) : h[i] \in Header
    BY LenProperties, ElementOfSeq DEF HeaderLists
  <2>2. \A i \in 1..Len(h) : [h[i] EXCEPT !.value = value] \in Header
    BY <2>1
  <2>3. HeaderSet(h, name, value)
          = [i \in 1..Len(h) |-> IF i \in Places(h, name)
                                 THEN [h[i] EXCEPT !.value = value] ELSE h[i]]
    BY <1>3, <2>1 DEF HeaderSet
  <2> HIDE DEF Header
  <2>4. HeaderSet(h, name, value) \in Seq(Header)
    BY <2>1, <2>2, <2>3
  <2> QED
    BY <2>4 DEF HeaderLists, Header
<1> QED
  BY <1>2, <1>3

(* A line that has a colon adds a header.                                  *)
HasColon(line) == line \in String /\ Occurrences(COLON, line) # {}

(* Adding a header line leaves a list of headers.                          *)
LEMMA AddHeaderType ==
  ASSUME NEW line, HasColon(line), NEW h \in HeaderLists
  PROVE  AddHeaderLine(line, h) \in HeaderLists
<1> DEFINE colon == Min(Occurrences(COLON, line))
<1>1. Len(line) \in Nat /\ line \in String
  BY DEF HasColon, String
<1>2. colon \in 1..Len(line)
  <2>1. Occurrences(COLON, line) \in SUBSET Nat /\ DOMAIN line = 1..Len(line)
    BY <1>1 DEF Occurrences, String
  <2>2. colon \in Occurrences(COLON, line)
    BY <2>1, MinOfNats DEF HasColon
  <2> QED
    BY <2>1, <2>2 DEF Occurrences
<1> HIDE DEF colon
<1>3. SubSeq(line, 1, colon - 1) \in String
      /\ SubSeq(line, colon + 1, Len(line)) \in String
  BY <1>1, <1>2, PieceIsString
<1>4. Trim(SubSeq(line, 1, colon - 1)) \in String
  BY <1>3, TrimIsString DEF Trim
<1>5. TrimLeft(SubSeq(line, colon + 1, Len(line))) \in String
  BY <1>3, TrimIsString
<1>6. AddHeaderLine(line, h)
        = HeaderSet(h, Trim(SubSeq(line, 1, colon - 1)),
                       TrimLeft(SubSeq(line, colon + 1, Len(line))))
  BY DEF AddHeaderLine, colon
<1> QED
  BY <1>4, <1>5, <1>6, HeaderSetType

-----------------------------------------------------------------------------
(* Adding header lines one after the other.                                *)

(* The headers that the lines at S make: HeadersOf for any set of lines.   *)
HeadersAt(lines, S) ==
  MapThenFoldSet(AddHeaderLine, EmptyHeaders, LAMBDA p : lines[p], Max, S)

LineStep(lines, S) ==
  [x \in S \X HeaderLists |-> AddHeaderLine(lines[x[1]], x[2])]

(* They are a fold.                                                        *)
LEMMA HeadersAreFolded ==
  ASSUME NEW n \in Nat, NEW S \in SUBSET (1..n), NEW lines,
         \A p \in S : HasColon(lines[p])
  PROVE  \E iter \in [SUBSET S -> HeaderLists] :
           /\ Folds(iter, S, EmptyHeaders, LineStep(lines, S))
           /\ HeadersAt(lines, S) = iter[S]
<1> DEFINE step == LineStep(lines, S)
           Walk(iter) == [s \in SUBSET S |->
                            IF s = {} THEN EmptyHeaders
                            ELSE AddHeaderLine(lines[Max(s)], iter[s \ {Max(s)}])]
<1>1. step \in [S \X HeaderLists -> HeaderLists]
  BY AddHeaderType DEF LineStep
<1>2. EmptyHeaders \in HeaderLists
  BY DEF EmptyHeaders, HeaderLists
<1>3. ASSUME NEW s \in SUBSET S, s # {}
      PROVE  Max(s) \in s /\ s \ {Max(s)} \in SUBSET S
  <2>1. s \in SUBSET (0..n)
    OBVIOUS
  <2> QED
    BY <1>3, <2>1, MaxOfNats
<1>4. PICK iter \in [SUBSET S -> HeaderLists] : Folds(iter, S, EmptyHeaders, step)
  <2> HIDE DEF step
  <2> QED
    BY <1>1, <1>2, FoldExists
<1>5. ASSUME NEW s \in SUBSET S, NEW h, s # {}, h[s \ {Max(s)}] \in HeaderLists
      PROVE  step[<<Max(s), h[s \ {Max(s)}]>>]
               = AddHeaderLine(lines[Max(s)], h[s \ {Max(s)}])
  <2>1. Max(s) \in S
    BY <1>3, <1>5
  <2> DEFINE m == Max(s)
             v == h[s \ {m}]
  <2> HIDE DEF m, v
  <2>2. step[<<m, v>>] = AddHeaderLine(lines[m], v)
    BY <1>5, <2>1 DEF LineStep, m, v
  <2> QED
    BY <2>2 DEF m, v
<1>6. \E h : h = Walk(h)
  <2>1. \A s \in SUBSET S : iter[s] = Walk(iter)[s]
    <3> TAKE s \in SUBSET S
    <3>1. iter[s] = IF s = {} THEN EmptyHeaders
                    ELSE step[<<Max(s), iter[s \ {Max(s)}]>>]
      BY <1>4, Zenon DEF Folds
    <3>2. s # {} => iter[s \ {Max(s)}] \in HeaderLists
      BY <1>3
    <3> HIDE DEF step
    <3> QED
      BY <1>5, <3>1, <3>2
  <2>2. iter = Walk(iter)
    BY <2>1
  <2> QED
    BY <2>2
<1> DEFINE other == CHOOSE h : h = Walk(h)
<1>7. other = Walk(other)
  <2> HIDE DEF Walk
  <2> QED
    BY <1>6
<1>8. HeadersAt(lines, S) = other[S]
  BY Zenon DEF HeadersAt, MapThenFoldSet
<1> HIDE DEF other
<1>9. ASSUME NEW s \in SUBSET S
      PROVE  other[s] = IF s = {} THEN EmptyHeaders
                        ELSE AddHeaderLine(lines[Max(s)], other[s \ {Max(s)}])
  <2>1. Walk(other)[s] = IF s = {} THEN EmptyHeaders
                         ELSE AddHeaderLine(lines[Max(s)], other[s \ {Max(s)}])
    OBVIOUS
  <2> HIDE DEF Walk
  <2> QED
    BY <1>7, <2>1
<1>10. SUBSET S \subseteq {s \in SUBSET S : other[s] \in HeaderLists}
  <2> DEFINE T == {s \in SUBSET S : other[s] \in HeaderLists}
  <2>1. {} \in T
    BY <1>2, <1>9
  <2>2. ASSUME NEW s \in SUBSET S, s # {}, s \ {Max(s)} \in T
        PROVE  s \in T
    <3>1. other[s] = AddHeaderLine(lines[Max(s)], other[s \ {Max(s)}])
      BY <1>9, <2>2
    <3>2. Max(s) \in S /\ HasColon(lines[Max(s)])
      BY <1>3, <2>2
    <3> DEFINE m == Max(s)
               v == other[s \ {m}]
    <3>3. v \in HeaderLists
      BY <2>2
    <3> HIDE DEF m, v
    <3>4. AddHeaderLine(lines[m], v) \in HeaderLists
      BY <3>2, <3>3, AddHeaderType DEF m
    <3> QED
      BY <3>1, <3>4 DEF m, v
  <2> HIDE DEF T
  <2>3. SUBSET S \subseteq T
    BY <2>1, <2>2, SubsetsByInduction
  <2> QED
    BY <2>3 DEF T
<1>11. Folds(other, S, EmptyHeaders, step)
  <2> SUFFICES ASSUME NEW s \in SUBSET S, s # {}
               PROVE  AddHeaderLine(lines[Max(s)], other[s \ {Max(s)}])
                        = step[<<Max(s), other[s \ {Max(s)}]>>]
    BY <1>9 DEF Folds
  <2>1. other[s \ {Max(s)}] \in HeaderLists
    BY <1>3, <1>10
  <2> HIDE DEF step
  <2> QED
    BY <1>5, <2>1
<1>12. other \in [SUBSET S -> HeaderLists]
  <2>1. other = [s \in SUBSET S |-> other[s]]
    BY <1>7
  <2> QED
    BY <1>10, <2>1
<1> QED
  BY <1>8, <1>11, <1>12

(* What one step of the fold does.                                         *)
LEMMA LineStepIs ==
  ASSUME NEW S, NEW lines, NEW p \in S, NEW h \in HeaderLists
  PROVE  LineStep(lines, S)[<<p, h>>] = AddHeaderLine(lines[p], h)
BY DEF LineStep

(* No lines, no headers.                                                   *)
LEMMA HeadersOfNone ==
  ASSUME NEW lines
  PROVE  HeadersAt(lines, {}) = EmptyHeaders
<1>1. {} \in SUBSET (1..0) /\ 0 \in Nat /\ {} \in SUBSET {}
  OBVIOUS
<1>2. PICK iter \in [SUBSET {} -> HeaderLists] :
        /\ Folds(iter, {}, EmptyHeaders, LineStep(lines, {}))
        /\ HeadersAt(lines, {}) = iter[{}]
  BY <1>1, HeadersAreFolded
<1> QED
  BY <1>1, <1>2 DEF Folds

(* The text of the lines is all that matters.                              *)
LEMMA HeadersOfSameLines ==
  ASSUME NEW n \in Nat, NEW S \in SUBSET (1..n), NEW lines, NEW other,
         \A p \in S : HasColon(lines[p]) /\ other[p] = lines[p]
  PROVE  HeadersAt(other, S) = HeadersAt(lines, S)
<1>1. PICK iter \in [SUBSET S -> HeaderLists] :
        /\ Folds(iter, S, EmptyHeaders, LineStep(lines, S))
        /\ HeadersAt(lines, S) = iter[S]
  BY HeadersAreFolded
<1>2. PICK iter2 \in [SUBSET S -> HeaderLists] :
        /\ Folds(iter2, S, EmptyHeaders, LineStep(other, S))
        /\ HeadersAt(other, S) = iter2[S]
  BY HeadersAreFolded
<1>3. LineStep(other, S) = LineStep(lines, S)
  BY DEF LineStep
<1>4. Folds(iter2, S, EmptyHeaders, LineStep(lines, S))
  BY <1>2, <1>3
<1>5. iter[S] = iter2[S]
  <2> DEFINE base == EmptyHeaders
             step == LineStep(lines, S)
  <2>1. Folds(iter, S, base, step) /\ Folds(iter2, S, base, step)
    BY <1>1, <1>4
  <2>2. n \in Nat /\ S \in SUBSET (1..n)
    OBVIOUS
  <2> HIDE DEF base, step
  <2> QED
    BY ONLY <2>1, <2>2, FoldIsUnique, Zenon
<1> QED
  BY <1>1, <1>2, <1>5

(* One more line, behind the others, adds its header to theirs.            *)
LEMMA HeadersGrow ==
  ASSUME NEW n \in Nat, NEW S \in SUBSET (1..n), NEW lines, NEW q \in 1..n,
         \A p \in S : p < q,
         \A p \in S \cup {q} : HasColon(lines[p])
  PROVE  /\ HeadersAt(lines, S) \in HeaderLists
         /\ HeadersAt(lines, S \cup {q})
              = AddHeaderLine(lines[q], HeadersAt(lines, S))
<1> DEFINE U == S \cup {q}
<1>1. U \in SUBSET (1..n) /\ S \in SUBSET U /\ q \in U /\ U # {}
  OBVIOUS
<1>2. Max(U) = q /\ U \ {Max(U)} = S
  <2>1. U \in SUBSET (0..n) /\ \A p \in U : p <= q
    OBVIOUS
  <2>2. Max(U) \in U /\ q <= Max(U)
    BY <1>1, <2>1, MaxOfNats
  <2> DEFINE m == Max(U)
  <2>3. m \in 1..n /\ m <= q /\ q <= m
    BY <1>1, <2>1, <2>2
  <2>4. m = q
    <3> HIDE DEF m
    <3> QED
      BY <2>3
  <2>5. q \notin S
    OBVIOUS
  <2>6. U \ {q} = S
    BY <2>5
  <2> HIDE DEF U
  <2> QED
    BY <2>4, <2>6
<1> HIDE DEF U
<1>3. PICK iter \in [SUBSET S -> HeaderLists] :
        /\ Folds(iter, S, EmptyHeaders, LineStep(lines, S))
        /\ HeadersAt(lines, S) = iter[S]
  BY HeadersAreFolded
<1>4. PICK longer \in [SUBSET U -> HeaderLists] :
        /\ Folds(longer, U, EmptyHeaders, LineStep(lines, U))
        /\ HeadersAt(lines, U) = longer[U]
  BY <1>1, HeadersAreFolded DEF U
<1>5. Folds(longer, S, EmptyHeaders, LineStep(lines, S))
  <2> SUFFICES ASSUME NEW s \in SUBSET S
               PROVE  longer[s] =
                        IF s = {} THEN EmptyHeaders
                        ELSE LineStep(lines, S)[<<Max(s), longer[s \ {Max(s)}]>>]
    BY DEF Folds
  <2>1. longer[s] = IF s = {} THEN EmptyHeaders
                    ELSE LineStep(lines, U)[<<Max(s), longer[s \ {Max(s)}]>>]
    BY <1>1, <1>4 DEF Folds
  <2>2. CASE s # {}
    <3> DEFINE m == Max(s)
               h == longer[s \ {m}]
    <3>1. m \in s
      <4>1. s \in SUBSET (0..n)
        OBVIOUS
      <4> QED
        BY <2>2, <4>1, MaxOfNats
    <3> HIDE DEF m
    <3>2. m \in S /\ m \in U /\ h \in HeaderLists
      BY <1>1, <1>4, <3>1
    <3> HIDE DEF h
    <3>3. LineStep(lines, U)[<<m, h>>] = LineStep(lines, S)[<<m, h>>]
      BY <3>2, LineStepIs
    <3> QED
      BY <2>1, <2>2, <3>3 DEF m, h
  <2> QED
    BY <2>1, <2>2
<1>6. longer[S] = iter[S]
  BY <1>3, <1>5, FoldIsUnique
<1>7. longer[U] = LineStep(lines, U)[<<q, longer[S]>>]
  BY <1>1, <1>2, <1>4 DEF Folds
<1>8. longer[S] \in HeaderLists
  BY <1>1, <1>4
<1>9. longer[U] = AddHeaderLine(lines[q], longer[S])
  BY <1>1, <1>7, <1>8, LineStepIs
<1> QED
  BY <1>3, <1>4, <1>6, <1>8, <1>9 DEF U

-----------------------------------------------------------------------------
(* The declared length.                                                    *)

(* A numeral has a value.                                                  *)
LEMMA DigitType ==
  ASSUME NEW d \in Digit
  PROVE  DigitValue(d) \in Nat
<1>1. \E i \in 1..10 : Numerals[i] = d
  BY DEF Digit
<1> DEFINE i == CHOOSE j \in 1..10 : Numerals[j] = d
<1>2. i \in 1..10
  BY <1>1
<1>3. DigitValue(d) = i - 1
  BY Zenon DEF DigitValue
<1> HIDE DEF i
<1>4. i - 1 \in Nat
  BY <1>2
<1> QED
  BY <1>3, <1>4

(* The declared length is a fold over the digits.                          *)
LengthStep(t, S) ==
  [x \in S \X Nat |-> (x[2] * 10 + DigitValue(t[x[1]])) % SizeMod]

(* What a step of that fold does.                                          *)
LEMMA LengthStepIs ==
  ASSUME NEW t, NEW S,
         \A i \in S, v \in Nat : (v * 10 + DigitValue(t[i])) % SizeMod \in Nat
  PROVE  /\ LengthStep(t, S) \in [S \X Nat -> Nat]
         /\ \A i \in S, v \in Nat :
              LengthStep(t, S)[<<i, v>>] = (v * 10 + DigitValue(t[i])) % SizeMod
BY DEF LengthStep

(* The length of a well-formed value is the result of the fold.            *)
LEMMA ContentLengthFolds ==
  ASSUME NEW value \in String, ~BadContentLength(value)
  PROVE  \E f \in [SUBSET DOMAIN Trim(value) -> Nat] :
           /\ Folds(f, DOMAIN Trim(value), 0,
                    LengthStep(Trim(value), DOMAIN Trim(value)))
           /\ ContentLength(value) = f[DOMAIN Trim(value)]
<1> DEFINE t == Trim(value)
           S == DOMAIN t
           n == Len(t)
           Walk(h) == [s \in SUBSET S |->
                         IF s = {} THEN 0
                         ELSE (h[s \ {Max(s)}] * 10 + DigitValue(t[Max(s)])) % SizeMod]
           step == LengthStep(t, S)
<1>1. t \in String
  BY TrimIsString DEF Trim
<1>2. n \in Nat /\ S \in SUBSET (1..n)
  <2> HIDE DEF t
  <2> QED
    BY <1>1 DEF String
<1>3. \A i \in S : DigitValue(t[i]) \in Nat
  BY DigitType DEF BadContentLength
<1>4. SizeMod \in Nat \ {0}
  BY SizeAssumption
<1>5. ContentLength(value) = (CHOOSE h : h = Walk(h))[S]
  BY Zenon DEF ContentLength, FoldLeft, MapThenFoldSet
<1> HIDE DEF t, S, n
<1>6. \A i \in S, v \in Nat : (v * 10 + DigitValue(t[i])) % SizeMod \in Nat
  BY <1>3, <1>4
<1>7. /\ step \in [S \X Nat -> Nat]
      /\ \A i \in S, v \in Nat : step[<<i, v>>]
                                  = (v * 10 + DigitValue(t[i])) % SizeMod
  BY <1>6, LengthStepIs
<1> HIDE DEF step
<1>8. \A i \in S, v \in Nat : step[<<i, v>>] = (v * 10 + DigitValue(t[i])) % SizeMod
  BY <1>7
<1>9. ASSUME NEW s \in SUBSET S, s # {}
      PROVE  Max(s) \in S /\ s \ {Max(s)} \in SUBSET S
  <2>1. s \in SUBSET (0..n)
    BY <1>2
  <2> QED
    BY <1>2, <1>9, <2>1, MaxOfNats
<1>10. PICK iter \in [SUBSET S -> Nat] : Folds(iter, S, 0, step)
  BY <1>2, <1>7, FoldExists
<1>11. iter = Walk(iter)
  <2>1. \A s \in SUBSET S : iter[s] = Walk(iter)[s]
    <3> TAKE s \in SUBSET S
    <3>1. iter[s] = IF s = {} THEN 0 ELSE step[<<Max(s), iter[s \ {Max(s)}]>>]
      BY <1>10, Zenon DEF Folds
    <3>2. s # {} => step[<<Max(s), iter[s \ {Max(s)}]>>]
                      = (iter[s \ {Max(s)}] * 10 + DigitValue(t[Max(s)])) % SizeMod
      BY <1>8, <1>9
    <3> QED
      BY <3>1, <3>2
  <2> QED
    BY <2>1
<1> DEFINE other == CHOOSE h : h = Walk(h)
<1>12. other = Walk(other)
  <2> HIDE DEF Walk
  <2> QED
    BY <1>11
<1> HIDE DEF other
<1>13. ASSUME NEW s \in SUBSET S
       PROVE  other[s] = IF s = {} THEN 0
                         ELSE (other[s \ {Max(s)}] * 10 + DigitValue(t[Max(s)])) % SizeMod
  <2>1. Walk(other)[s]
          = IF s = {} THEN 0
            ELSE (other[s \ {Max(s)}] * 10 + DigitValue(t[Max(s)])) % SizeMod
    OBVIOUS
  <2> HIDE DEF Walk
  <2> QED
    BY <1>12, <2>1
<1> DEFINE T == {s \in SUBSET S : other[s] \in Nat}
<1>14. {} \in T
  <2>1. {} \in SUBSET S
    OBVIOUS
  <2>2. other[{}] = 0
    BY <1>13, <2>1
  <2> QED
    BY <2>1, <2>2
<1>15. ASSUME NEW s \in SUBSET S, s # {}, s \ {Max(s)} \in T
       PROVE  s \in T
  <2> DEFINE m == Max(s)
             v == other[s \ {m}]
  <2>1. m \in S /\ v \in Nat
    BY <1>9, <1>15
  <2>2. other[s] = (v * 10 + DigitValue(t[m])) % SizeMod
    BY <1>13, <1>15
  <2> HIDE DEF m, v
  <2>3. other[s] \in Nat
    BY <1>6, <2>1, <2>2
  <2> QED
    BY <2>3
<1>16. SUBSET S \subseteq T
  <2> HIDE DEF T
  <2> QED
    BY <1>2, <1>14, <1>15, SubsetsByInduction
<1>17. other \in [SUBSET S -> Nat]
  <2>1. other = [s \in SUBSET S |-> other[s]]
    BY <1>12
  <2> QED
    BY <1>16, <2>1
<1>18. Folds(other, S, 0, step)
  <2> SUFFICES ASSUME NEW s \in SUBSET S, s # {}
               PROVE  (other[s \ {Max(s)}] * 10 + DigitValue(t[Max(s)])) % SizeMod
                        = step[<<Max(s), other[s \ {Max(s)}]>>]
    BY <1>13 DEF Folds
  <2>1. Max(s) \in S /\ other[s \ {Max(s)}] \in Nat
    BY <1>9, <1>17
  <2> QED
    BY <1>8, <2>1
<1> QED
  BY <1>5, <1>17, <1>18 DEF other, S, t, step

(* Whatever wraps around, a well-formed Content-Length is a number.        *)
LEMMA ContentLengthType ==
  ASSUME NEW value \in String, ~BadContentLength(value)
  PROVE  ContentLength(value) \in Nat
BY ContentLengthFolds



(* A value that is found is the value of a header.                         *)
LEMMA HeaderGetFinds ==
  ASSUME NEW h, NEW name, HeaderGet(h, name) # None
  PROVE  \E i \in DOMAIN h : HeaderGet(h, name) = <<h[i].value>>
<1>1. Places(h, name) # {} /\ Places(h, name) \subseteq DOMAIN h
  BY DEF HeaderGet, Places
<1> DEFINE i == CHOOSE j \in Places(h, name) : TRUE
<1>2. i \in DOMAIN h
  BY <1>1
<1>3. HeaderGet(h, name) = <<h[i].value>>
  BY <1>1 DEF HeaderGet, Some
<1> QED
  BY <1>2, <1>3

(* The value of a header is a string.                                      *)
LEMMA HeaderValue ==
  ASSUME NEW h \in HeaderLists, NEW name, HeaderGet(h, name) # None
  PROVE  HeaderGet(h, name)[1] \in String
<1>1. PICK i \in DOMAIN h : HeaderGet(h, name) = <<h[i].value>>
  BY HeaderGetFinds
<1>2. h[i] \in [name : String, value : String]
  <2> DEFINE Header == [name : String, value : String]
  <2>1. h \in Seq(Header)
    BY DEF HeaderLists
  <2> HIDE DEF Header
  <2>2. h[i] \in Header
    BY <1>1, <2>1
  <2> QED
    BY <2>2 DEF Header
<1> QED
  BY <1>1, <1>2

-----------------------------------------------------------------------------
(* Pieces of the stream.                                                   *)

(* The strings that stand somewhere in w.                                  *)
Pieces(w) ==
  {v \in String : \E k \in 0..Len(w) : /\ k + Len(v) <= Len(w)
                                      /\ \A i \in 1..Len(v) : v[i] = w[k + i]}

(* A subsequence of a string is a piece of it.                             *)
LEMMA SubSeqIsPiece ==
  ASSUME NEW s \in String, NEW a \in Nat \ {0}, NEW b \in Nat, b <= Len(s)
  PROVE  SubSeq(s, a, b) \in Pieces(s)
<1> DEFINE v == SubSeq(s, a, b)
           k == IF a <= b THEN a - 1 ELSE 0
<1>1. v \in String
  BY PieceIsString
<1>2. \A i \in a..b : s[i] \in Octet
  BY DEF String
<1>3. /\ Len(v) = IF a <= b THEN b - a + 1 ELSE 0
      /\ \A i \in 1..(b - a + 1) : v[i] = s[a + i - 1]
  BY <1>2, SubSeqProperties
<1>4. Len(s) \in Nat
  BY DEF String
<1> HIDE DEF v
<1>5. k \in 0..Len(s) /\ k + Len(v) <= Len(s)
  BY <1>3, <1>4
<1>6. \A i \in 1..Len(v) : v[i] = s[k + i]
  <2> TAKE i \in 1..Len(v)
  <2>1. a <= b /\ i \in 1..(b - a + 1)
    BY <1>3
  <2>2. a + i - 1 = k + i
    BY <2>1
  <2> QED
    BY <1>3, <2>1, <2>2
<1> HIDE DEF k
<1> QED
  BY <1>1, <1>5, <1>6 DEF Pieces, v

(* A piece of a piece is a piece.                                          *)
LEMMA PieceOfPiece ==
  ASSUME NEW w \in String, NEW s \in Pieces(w), NEW v \in Pieces(s)
  PROVE  v \in Pieces(w)
<1>1. Len(w) \in Nat /\ Len(s) \in Nat /\ Len(v) \in Nat /\ v \in String
  BY DEF Pieces, String
<1>2. PICK k \in 0..Len(w) : /\ k + Len(s) <= Len(w)
                             /\ \A i \in 1..Len(s) : s[i] = w[k + i]
  BY DEF Pieces
<1>3. PICK j \in 0..Len(s) : /\ j + Len(v) <= Len(s)
                             /\ \A i \in 1..Len(v) : v[i] = s[j + i]
  BY DEF Pieces
<1> DEFINE a == k + j
<1>4. a \in 0..Len(w) /\ a + Len(v) <= Len(w)
  BY <1>1, <1>2, <1>3
<1>5. \A i \in 1..Len(v) : v[i] = w[a + i]
  <2> TAKE i \in 1..Len(v)
  <2>1. j + i \in 1..Len(s) /\ k + (j + i) = a + i
    BY <1>1, <1>2, <1>3
  <2> QED
    BY <1>2, <1>3, <2>1
<1> HIDE DEF a
<1> QED
  BY <1>1, <1>4, <1>5 DEF Pieces

(* Trimming leaves a piece.                                                *)
LEMMA TrimmedPiece ==
  ASSUME NEW w \in String, NEW s \in Pieces(w)
  PROVE  TrimLeft(s) \in Pieces(w)
<1>1. s \in String /\ Len(s) \in Nat
  BY DEF Pieces, String
<1>2. Ink(s) \in SUBSET Nat /\ \A i \in Ink(s) : i \in 1..Len(s)
  BY <1>1 DEF Ink, String
<1>3. TrimLeft(s) \in Pieces(s)
  <2>1. CASE Ink(s) = {}
    <3>1. SubSeq(s, 1, 0) \in Pieces(s) /\ SubSeq(s, 1, 0) = <<>>
      BY <1>1, SubSeqIsPiece
    <3> QED
      BY <2>1, <3>1 DEF TrimLeft
  <2>2. CASE Ink(s) # {}
    <3> DEFINE m == Min(Ink(s))
    <3>1. m \in Ink(s)
      BY <1>2, <2>2, MinOfNats
    <3>2. m \in Nat \ {0}
      BY <1>2, <3>1
    <3>3. TrimLeft(s) = SubSeq(s, m, Len(s))
      BY <2>2 DEF TrimLeft
    <3> HIDE DEF m
    <3> QED
      BY <1>1, <3>2, <3>3, SubSeqIsPiece
  <2> QED
    BY <2>1, <2>2
<1> QED
  BY <1>3, PieceOfPiece

-----------------------------------------------------------------------------
(* Where the values of the headers come from.                              *)

ValuesIn(h, V) == \A i \in DOMAIN h : h[i].value \in V

(* Setting a header adds no value but the one given.                       *)
LEMMA SetValuesIn ==
  ASSUME NEW h \in HeaderLists, NEW name, NEW V, NEW value \in V,
         ValuesIn(h, V)
  PROVE  ValuesIn(HeaderSet(h, name, value), V)
<1> DEFINE g == HeaderSet(h, name, value)
           entry == [name |-> ToLower(name), value |-> value]
           n == Len(h)
<1>1. /\ n \in Nat /\ DOMAIN h = 1..n
      /\ \A i \in DOMAIN h : h[i] \in [name : String, value : String]
  <2> DEFINE Header == [name : String, value : String]
  <2>1. h \in Seq(Header)
    BY DEF HeaderLists
  <2> HIDE DEF Header
  <2>2. n \in Nat /\ DOMAIN h = 1..n /\ \A i \in DOMAIN h : h[i] \in Header
    BY <2>1
  <2> QED
    BY <2>2 DEF Header
<1>2. CASE Places(h, name) # {}
  <2> SUFFICES ASSUME NEW i \in DOMAIN g PROVE g[i].value \in V
    BY DEF ValuesIn
  <2>1. /\ i \in DOMAIN h
        /\ g[i] = IF i \in Places(h, name) THEN [h[i] EXCEPT !.value = value]
                  ELSE h[i]
    BY <1>2 DEF HeaderSet
  <2>2. [h[i] EXCEPT !.value = value].value = value
    BY <1>1, <2>1
  <2>3. h[i].value \in V
    BY <2>1 DEF ValuesIn
  <2> HIDE DEF g
  <2> QED
    BY <2>1, <2>2, <2>3
<1>3. CASE Places(h, name) = {}
  <2> SUFFICES ASSUME NEW i \in DOMAIN g PROVE g[i].value \in V
    BY DEF ValuesIn
  <2>1. g = Append(h, entry)
    BY <1>3 DEF HeaderSet
  <2>2. entry.value = value
    OBVIOUS
  <2> HIDE DEF entry, g
  <2>3. DOMAIN g = 1..(n + 1) /\ g[n + 1] = entry /\ \A j \in 1..n : g[j] = h[j]
    <3> DEFINE E == {h[j] : j \in 1..n} \cup {entry}
    <3>1. h \in Seq(E) /\ entry \in E
      <4>1. h \in [1..n -> E] /\ n \in Nat
        BY <1>1 DEF HeaderLists
      <4> QED
        BY <4>1
    <3> HIDE DEF E
    <3>2. /\ g \in Seq(E) /\ Len(g) = Len(h) + 1 /\ g[Len(h) + 1] = entry
          /\ \A j \in 1..Len(h) : g[j] = h[j]
      BY <2>1, <3>1, AppendProperties
    <3> QED
      BY <3>2
  <2>4. i \in 1..n \/ i = n + 1
    BY <1>1, <2>3
  <2>5. i \in 1..n => h[i].value \in V
    BY <1>1 DEF ValuesIn
  <2> QED
    BY <2>2, <2>3, <2>4, <2>5
<1> QED
  BY <1>2, <1>3

(* The text behind the first colon of a line.                              *)
BehindColon(line) ==
  TrimLeft(SubSeq(line, Min(Occurrences(COLON, line)) + 1, Len(line)))

(* The values of a head come from behind the colons of its lines.          *)
LEMMA LineValuesIn ==
  ASSUME NEW n \in Nat, NEW S \in SUBSET (1..n), NEW lines, NEW V,
         \A p \in S : HasColon(lines[p]) /\ BehindColon(lines[p]) \in V
  PROVE  HeadersAt(lines, S) \in HeaderLists /\ ValuesIn(HeadersAt(lines, S), V)
<1>1. PICK iter \in [SUBSET S -> HeaderLists] :
        /\ Folds(iter, S, EmptyHeaders, LineStep(lines, S))
        /\ HeadersAt(lines, S) = iter[S]
  BY HeadersAreFolded
<1> DEFINE T == {s \in SUBSET S : ValuesIn(iter[s], V)}
<1>2. {} \in T
  <2>1. {} \in SUBSET S
    OBVIOUS
  <2>2. iter[{}] = <<>>
    BY <1>1, <2>1, Zenon DEF Folds, EmptyHeaders
  <2>3. ValuesIn(<<>>, V)
    BY DEF ValuesIn
  <2> QED
    BY <2>1, <2>2, <2>3
<1>3. ASSUME NEW s \in SUBSET S, s # {}, s \ {Max(s)} \in T
      PROVE  s \in T
  <2> DEFINE m == Max(s)
             h == iter[s \ {m}]
  <2>1. m \in S
    <3>1. s \in SUBSET (0..n)
      OBVIOUS
    <3> QED
      BY <1>3, <3>1, MaxOfNats
  <2>2. h \in HeaderLists /\ ValuesIn(h, V)
    BY <1>1, <1>3
  <2>3. iter[s] = LineStep(lines, S)[<<m, h>>]
    BY <1>1, <1>3, Zenon DEF Folds
  <2> HIDE DEF m, h
  <2>4. iter[s] = AddHeaderLine(lines[m], h)
    BY <2>1, <2>2, <2>3, LineStepIs
  <2> DEFINE name == Trim(SubSeq(lines[m], 1, Min(Occurrences(COLON, lines[m])) - 1))
             value == BehindColon(lines[m])
  <2>5. iter[s] = HeaderSet(h, name, value)
    BY <2>4, Zenon DEF AddHeaderLine, BehindColon
  <2>6. value \in V
    BY <2>1
  <2> HIDE DEF name, value
  <2>7. ValuesIn(iter[s], V)
    BY <2>2, <2>5, <2>6, SetValuesIn
  <2> QED
    BY <2>7
<1>4. SUBSET S \subseteq T
  <2> HIDE DEF T
  <2> QED
    BY <1>2, <1>3, SubsetsByInduction
<1> QED
  BY <1>1, <1>4

(* Between its first and its last line, the head of a request has headers. *)
LEMMA HeaderLinesHaveColons ==
  ASSUME NEW s \in String, \A p \in HeadEnds(s) : ~Malformed(s, p),
         NEW p \in HeadEnds(s) \ {Min(HeadEnds(s)), Max(HeadEnds(s))}
  PROVE  /\ HasColon(LineAt(s, p))
         /\ BehindColon(LineAt(s, p)) \in Pieces(s)
<1>1. /\ Len(s) \in Nat
      /\ \A q \in HeadEnds(s) : q \in CRLFs(s) /\ q \in Nat /\ q + 1 <= Len(s)
  BY CRLFsType DEF HeadEnds, String
<1>2. /\ HeadEnds(s) \in SUBSET Nat /\ HeadEnds(s) \in SUBSET (0..Len(s))
      /\ HeadEnds(s) # {}
  BY <1>1
<1> DEFINE first == Min(HeadEnds(s))
           last == Max(HeadEnds(s))
<1>3. first \in HeadEnds(s) /\ first <= p
  BY <1>2, MinOfNats
<1>4. last \in HeadEnds(s) /\ p <= last
  BY <1>1, <1>2, MaxOfNats
<1>5. p # first /\ p # last
  OBVIOUS
<1> HIDE DEF first, last
<1>6. ~IsRequestLine(s, p)
  <2>1. first \in CRLFs(s) /\ ~(p <= first)
    BY <1>1, <1>3, <1>5
  <2> QED
    BY <2>1 DEF IsRequestLine
<1>7. ~IsBlankLine(s, p)
  <2>1. p \in CRLFs(s) /\ p < last
    BY <1>1, <1>4, <1>5
  <2> QED
    BY <1>4, <2>1 DEF HeadEnds
<1>8. ~BadHeaderLine(LineAt(s, p))
  BY <1>6, <1>7 DEF Malformed
<1> DEFINE line == LineAt(s, p)
<1>9. line \in Pieces(s)
  <2>1. LineStart(s, p) \in Nat \ {0}
    <3> DEFINE Starts == {1} \cup {q + 2 : q \in {r \in CRLFs(s) : r < p}}
               n == Len(s) + 2
    <3>1. n \in Nat /\ 1 \in 1..n /\ \A r \in CRLFs(s) : r + 2 \in 1..n
      <4>1. \A r \in CRLFs(s) : r \in Nat /\ r + 1 <= Len(s)
        BY CRLFsType
      <4> QED
        BY <1>1, <4>1
    <3> HIDE DEF n
    <3>2. Starts \in SUBSET (1..n) /\ Starts \in SUBSET (0..n) /\ Starts # {}
      BY <3>1
    <3> HIDE DEF Starts
    <3>3. Max(Starts) \in Starts
      BY <3>1, <3>2, MaxOfNats
    <3>4. Max(Starts) \in Nat \ {0}
      <4>1. Max(Starts) \in 1..n
        BY <3>2, <3>3, Zenon
      <4> QED
        BY <3>1, <4>1
    <3> QED
      BY <3>4 DEF LineStart, Starts
  <2>2. p - 1 \in Nat /\ p - 1 <= Len(s)
    <3>1. p \in Nat /\ 1 <= p /\ p + 1 <= Len(s)
      BY <1>1, CRLFsType
    <3> QED
      BY <1>1, <3>1
  <2> DEFINE a == LineStart(s, p)
             b == p - 1
  <2>3. line = SubSeq(s, a, b)
    BY DEF LineAt
  <2> HIDE DEF a, b
  <2> QED
    BY <2>1, <2>2, <2>3, SubSeqIsPiece DEF a, b
<1> HIDE DEF line
<1>10. line \in String /\ Len(line) \in Nat
  BY <1>9 DEF Pieces, String
<1>11. Occurrences(COLON, line) # {}
  BY <1>8 DEF BadHeaderLine, line
<1> DEFINE colon == Min(Occurrences(COLON, line))
<1>12. colon \in Nat
  <2>1. Occurrences(COLON, line) \in SUBSET Nat
    BY <1>10 DEF Occurrences, String
  <2> QED
    BY <1>11, <2>1, MinOfNats
<1>13. BehindColon(line) = TrimLeft(SubSeq(line, colon + 1, Len(line)))
  BY DEF BehindColon
<1> HIDE DEF colon
<1>14. SubSeq(line, colon + 1, Len(line)) \in Pieces(line)
  BY <1>10, <1>12, SubSeqIsPiece
<1>15. BehindColon(line) \in Pieces(line)
  BY <1>10, <1>13, <1>14, TrimmedPiece
<1>16. BehindColon(line) \in Pieces(s)
  BY <1>9, <1>15, PieceOfPiece
<1> QED
  BY <1>10, <1>11, <1>16 DEF HasColon, line

(* What a request that was decoded says of its body: it is absent unless   *)
(* it was declared, and as long as the code takes the declared length to   *)
(* be.                                                                     *)
LEMMA DecodedBody ==
  ASSUME NEW s \in String, Len(s) <= MaxString,
         NEW r, NEW c \in 1..Len(s), Decode(s) = Parsed(r, c)
  PROVE  LET declared == HeaderGet(r.headers, ContentLengthName)
         IN  /\ declared = None => r.body = None
             /\ declared # None =>
                  /\ declared[1] \in Pieces(s)
                  /\ ~BadContentLength(declared[1])
                  /\ r.body # None
                  /\ Len(r.body[1]) = ContentLength(declared[1])
<1>1. Len(s) \in Nat
  BY DEF String
<1>2. /\ \A p \in HeadEnds(s) : ~Malformed(s, p)
      /\ HeadComplete(s)
      /\ Decode(s) = DecodeHead(s, HeadLines(s))
  BY DEF Decode, Throws, Incomplete, Parsed
<1> DEFINE lines == HeadLines(s)
           headers == HeadersOf(lines)
           position == Max(DOMAIN lines) + 1
           declared == HeaderGet(headers, ContentLengthName)
           length == ContentLength(declared[1])
           S == HeadEnds(s) \ {Min(HeadEnds(s)), Max(HeadEnds(s))}
<1>3. position \in 2..Len(s)
  BY <1>2, HeadFits
<1>4. DOMAIN lines = HeadEnds(s)
      /\ \A p \in HeadEnds(s) : lines[p] = LineAt(s, p)
  BY DEF HeadLines
<1>5. headers = HeadersAt(lines, S)
  BY <1>4, Zenon DEF HeadersOf, HeadersAt
<1>6. S \in SUBSET (1..Len(s))
  <2>1. \A p \in HeadEnds(s) : p \in Nat /\ 1 <= p /\ p + 1 <= Len(s)
    BY CRLFsType DEF HeadEnds
  <2> QED
    BY <1>1, <2>1
<1>7. \A p \in S : HasColon(lines[p]) /\ BehindColon(lines[p]) \in Pieces(s)
  BY <1>2, <1>4, HeaderLinesHaveColons
<1> HIDE DEF lines, S
<1>8. headers \in HeaderLists /\ ValuesIn(headers, Pieces(s))
  BY <1>1, <1>5, <1>6, <1>7, LineValuesIn
<1> HIDE DEF headers
<1>9. declared # None => declared[1] \in Pieces(s) /\ declared[1] \in String
  BY <1>8, HeaderGetFinds DEF ValuesIn, Pieces
<1>10. CASE declared = None
  <2>1. DecodeHead(s, lines) = Parsed(RequestOf(lines, None, headers), position)
    BY <1>10 DEF DecodeHead, headers
  <2> HIDE DEF position, declared
  <2>2. r = RequestOf(lines, None, headers)
    BY <1>2, <2>1 DEF Parsed, lines
  <2>3. r.body = None /\ r.headers = headers
    BY <2>2 DEF RequestOf, NewRequest
  <2> QED
    BY <1>10, <2>3 DEF declared
<1>11. CASE declared # None /\ BadContentLength(declared[1])
  <2>1. DecodeHead(s, lines) = Throws("invalid_argument")
    BY <1>11 DEF DecodeHead, headers
  <2> QED
    BY <1>2, <2>1 DEF Throws, Parsed, lines
<1>12. CASE declared # None /\ ~BadContentLength(declared[1])
  <2>1. DecodeHead(s, lines) = DecodeBody(s, lines, headers, position, length)
    BY <1>12 DEF DecodeHead, headers
  <2>2. length \in Nat
    BY <1>9, <1>12, ContentLengthType
  <2> HIDE DEF position, declared, length
  <2>3. DecodeBody(s, lines, headers, position, length) = Parsed(r, c)
    BY <1>2, <2>1 DEF lines
  <2> DEFINE end == (position + length) % SizeMod
  <2>4. /\ end \in 0..Len(s) /\ length \in 0..MaxString
        /\ r = RequestOf(lines, BodyAt(s, position, length), headers)
    <3>1. DecodeBody(s, lines, headers, position, length)
            = IF end \notin 0..Len(s) THEN Incomplete
              ELSE IF length \notin 0..MaxString THEN Throws("length_error")
              ELSE Parsed(RequestOf(lines, BodyAt(s, position, length), headers),
                          position + length)
      BY Zenon DEF DecodeBody
    <3> HIDE DEF end
    <3> QED
      BY <2>3, <3>1 DEF Incomplete, Throws, Parsed
  <2>5. position + length <= Len(s)
    <3>1. end = position + length
      BY <1>1, <1>3, <2>2, <2>4, SizeAssumption, SumDoesNotWrap
    <3> QED
      BY <1>1, <2>4, <3>1
  <2>6. /\ r.body = <<SubSeq(s, position + 1, position + length)>>
        /\ r.headers = headers
    BY <2>4 DEF RequestOf, NewRequest, BodyAt, Some
  <2>7. Len(SubSeq(s, position + 1, position + length)) = length
    <3> DEFINE a == position + 1
               b == position + length
    <3>1. a \in Int /\ b \in Int /\ (IF a <= b THEN b - a + 1 ELSE 0) = length
      BY <1>1, <1>3, <2>2
    <3>2. \A i \in a..b : s[i] \in Octet
      BY <1>1, <1>3, <2>2, <2>5 DEF String
    <3> HIDE DEF a, b
    <3>3. Len(SubSeq(s, a, b)) = IF a <= b THEN b - a + 1 ELSE 0
      BY <3>1, <3>2, SubSeqProperties
    <3> QED
      BY <3>1, <3>3 DEF a, b
  <2>8. r.body # None /\ Len(r.body[1]) = length
    <3> DEFINE body == SubSeq(s, position + 1, position + length)
    <3>1. r.body = <<body>> /\ Len(body) = length
      BY <2>6, <2>7
    <3> HIDE DEF body
    <3> QED
      BY <3>1 DEF None
  <2> QED
    BY <1>9, <1>12, <2>6, <2>8 DEF declared, length
<1> QED
  BY <1>10, <1>11, <1>12
-----------------------------------------------------------------------------
(* Writing lines.                                                          *)

(* Each octet of a concatenation stands in one of its parts.               *)
LEMMA ConcatOctets ==
  ASSUME NEW a \in String, NEW b \in String
  PROVE  /\ a \o b \in String
         /\ Len(a) \in Nat /\ Len(b) \in Nat
         /\ Len(a \o b) = Len(a) + Len(b)
         /\ \A i \in 1..Len(a) : (a \o b)[i] = a[i]
         /\ \A i \in 1..Len(b) : (a \o b)[Len(a) + i] = b[i]
<1>1. Len(a) \in Nat /\ Len(b) \in Nat
  BY DEF String
<1>2. /\ a \o b \in String
      /\ Len(a \o b) = Len(a) + Len(b)
      /\ \A i \in 1..(Len(a) + Len(b)) :
           (a \o b)[i] = IF i <= Len(a) THEN a[i] ELSE b[i - Len(a)]
  BY ConcatProperties DEF String
<1> DEFINE c == a \o b
<1> HIDE DEF c
<1>3. \A i \in 1..Len(a) : c[i] = a[i]
  BY <1>1, <1>2 DEF c
<1>4. \A i \in 1..Len(b) : c[Len(a) + i] = b[i]
  <2> TAKE i \in 1..Len(b)
  <2>1. /\ Len(a) + i \in 1..(Len(a) + Len(b)) /\ ~(Len(a) + i <= Len(a))
        /\ Len(a) + i - Len(a) = i
    BY <1>1
  <2> QED
    BY <1>2, <2>1 DEF c
<1> QED
  BY <1>1, <1>2, <1>3, <1>4 DEF c

(* A part of a string that reads v is v.                                   *)
LEMMA SubSeqReads ==
  ASSUME NEW w \in String, NEW v \in String, NEW k \in Nat,
         k + Len(v) <= Len(w), \A i \in 1..Len(v) : w[k + i] = v[i]
  PROVE  SubSeq(w, k + 1, k + Len(v)) = v
<1>1. Len(v) \in Nat /\ Len(w) \in Nat
  BY DEF String
<1> DEFINE a == k + 1
           b == k + Len(v)
           u == SubSeq(w, a, b)
<1>2. a \in Int /\ b \in Int /\ b - a + 1 = Len(v)
      /\ (IF a <= b THEN b - a + 1 ELSE 0) = Len(v)
  BY <1>1
<1>3. \A i \in a..b : w[i] \in Octet
  BY <1>1 DEF String
<1>4. \A i \in 1..Len(v) : a + i - 1 = k + i
  BY <1>1
<1> HIDE DEF a, b
<1>5. /\ u \in Seq(Octet)
      /\ Len(u) = Len(v)
      /\ \A i \in 1..Len(v) : u[i] = w[a + i - 1]
  BY <1>2, <1>3, SubSeqProperties
<1>6. \A i \in 1..Len(v) : u[i] = v[i]
  BY <1>4, <1>5
<1> HIDE DEF u
<1>7. u = v
  BY <1>5, <1>6, SeqEqual DEF String
<1> QED
  BY <1>7 DEF u, a, b

LineEnd == <<CR, LF>>

(* A string without a line end in it.                                      *)
Clean(v) == v \in String /\ CRLFs(v) = {}

(* Nothing written so far, or whole lines.                                 *)
WholeLines(t) == t \in String /\ (t # <<>> => Len(t) - 1 \in CRLFs(t))

(* t with the line l behind it.                                            *)
Added(t, l) == t \o (l \o LineEnd)

(* A clean line that is added to whole lines adds one line end, behind it. *)
LEMMA LineAdded ==
  ASSUME NEW t, WholeLines(t), NEW l, Clean(l),
         NEW u, u = Added(t, l)
  PROVE  /\ WholeLines(u) /\ Len(u) = Len(t) + Len(l) + 2
         /\ Len(t) \in Nat /\ Len(l) \in Nat
         /\ Arrived(t, u)
         /\ CRLFs(u) = CRLFs(t) \cup {Len(u) - 1}
         /\ SubSeq(u, Len(t) + 1, Len(u) - 2) = l
<1> DEFINE x == l \o LineEnd
           n == Len(t)
           k == Len(l)
<1>1. LineEnd \in String /\ Len(LineEnd) = 2 /\ LineEnd[1] = CR
      /\ LineEnd[2] = LF
  BY OctetAssumption DEF LineEnd, String
<1>2. /\ x \in String /\ k \in Nat /\ Len(x) = k + 2
      /\ \A i \in 1..k : x[i] = l[i]
      /\ x[k + 1] = CR /\ x[k + 2] = LF
  <2> DEFINE e == LineEnd
  <2>1. l \in String /\ e \in String /\ Len(e) = 2
    BY <1>1 DEF Clean
  <2> HIDE DEF e
  <2>2. /\ l \o e \in String /\ k \in Nat /\ Len(l \o e) = k + Len(e)
        /\ \A i \in 1..k : (l \o e)[i] = l[i]
        /\ \A i \in 1..Len(e) : (l \o e)[k + i] = e[i]
    BY <2>1, ConcatOctets
  <2>3. e[1] = CR /\ e[2] = LF /\ 1 \in 1..Len(e) /\ 2 \in 1..Len(e)
    BY <1>1, <2>1 DEF e
  <2>4. (l \o e)[k + 1] = CR /\ (l \o e)[k + 2] = LF
    BY <2>2, <2>3
  <2> QED
    BY <2>1, <2>2, <2>4 DEF e
<1> HIDE DEF x
<1>3. /\ u \in String /\ n \in Nat /\ Len(u) = n + (k + 2)
      /\ \A i \in 1..n : u[i] = t[i]
      /\ \A i \in 1..(k + 2) : u[n + i] = x[i]
  <2>1. t \in String /\ x \in String /\ Len(x) = k + 2 /\ u = t \o x
    BY <1>2 DEF WholeLines, x, Added
  <2>2. /\ t \o x \in String /\ n \in Nat /\ Len(t \o x) = n + Len(x)
        /\ \A i \in 1..n : (t \o x)[i] = t[i]
        /\ \A i \in 1..Len(x) : (t \o x)[n + i] = x[i]
    BY <2>1, ConcatOctets
  <2> QED
    BY <2>1, <2>2
<1>4. \A i \in 1..k : u[n + i] = l[i]
  BY <1>2, <1>3
<1>5. u[n + k + 1] = CR /\ u[n + k + 2] = LF
  <2>1. k + 1 \in 1..(k + 2) /\ k + 2 \in 1..(k + 2)
        /\ n + (k + 1) = n + k + 1 /\ n + (k + 2) = n + k + 2
    BY <1>2, <1>3
  <2> QED
    BY <1>2, <1>3, <2>1
<1> HIDE DEF n, k
<1>6. Len(u) = n + k + 2
  BY <1>2, <1>3
<1>8. Arrived(t, u)
  BY <1>2, <1>3 DEF Arrived, WholeLines, n
<1>9. ASSUME NEW p, p \in CRLFs(u), p \notin CRLFs(t)
      PROVE  p = Len(u) - 1
  <2>1. p \in 1..(n + k + 1) /\ u[p] = CR /\ u[p + 1] = LF
    BY <1>2, <1>3, <1>6, <1>9 DEF CRLFs
  <2>2. CASE p < n
    <3>1. p \in 1..(n - 1) /\ p \in 1..n /\ p + 1 \in 1..n
      BY <1>2, <1>3, <2>1, <2>2
    <3>2. t[p] = CR /\ t[p + 1] = LF
      BY <1>3, <2>1, <3>1
    <3> QED
      BY <1>9, <3>1, <3>2 DEF CRLFs, n
  <2>3. CASE p = n
    <3>1. t # <<>> /\ t[n] = CR
      BY <1>3, <2>1, <2>3 DEF n
    <3>2. n - 1 \in CRLFs(t) /\ n - 1 + 1 = n
      BY <1>3, <3>1 DEF WholeLines, n
    <3>3. t[n] = LF
      BY <3>2 DEF CRLFs
    <3> QED
      BY <3>1, <3>3 DEF CR, LF
  <2>4. CASE n < p /\ p < n + k
    <3> DEFINE i == p - n
    <3>1. i \in 1..(k - 1) /\ i + 1 \in 1..k /\ p = n + i /\ p + 1 = n + (i + 1)
      BY <1>2, <1>3, <2>1, <2>4
    <3> HIDE DEF i
    <3>2. l[i] = CR /\ l[i + 1] = LF
      <4>1. i \in 1..k
        BY <1>2, <3>1
      <4>2. u[n + i] = l[i] /\ u[n + (i + 1)] = l[i + 1]
        BY <1>4, <3>1, <4>1
      <4> QED
        BY <2>1, <3>1, <4>2
    <3>3. i \in CRLFs(l)
      BY <3>1, <3>2 DEF CRLFs, k
    <3> QED
      BY <3>3 DEF Clean
  <2>5. CASE p = n + k
    BY <1>5, <2>1, <2>5 DEF CR, LF
  <2>6. CASE p = n + k + 1
    BY <1>2, <1>3, <1>6, <2>6
  <2> QED
    BY <1>2, <1>3, <2>1, <2>2, <2>3, <2>4, <2>5, <2>6
<1>10. Len(u) - 1 \in CRLFs(u)
  <2>1. Len(u) - 1 = n + k + 1 /\ Len(u) - 1 + 1 = n + k + 2
        /\ Len(u) - 1 \in 1..(Len(u) - 1)
    BY <1>2, <1>3, <1>6
  <2> QED
    BY <1>5, <2>1 DEF CRLFs
<1>7. WholeLines(u)
  BY <1>3, <1>10 DEF WholeLines
<1>11. CRLFs(t) \subseteq CRLFs(u)
  BY <1>8, CRLFsOfPrefix
<1>12. SubSeq(u, n + 1, n + k) = l
  <2>1. l \in String /\ k = Len(l) /\ n + k <= Len(u)
    BY <1>2, <1>3, <1>6 DEF Clean, k
  <2> QED
    BY <1>3, <1>4, <2>1, SubSeqReads
<1>13. Len(u) - 2 = n + k
  BY <1>2, <1>3, <1>6
<1> QED
  BY <1>2, <1>3, <1>6, <1>7, <1>8, <1>9, <1>10, <1>11, <1>12, <1>13 DEF n, k

-----------------------------------------------------------------------------
(* Writing headers.                                                        *)

(* A header that a decoder reads as it was written: a name that is folded, *)
(* trimmed and not empty, without a colon, and a value that is trimmed on  *)
(* the left, neither with a line end in it.                                *)
NameReads(name) ==
  /\ Clean(name) /\ name # <<>>
  /\ ToLower(name) = name
  /\ Occurrences(COLON, name) = {}
  /\ ~IsSpace(name[1]) /\ ~IsSpace(name[Len(name)])
ValueReads(value) == Clean(value) /\ (value # <<>> => ~IsSpace(value[1]))

HeaderLine(name, value) == name \o <<COLON, SP>> \o value

(* The octets of such a line.                                              *)
LEMMA HeaderLineOctets ==
  ASSUME NEW name \in String, NEW value \in String
  PROVE  LET line == HeaderLine(name, value)
         IN  /\ line \in String /\ Len(name) \in Nat /\ Len(value) \in Nat
             /\ Len(line) = Len(name) + 2 + Len(value)
             /\ \A i \in 1..Len(name) : line[i] = name[i]
             /\ line[Len(name) + 1] = COLON /\ line[Len(name) + 2] = SP
             /\ \A i \in 1..Len(value) : line[Len(name) + 2 + i] = value[i]
<1> DEFINE line == HeaderLine(name, value)
           e == <<COLON, SP>>
           a == name \o e
           n == Len(name)
<1>1. e \in String /\ Len(e) = 2 /\ e[1] = COLON /\ e[2] = SP
  BY OctetAssumption DEF String
<1> HIDE DEF e
<1>2. /\ a \in String /\ n \in Nat /\ Len(a) = n + Len(e)
      /\ \A i \in 1..n : a[i] = name[i]
      /\ \A i \in 1..Len(e) : a[n + i] = e[i]
  BY <1>1, ConcatOctets
<1>3. 1 \in 1..Len(e) /\ 2 \in 1..Len(e)
  BY <1>1
<1>4. a[n + 1] = COLON /\ a[n + 2] = SP /\ Len(a) = n + 2
  BY <1>1, <1>2, <1>3
<1>5. line = a \o value
  BY Zenon DEF HeaderLine, e
<1> HIDE DEF a
<1> HIDE DEF line
<1>6. /\ a \o value \in String /\ Len(value) \in Nat
      /\ Len(a \o value) = Len(a) + Len(value)
      /\ \A i \in 1..Len(a) : (a \o value)[i] = a[i]
      /\ \A i \in 1..Len(value) : (a \o value)[Len(a) + i] = value[i]
  BY <1>2, ConcatOctets
<1>7. /\ line \in String /\ Len(line) = n + 2 + Len(value)
      /\ \A i \in 1..(n + 2) : line[i] = a[i]
      /\ \A i \in 1..Len(value) : line[n + 2 + i] = value[i]
  BY <1>4, <1>5, <1>6
<1> HIDE DEF n
<1>8. \A i \in 1..n : i \in 1..(n + 2)
  BY <1>2
<1>9. n + 1 \in 1..(n + 2) /\ n + 2 \in 1..(n + 2)
  BY <1>2
<1>10. \A i \in 1..n : line[i] = name[i]
  BY <1>2, <1>7, <1>8
<1>11. line[n + 1] = COLON /\ line[n + 2] = SP
  BY <1>4, <1>7, <1>9
<1> QED
  BY <1>2, <1>6, <1>7, <1>10, <1>11 DEF n, line

(* It has no line end in it.                                               *)
LEMMA HeaderLineIsClean ==
  ASSUME NEW name, NEW value, Clean(name), Clean(value)
  PROVE  Clean(HeaderLine(name, value))
<1> DEFINE line == HeaderLine(name, value)
           n == Len(name)
           k == Len(value)
<1>1. /\ line \in String /\ n \in Nat /\ k \in Nat
      /\ Len(line) = n + 2 + k
      /\ \A i \in 1..n : line[i] = name[i]
      /\ line[n + 1] = COLON /\ line[n + 2] = SP
      /\ \A i \in 1..k : line[n + 2 + i] = value[i]
  BY HeaderLineOctets DEF Clean
<1> HIDE DEF line
<1>2. ASSUME NEW p \in CRLFs(line) PROVE FALSE
  <2>1. p \in 1..(n + 1 + k) /\ line[p] = CR /\ line[p + 1] = LF
    BY <1>1, <1>2 DEF CRLFs
  <2>2. CASE p < n
    <3>1. p \in 1..(n - 1) /\ p \in 1..n /\ p + 1 \in 1..n
      BY <1>1, <2>1, <2>2
    <3>2. name[p] = CR /\ name[p + 1] = LF
      BY <1>1, <2>1, <3>1
    <3> QED
      BY <3>1, <3>2 DEF CRLFs, Clean
  <2>3. CASE p = n \/ p = n + 1 \/ p = n + 2
    <3>1. line[p + 1] = COLON \/ line[p] = COLON \/ line[p] = SP
      BY <1>1, <2>3
    <3> QED
      BY <2>1, <3>1 DEF CR, LF, COLON, SP
  <2>4. CASE n + 2 < p
    <3> DEFINE i == p - (n + 2)
    <3>1. /\ i \in 1..(k - 1) /\ i \in 1..k /\ i + 1 \in 1..k
          /\ p = n + 2 + i /\ p + 1 = n + 2 + (i + 1)
      BY <1>1, <2>1, <2>4
    <3> HIDE DEF i
    <3>2. value[i] = CR /\ value[i + 1] = LF
      <4>1. line[n + 2 + i] = value[i] /\ line[n + 2 + (i + 1)] = value[i + 1]
        BY <1>1, <3>1
      <4> QED
        BY <2>1, <3>1, <4>1
    <3> QED
      BY <3>1, <3>2 DEF CRLFs, Clean
  <2> QED
    BY <1>1, <2>1, <2>2, <2>3, <2>4
<1> QED
  BY <1>1, <1>2 DEF Clean, line

(* The least of some numbers.                                              *)
LEMMA MinIs ==
  ASSUME NEW S \in SUBSET Nat, NEW m \in S, \A y \in S : m <= y
  PROVE  Min(S) = m
<1>1. Min(S) \in S /\ \A y \in S : Min(S) <= y
  BY MinOfNats
<1>2. Min(S) \in Nat /\ m \in Nat /\ Min(S) <= m /\ m <= Min(S)
  BY <1>1
<1> QED
  BY <1>2

(* The greatest.                                                           *)
LEMMA MaxIs ==
  ASSUME NEW n \in Nat, NEW S \in SUBSET (0..n), NEW m \in S, \A y \in S : y <= m
  PROVE  Max(S) = m
<1> DEFINE x == Max(S)
<1>1. x \in S /\ \A y \in S : y <= x
  BY MaxOfNats
<1> HIDE DEF x
<1>2. x \in 0..n /\ m \in 0..n
  BY <1>1
<1>3. x <= m /\ m <= x
  BY <1>1
<1>4. x = m
  BY <1>2, <1>3
<1> QED
  BY <1>4 DEF x

(* A string between two octets that are no blanks is trimmed.              *)
LEMMA NothingToTrim ==
  ASSUME NEW v \in String, v # <<>>, ~IsSpace(v[1])
  PROVE  /\ TrimLeft(v) = v
         /\ ~IsSpace(v[Len(v)]) => Trim(v) = v
<1>1. Len(v) \in Nat \ {0} /\ DOMAIN v = 1..Len(v)
  BY EmptySeq DEF String
<1>2. SubSeq(v, 1, Len(v)) = v
  <2>1. 0 \in Nat /\ 0 + Len(v) = Len(v) /\ \A i \in 1..Len(v) : v[0 + i] = v[i]
    BY <1>1
  <2> QED
    BY <2>1, SubSeqReads
<1>3. Ink(v) \in SUBSET (1..Len(v)) /\ 1 \in Ink(v) /\ Ink(v) # {}
  BY <1>1 DEF Ink
<1>4. Min(Ink(v)) = 1
  <2>1. Ink(v) \in SUBSET Nat /\ \A y \in Ink(v) : 1 <= y
    BY <1>1, <1>3
  <2> QED
    BY <1>3, <2>1, MinIs
<1>5. TrimLeft(v) = v
  BY <1>2, <1>3, <1>4 DEF TrimLeft
<1>6. ASSUME ~IsSpace(v[Len(v)]) PROVE Trim(v) = v
  <2>1. Len(v) \in Ink(v)
    BY <1>1, <1>6 DEF Ink
  <2>2. Ink(v) \in SUBSET (0..Len(v)) /\ \A y \in Ink(v) : y <= Len(v)
    BY <1>1, <1>3
  <2>3. Max(Ink(v)) = Len(v)
    BY <1>1, <2>1, <2>2, MaxIs
  <2> QED
    BY <1>2, <1>3, <1>5, <2>3 DEF Trim, TrimRight
<1> QED
  BY <1>5, <1>6

(* A line written for a header that reads as written adds just that header.*)
LEMMA HeaderLineReads ==
  ASSUME NEW name, NEW value, NameReads(name), ValueReads(value)
  PROVE  LET line == HeaderLine(name, value)
         IN  /\ HasColon(line)
             /\ ~BadHeaderLine(line)
             /\ \A h \in HeaderLists :
                  Places(h, name) = {} =>
                    AddHeaderLine(line, h)
                      = Append(h, [name |-> name, value |-> value])
<1> DEFINE line == HeaderLine(name, value)
           n == Len(name)
           k == Len(value)
<1>1. name \in String /\ value \in String
  BY DEF NameReads, ValueReads, Clean
<1>2. /\ line \in String /\ n \in Nat /\ k \in Nat
      /\ Len(line) = n + 2 + k
      /\ \A i \in 1..n : line[i] = name[i]
      /\ line[n + 1] = COLON /\ line[n + 2] = SP
      /\ \A i \in 1..k : line[n + 2 + i] = value[i]
  <2>1. Clean(name) /\ Clean(value)
    BY DEF NameReads, ValueReads
  <2> QED
    BY <2>1, HeaderLineOctets DEF Clean
<1>3. n # 0 /\ (value # <<>> => k # 0)
  BY <1>1, EmptySeq DEF NameReads, String
<1>4. DOMAIN line = 1..(n + 2 + k) /\ DOMAIN name = 1..n
  BY <1>1, <1>2 DEF String
<1> HIDE DEF line
<1>5. /\ Occurrences(COLON, line) \in SUBSET Nat
      /\ n + 1 \in Occurrences(COLON, line)
      /\ \A p \in Occurrences(COLON, line) : n + 1 <= p
  <2>1. n + 1 \in Occurrences(COLON, line)
    BY <1>2, <1>4 DEF Occurrences
  <2>2. ASSUME NEW p \in Occurrences(COLON, line), p <= n PROVE FALSE
    <3>1. p \in 1..n /\ name[p] = COLON
      BY <1>2, <1>4, <2>2 DEF Occurrences
    <3> QED
      BY <1>4, <3>1 DEF NameReads, Occurrences
  <2>3. \A p \in Occurrences(COLON, line) : p \in Nat
    BY <1>2, <1>4 DEF Occurrences
  <2> QED
    BY <1>2, <2>1, <2>2, <2>3
<1>6. Min(Occurrences(COLON, line)) = n + 1
  BY <1>5, MinIs
<1>7. HasColon(line)
  BY <1>2, <1>5 DEF HasColon
<1>8. ~BadHeaderLine(line)
  BY <1>2, <1>3, <1>5, <1>6 DEF BadHeaderLine
<1>9. Trim(SubSeq(line, 1, n)) = name
  <2>1. SubSeq(line, 0 + 1, 0 + n) = name
    <3>1. 0 \in Nat /\ 0 + n <= Len(line)
          /\ \A i \in 1..n : line[0 + i] = name[i]
      BY <1>2
    <3> QED
      BY <1>1, <1>2, <3>1, SubSeqReads
  <2>2. 0 + 1 = 1 /\ 0 + n = n
    BY <1>2
  <2> QED
    BY <1>1, <2>1, <2>2, NothingToTrim DEF NameReads
<1>10. TrimLeft(SubSeq(line, n + 2, n + 2 + k)) = value
  <2> DEFINE m == n + 2
             v == SubSeq(line, m, m + k)
  <2>1. m \in Int /\ m + k \in Int /\ m <= m + k /\ m + k - m + 1 = k + 1
        /\ \A i \in m..(m + k) : line[i] \in Octet
    BY <1>2, <1>4 DEF String
  <2>2. v \in Seq(Octet) /\ Len(v) = k + 1
        /\ \A i \in 1..(k + 1) : v[i] = line[m + i - 1]
    <3> HIDE DEF m
    <3> QED
      BY <2>1, SubSeqProperties
  <2>3. /\ 1 \in 1..(k + 1) /\ m + 1 - 1 = n + 2
        /\ \A i \in 1..k : i + 1 \in 1..(k + 1) /\ m + (i + 1) - 1 = n + 2 + i
    BY <1>2
  <2> HIDE DEF v, m
  <2>4. v \in String /\ DOMAIN v = 1..(k + 1) /\ v[1] = SP
        /\ \A i \in 1..k : v[i + 1] = value[i]
    <3>1. v[1] = SP
      BY <1>2, <2>2, <2>3
    <3>2. \A i \in 1..k : v[i + 1] = value[i]
      BY <1>2, <2>2, <2>3
    <3> QED
      BY <2>2, <3>1, <3>2 DEF String
  <2>5. Ink(v) \in SUBSET Nat /\ \A y \in Ink(v) : 2 <= y /\ y \in 1..(k + 1)
    BY <1>2, <2>4 DEF Ink, IsSpace
  <2>6. CASE value = <<>>
    <3>1. k = 0
      BY <2>6
    <3>2. Ink(v) = {}
      BY <2>5, <3>1
    <3> QED
      BY <2>6, <3>2 DEF TrimLeft, v, m
  <2>7. CASE value # <<>>
    <3>1. 1 \in 1..k /\ v[1 + 1] = value[1]
      BY <1>2, <1>3, <2>4, <2>7
    <3>2. 2 \in Ink(v)
      BY <1>2, <2>4, <2>7, <3>1 DEF Ink, ValueReads
    <3>3. Min(Ink(v)) = 2
      BY <2>5, <3>2, MinIs
    <3>4. SubSeq(v, 1 + 1, 1 + k) = value
      <4>1. 1 \in Nat /\ 1 + k <= Len(v) /\ \A i \in 1..k : v[1 + i] = value[i]
        BY <1>2, <2>2, <2>4
      <4> QED
        BY <1>1, <2>4, <4>1, SubSeqReads
    <3>5. TrimLeft(v) = SubSeq(v, 2, Len(v)) /\ Len(v) = 1 + k
      BY <1>2, <2>2, <3>2, <3>3 DEF TrimLeft
    <3>6. 1 + 1 = 2
      OBVIOUS
    <3>7. TrimLeft(v) = value
      BY <3>4, <3>5, <3>6
    <3> QED
      BY <3>7 DEF v, m
  <2> QED
    BY <2>6, <2>7
<1>11. ASSUME NEW h \in HeaderLists, Places(h, name) = {}
       PROVE  AddHeaderLine(line, h) = Append(h, [name |-> name, value |-> value])
  <2>1. n + 1 - 1 = n /\ n + 1 + 1 = n + 2 /\ Len(line) = n + 2 + k
    BY <1>2
  <2>2. AddHeaderLine(line, h) = HeaderSet(h, name, value)
    BY <1>6, <1>9, <1>10, <2>1 DEF AddHeaderLine
  <2> QED
    BY <1>11, <2>2 DEF HeaderSet, NameReads
<1> QED
  BY <1>7, <1>8, <1>11 DEF line

-----------------------------------------------------------------------------
(* Writing the request line.                                               *)

(* A path that is read as it was written.                                  *)
PathReads(path) == Clean(path) /\ Occurrences(SP, path) = {}

RequestLine(method, path) ==
  MethodToken(method) \o <<SP>> \o path \o <<SP>> \o VersionToken(RequestVersion)

(* The octets of a request line.                                           *)
LEMMA RequestLineOctets ==
  ASSUME NEW method, NEW path \in String, MethodToken(method) \in String,
         VersionToken(RequestVersion) \in String, NEW line,
         line = RequestLine(method, path)
  PROVE  /\ line \in String /\ Len(path) \in Nat
         /\ Len(line) = Len(path) + 4
         /\ line[1] = method /\ line[2] = SP
         /\ \A i \in 1..Len(path) : line[i + 2] = path[i]
         /\ line[Len(path) + 3] = SP
         /\ line[Len(path) + 4] = VersionName[1]
<1> DEFINE e == <<SP>>
           v == VersionToken(RequestVersion)
           a == MethodToken(method)
           b == a \o e
           c == b \o path
           d == c \o e
           n == Len(path)
<1>1. /\ e \in String /\ Len(e) = 1 /\ e[1] = SP
      /\ a \in String /\ Len(a) = 1 /\ a[1] = method
      /\ v \in String /\ Len(v) = 1 /\ v[1] = VersionName[1]
  BY OctetAssumption DEF String, MethodToken, VersionToken, RequestVersion,
     HTTP_1_0
<1>2. line = d \o v
  BY Zenon DEF RequestLine
<1> HIDE DEF e, v, a
<1>3. /\ b \in String /\ Len(b) = Len(a) + Len(e)
      /\ \A i \in 1..Len(a) : b[i] = a[i]
      /\ \A i \in 1..Len(e) : b[Len(a) + i] = e[i]
  BY <1>1, ConcatOctets
<1> HIDE DEF b
<1>4. /\ b \in String /\ Len(b) = 2 /\ b[1] = method /\ b[2] = SP
  <2>1. b[1] = a[1] /\ b[1 + 1] = e[1] /\ Len(b) = 1 + 1
    BY <1>1, <1>3
  <2> QED
    BY <1>1, <1>3, <2>1
<1>5. /\ c \in String /\ Len(c) = Len(b) + n /\ n \in Nat
      /\ \A i \in 1..Len(b) : c[i] = b[i]
      /\ \A i \in 1..n : c[Len(b) + i] = path[i]
  BY <1>4, ConcatOctets
<1> HIDE DEF c
<1>6. /\ c \in String /\ Len(c) = n + 2 /\ c[1] = method /\ c[2] = SP
      /\ \A i \in 1..n : c[i + 2] = path[i]
  <2>1. Len(c) = n + 2
    BY <1>4, <1>5
  <2>2. 1 \in 1..2 /\ 2 \in 1..2
    OBVIOUS
  <2>3. c[1] = method /\ c[2] = SP
    BY <1>4, <1>5, <2>2
  <2>4. ASSUME NEW i \in 1..n PROVE c[i + 2] = path[i]
    <3>1. i + 2 = Len(b) + i
      BY <1>4, <1>5
    <3> QED
      BY <1>5, <3>1
  <2> QED
    BY <1>5, <2>1, <2>3, <2>4
<1>7. /\ d \in String /\ Len(d) = Len(c) + Len(e)
      /\ \A i \in 1..Len(c) : d[i] = c[i]
      /\ \A i \in 1..Len(e) : d[Len(c) + i] = e[i]
  BY <1>1, <1>6, ConcatOctets
<1> HIDE DEF d
<1>8. /\ d \in String /\ Len(d) = n + 3 /\ d[1] = method /\ d[2] = SP
      /\ \A i \in 1..n : d[i + 2] = path[i]
      /\ d[n + 3] = SP
  <2>1. Len(d) = n + 3 /\ n + 2 + 1 = n + 3
    BY <1>1, <1>5, <1>6, <1>7
  <2>2. 1 \in 1..Len(c) /\ 2 \in 1..Len(c) /\ 1 \in 1..Len(e)
    BY <1>1, <1>5, <1>6
  <2>3. d[1] = method /\ d[2] = SP
    BY <1>6, <1>7, <2>2
  <2>4. ASSUME NEW i \in 1..n PROVE d[i + 2] = path[i]
    <3>1. i + 2 \in 1..Len(c)
      BY <1>5, <1>6
    <3> QED
      BY <1>6, <1>7, <3>1
  <2>5. d[Len(c) + 1] = SP
    BY <1>1, <1>7, <2>2
  <2> QED
    BY <1>6, <1>7, <2>1, <2>3, <2>4, <2>5
<1>9. /\ d \o v \in String /\ Len(d \o v) = Len(d) + Len(v)
      /\ \A i \in 1..Len(d) : (d \o v)[i] = d[i]
      /\ \A i \in 1..Len(v) : (d \o v)[Len(d) + i] = v[i]
  BY <1>1, <1>8, ConcatOctets
<1>10. /\ line \in String /\ Len(line) = Len(d) + Len(v)
       /\ \A i \in 1..Len(d) : line[i] = d[i]
       /\ \A i \in 1..Len(v) : line[Len(d) + i] = v[i]
  BY <1>2, <1>9
<1>11. Len(line) = n + 4 /\ n + 3 + 1 = n + 4
  BY <1>1, <1>5, <1>8, <1>10
<1>12. 1 \in 1..Len(d) /\ 2 \in 1..Len(d) /\ n + 3 \in 1..Len(d)
       /\ 1 \in 1..Len(v)
  BY <1>1, <1>5, <1>8
<1>13. line[1] = method /\ line[2] = SP /\ line[n + 3] = SP
  BY <1>8, <1>10, <1>12
<1>14. line[n + 4] = VersionName[1]
  BY <1>1, <1>8, <1>10, <1>11, <1>12
<1>15. ASSUME NEW i \in 1..n PROVE line[i + 2] = path[i]
  <2>1. i + 2 \in 1..Len(d)
    BY <1>5, <1>8
  <2> QED
    BY <1>8, <1>10, <2>1
<1> QED
  BY <1>5, <1>10, <1>11, <1>13, <1>14, <1>15 DEF n

(* A line written for a method and a path that read as written has no line *)
(* end in it, and is a request line for just that method and that path.    *)
LEMMA RequestLineReads ==
  ASSUME NEW method \in Http10Method, NEW path, PathReads(path),
         MethodToken(method) \in String, VersionToken(RequestVersion) \in String
  PROVE  LET line == RequestLine(method, path)
         IN  /\ Clean(line)
             /\ ~BadRequestLine(line)
             /\ MethodPart(line) = MethodToken(method)
             /\ PathPart(line) = path
<1> DEFINE line == RequestLine(method, path)
           n == Len(path)
<1>1. path \in String
  BY DEF PathReads, Clean
<1>2. /\ line \in String /\ n \in Nat
      /\ Len(line) = n + 4
      /\ line[1] = method /\ line[2] = SP
      /\ \A i \in 1..n : line[i + 2] = path[i]
      /\ line[n + 3] = SP
      /\ line[n + 4] = VersionName[1]
  BY <1>1, RequestLineOctets
<1>3. DOMAIN line = 1..(n + 4) /\ DOMAIN path = 1..n
  BY <1>1, <1>2 DEF String
<1> HIDE DEF line
<1>4. VersionName[1] = "HTTP/1.0"
  BY DEF VersionName
<1>5. method \in {"GET", "POST", "HEAD"}
  BY DEF Http10Method
<1>6. Clean(line)
  <2>1. ASSUME NEW p \in CRLFs(line) PROVE FALSE
    <3>1. p \in 1..(n + 3) /\ line[p] = CR /\ line[p + 1] = LF
      BY <1>2, <2>1 DEF CRLFs
    <3>2. p # 1 /\ p # 2 /\ p # n + 2 /\ p # n + 3
      BY <1>2, <1>5, <3>1 DEF CR, LF, SP
    <3> DEFINE i == p - 2
    <3>3. i \in 1..(n - 1) /\ i \in 1..n /\ i + 1 \in 1..n /\ i + 2 = p
          /\ i + 1 + 2 = p + 1
      BY <1>2, <3>1, <3>2
    <3> HIDE DEF i
    <3>4. line[i + 2] = path[i] /\ line[i + 1 + 2] = path[i + 1]
      BY <1>2, <3>3
    <3>5. path[i] = CR /\ path[i + 1] = LF
      BY <3>1, <3>3, <3>4
    <3> QED
      BY <3>3, <3>5 DEF PathReads, Clean, CRLFs
  <2> QED
    BY <1>2, <2>1 DEF Clean
<1>7. Occurrences(SP, line) = {2, n + 3}
  <2>1. ASSUME NEW p \in Occurrences(SP, line) PROVE p \in {2, n + 3}
    <3>1. p \in 1..(n + 4) /\ line[p] = SP
      BY <1>3, <2>1 DEF Occurrences
    <3>2. p # 1 /\ p # n + 4
      BY <1>2, <1>4, <1>5, <3>1 DEF SP
    <3>3. ASSUME p # 2, p # n + 3 PROVE FALSE
      <4> DEFINE i == p - 2
      <4>1. i \in 1..n /\ i + 2 = p
        BY <1>2, <3>1, <3>2, <3>3
      <4> HIDE DEF i
      <4>2. path[i] = SP
        BY <1>2, <3>1, <4>1
      <4> QED
        BY <1>3, <4>1, <4>2 DEF PathReads, Occurrences
    <3> QED
      BY <3>3
  <2>2. 2 \in 1..(n + 4) /\ n + 3 \in 1..(n + 4)
    BY <1>2
  <2> QED
    BY <1>2, <1>3, <2>1, <2>2 DEF Occurrences
<1>8. Cardinality(Occurrences(SP, line)) = 2
  <2> DEFINE x == n + 3
  <2>1. x # 2
    BY <1>2
  <2>2. Occurrences(SP, line) = {2} \cup {x}
    BY <1>7
  <2> HIDE DEF x
  <2>3. IsFiniteSet({2}) /\ Cardinality({2}) = 1
    BY FS_Singleton
  <2>4. x \notin {2}
    BY <2>1
  <2>5. Cardinality({2} \cup {x}) = 1 + 1
    BY <2>3, <2>4, FS_AddElement
  <2> QED
    BY <2>2, <2>5
<1>9. Min(Occurrences(SP, line)) = 2
  BY <1>2, <1>7, MinIs
<1>10. Max(Occurrences(SP, line)) = n + 3
  <2>1. n + 3 \in Nat /\ {2, n + 3} \in SUBSET (0..(n + 3))
        /\ n + 3 \in {2, n + 3}
        /\ \A y \in {2, n + 3} : y <= n + 3
    BY <1>2
  <2> QED
    BY <1>7, <2>1, MaxIs
<1>11. MethodPart(line) = MethodToken(method)
  <2> DEFINE a == MethodToken(method)
  <2>1. a \in String /\ Len(a) = 1 /\ a[1] = method
    BY DEF MethodToken
  <2> HIDE DEF a
  <2>2. 0 \in Nat /\ 0 + Len(a) <= Len(line)
        /\ \A i \in 1..Len(a) : line[0 + i] = a[i]
    BY <1>2, <2>1
  <2>3. SubSeq(line, 0 + 1, 0 + Len(a)) = a
    BY <1>2, <2>1, <2>2, SubSeqReads
  <2>4. 0 + 1 = 1 /\ 0 + Len(a) = 2 - 1
    BY <2>1
  <2> QED
    BY <1>9, <2>3, <2>4 DEF MethodPart, a
<1>12. PathPart(line) = path
  <2>1. 2 \in Nat /\ 2 + n <= Len(line) /\ \A i \in 1..n : line[2 + i] = path[i]
    BY <1>2
  <2>2. SubSeq(line, 2 + 1, 2 + n) = path
    BY <1>1, <1>2, <2>1, SubSeqReads
  <2>3. 2 + n = n + 3 - 1
    BY <1>2
  <2> QED
    BY <1>9, <1>10, <2>2, <2>3 DEF PathPart
<1>13. VersionPart(line) = VersionToken(RequestVersion)
  <2> DEFINE a == VersionToken(RequestVersion)
  <2>1. a \in String /\ Len(a) = 1 /\ a[1] = VersionName[1]
    BY DEF VersionToken, RequestVersion, HTTP_1_0
  <2> HIDE DEF a
  <2>2. n + 3 \in Nat /\ n + 3 + Len(a) <= Len(line)
        /\ \A i \in 1..Len(a) : line[n + 3 + i] = a[i]
    BY <1>2, <2>1
  <2>3. SubSeq(line, n + 3 + 1, n + 3 + Len(a)) = a
    BY <1>2, <2>1, <2>2, SubSeqReads
  <2>4. n + 3 + Len(a) = Len(line)
    BY <1>2, <2>1
  <2> QED
    BY <1>10, <2>3, <2>4 DEF VersionPart, a
<1>14. method \in ParseHttpMethod(MethodPart(line), RequestVersion)
  BY <1>5, <1>11 DEF ParseHttpMethod, Http10Method, HttpMethod
<1>15. ~BadRequestLine(line)
  BY <1>8, <1>13, <1>14 DEF BadRequestLine
<1> QED
  BY <1>6, <1>11, <1>12, <1>15 DEF line

-----------------------------------------------------------------------------
(* Writing one string behind the other.                                    *)

(* f[i] is the first i strings of hs, one behind the other.                *)
Joins(f, hs, n) ==
  /\ f \in [0..n -> String]
  /\ f[0] = <<>>
  /\ \A i \in 1..n : f[i] = f[i - 1] \o hs[i]

(* Strings can be joined.                                                  *)
LEMMA JoinExists ==
  ASSUME NEW n \in Nat, NEW hs, \A i \in 1..n : hs[i] \in String
  PROVE  \E f : Joins(f, hs, n)
<1> DEFINE T == {m \in Nat : m <= n => \E f : Joins(f, hs, m)}
<1>1. 0 \in T
  <2> DEFINE f == [i \in 0..0 |-> <<>>]
  <2>1. <<>> \in String
    BY DEF String
  <2>2. f \in [0..0 -> String] /\ f[0] = <<>>
        /\ \A i \in 1..0 : f[i] = f[i - 1] \o hs[i]
    BY <2>1
  <2> HIDE DEF f
  <2>3. Joins(f, hs, 0)
    BY <2>2 DEF Joins
  <2> QED
    BY <2>3
<1>2. ASSUME NEW m \in Nat, m \in T PROVE m + 1 \in T
  <2>1. ASSUME m + 1 <= n PROVE \E f : Joins(f, hs, m + 1)
    <3>1. PICK f : Joins(f, hs, m)
      BY <1>2, <2>1
    <3> DEFINE x == f[m] \o hs[m + 1]
               g == [i \in 0..(m + 1) |-> IF i = m + 1 THEN x ELSE f[i]]
    <3>2. m + 1 \in 1..n /\ m \in 0..m
      BY <1>2, <2>1
    <3>3. x \in String
      BY <3>1, <3>2, ConcatOctets DEF Joins
    <3>4. g \in [0..(m + 1) -> String]
      <4> HIDE DEF x
      <4>1. \A i \in 0..(m + 1) : i # m + 1 => f[i] \in String
        BY <1>2, <3>1 DEF Joins
      <4> QED
        BY <3>3, <4>1
    <3>5. g[0] = <<>>
      BY <1>2, <3>1 DEF Joins
    <3>6. ASSUME NEW i \in 1..(m + 1) PROVE g[i] = g[i - 1] \o hs[i]
      <4>1. CASE i = m + 1
        <5>1. g[i] = x /\ g[i - 1] = f[m]
          BY <1>2, <4>1
        <5> QED
          BY <4>1, <5>1
      <4>2. CASE i # m + 1
        <5>1. i \in 1..m /\ i \in 0..(m + 1) /\ i - 1 \in 0..(m + 1)
              /\ i - 1 # m + 1
          BY <1>2, <3>6, <4>2
        <5>2. g[i] = f[i] /\ g[i - 1] = f[i - 1]
          BY <4>2, <5>1
        <5> QED
          BY <3>1, <5>1, <5>2 DEF Joins
      <4> QED
        BY <4>1, <4>2
    <3> HIDE DEF g
    <3>7. Joins(g, hs, m + 1)
      BY <3>4, <3>5, <3>6 DEF Joins
    <3> QED
      BY <3>7
  <2> QED
    BY <1>2, <2>1
<1> HIDE DEF T
<1>3. Nat \subseteq T
  BY <1>1, <1>2, NatsByInduction
<1>4. n \in T
  BY <1>3
<1> QED
  BY <1>4 DEF T

(* FlattenSeq joins them.                                                  *)
LEMMA FlattenJoins ==
  ASSUME NEW n \in Nat, NEW hs, Len(hs) = n, n = 0 => hs = <<>>,
         \A i \in 1..n : hs[i] \in String, NEW f, Joins(f, hs, n)
  PROVE  FlattenSeq(hs) = f[n]
<1> DEFINE Walk(h) == [i \in 1..n |-> IF i = 1 THEN hs[i] ELSE h[i - 1] \o hs[i]]
           other == CHOOSE h : h = Walk(h)
<1>1. CASE n = 0
  BY <1>1, Zenon DEF FlattenSeq, Joins
<1>2. CASE n # 0
  <2>1. FlattenSeq(hs) = other[n]
    BY <1>2, Zenon DEF FlattenSeq
  <2> DEFINE g == [i \in 1..n |-> f[i]]
  <2>2. g = Walk(g)
    <3>1. \A i \in 1..n : g[i] = Walk(g)[i]
      <4> TAKE i \in 1..n
      <4>1. f[i] = f[i - 1] \o hs[i] /\ g[i] = f[i]
        BY DEF Joins
      <4>2. CASE i = 1
        <5>1. i - 1 = 0 /\ f[0] = <<>>
          BY <4>2 DEF Joins
        <5>2. hs[i] \in Seq(Octet)
          BY DEF String
        <5>3. <<>> \o hs[i] = hs[i]
          BY <5>2, ConcatEmptySeq
        <5> QED
          BY <4>1, <4>2, <5>1, <5>3
      <4>3. CASE i # 1
        <5>1. i - 1 \in 1..n
          BY <4>3
        <5>2. g[i - 1] = f[i - 1]
          BY <5>1
        <5> QED
          BY <4>1, <4>3, <5>2
      <4> QED
        BY <4>2, <4>3
    <3> QED
      BY <3>1
  <2>3. other = Walk(other)
    <3> HIDE DEF Walk
    <3> QED
      BY <2>2
  <2> HIDE DEF other
  <2>4. \A i \in 1..n : other[i] = IF i = 1 THEN hs[i] ELSE other[i - 1] \o hs[i]
    <3> TAKE i \in 1..n
    <3>1. Walk(other)[i] = IF i = 1 THEN hs[i] ELSE other[i - 1] \o hs[i]
      OBVIOUS
    <3> HIDE DEF Walk
    <3> QED
      BY <2>3, <3>1
  <2>5. \A i \in 1..n : f[i] = IF i = 1 THEN hs[i] ELSE f[i - 1] \o hs[i]
    <3> TAKE i \in 1..n
    <3>1. Walk(g)[i] = (IF i = 1 THEN hs[i] ELSE g[i - 1] \o hs[i])
          /\ g[i] = f[i]
      OBVIOUS
    <3>2. i # 1 => g[i - 1] = f[i - 1]
      OBVIOUS
    <3> HIDE DEF Walk, g
    <3> QED
      BY <2>2, <3>1, <3>2
  <2> DEFINE T == {i \in Nat : i + 1 <= n => other[i + 1] = f[i + 1]}
  <2>6. 0 \in T
    BY <1>2, <2>4, <2>5
  <2>7. ASSUME NEW m \in Nat, m \in T PROVE m + 1 \in T
    <3>1. ASSUME m + 1 + 1 <= n PROVE other[m + 1 + 1] = f[m + 1 + 1]
      <4>1. other[m + 1] = f[m + 1]
        BY <2>7, <3>1
      <4> DEFINE i == m + 1 + 1
      <4>2. i \in 1..n /\ i # 1 /\ i - 1 = m + 1
        BY <2>7, <3>1
      <4> HIDE DEF i
      <4>3. other[i] = f[i]
        BY <2>4, <2>5, <4>1, <4>2
      <4> QED
        BY <4>3 DEF i
    <3> QED
      BY <2>7, <3>1
  <2> HIDE DEF T
  <2>8. n - 1 \in T
    BY <1>2, <2>6, <2>7, NatsByInduction
  <2>9. other[n] = f[n]
    BY <1>2, <2>8 DEF T
  <2> QED
    BY <2>1, <2>9
<1> QED
  BY <1>1, <1>2

-----------------------------------------------------------------------------
(* Writing a head.                                                         *)

(* The line that was added is the last one.                                *)
LEMMA LastLine ==
  ASSUME NEW t, WholeLines(t), NEW l, Clean(l),
         NEW u, u = Added(t, l)
  PROVE  /\ \A p \in CRLFs(t) : /\ p \in Nat /\ p < Len(t)
                               /\ p < Len(u) - 1 /\ LineAt(u, p) = LineAt(t, p)
         /\ LineAt(u, Len(u) - 1) = l
<1> DEFINE n == Len(t)
           q == Len(u) - 1
           Starts == {1} \cup {p + 2 : p \in {r \in CRLFs(u) : r < q}}
<1>1. /\ WholeLines(u) /\ Len(u) = n + Len(l) + 2
      /\ n \in Nat /\ Len(l) \in Nat
      /\ Arrived(t, u)
      /\ CRLFs(u) = CRLFs(t) \cup {q}
      /\ SubSeq(u, n + 1, Len(u) - 2) = l
  BY LineAdded
<1>2. \A p \in CRLFs(t) : p \in Nat /\ 1 <= p /\ p + 1 <= n
  BY CRLFsType DEF WholeLines
<1>3. \A p \in CRLFs(t) : p \in Nat /\ p < n /\ p < q
  BY <1>1, <1>2
<1>4. \A p \in CRLFs(t) : LineAt(u, p) = LineAt(t, p)
  BY <1>1, LineOfPrefix
<1> HIDE DEF q
<1>5. Starts = {1} \cup {p + 2 : p \in CRLFs(t)}
  <2>1. q \in Nat
    BY <1>1 DEF q
  <2>2. {r \in CRLFs(u) : r < q} = CRLFs(t)
    BY <1>1, <1>3, <2>1
  <2> QED
    BY <2>2
<1>6. n + 1 \in Starts
  <2>1. CASE t = <<>>
    BY <1>5, <2>1
  <2>2. CASE t # <<>>
    <3>1. n - 1 \in CRLFs(t) /\ n - 1 + 2 = n + 1
      BY <1>1, <2>2 DEF WholeLines
    <3> QED
      BY <1>5, <3>1
  <2> QED
    BY <2>1, <2>2
<1>7. Starts \in SUBSET (0..(n + 1)) /\ \A y \in Starts : y <= n + 1
  <2>1. 1 \in 0..(n + 1) /\ \A p \in CRLFs(t) : p + 2 \in 0..(n + 1)
    BY <1>1, <1>2
  <2>2. \A y \in 0..(n + 1) : y <= n + 1
    BY <1>1
  <2> HIDE DEF n, Starts
  <2> QED
    BY <1>5, <2>1, <2>2
<1>8. Max(Starts) = n + 1
  <2> HIDE DEF Starts, n
  <2>1. n + 1 \in Nat
    BY <1>1
  <2> QED
    BY <1>6, <1>7, <2>1, MaxIs
<1>9. q - 1 = Len(u) - 2
  BY <1>1 DEF q
<1>10. LineAt(u, q) = l
  BY <1>1, <1>8, <1>9 DEF LineAt, LineStart
<1> QED
  BY <1>3, <1>4, <1>10 DEF q

LinesOf(t) == [p \in CRLFs(t) |-> LineAt(t, p)]

(* t is the request line, which ends at k, and lines for the headers h.    *)
HeadSoFar(t, line, k, h) ==
  /\ WholeLines(t) /\ t # <<>>
  /\ k \in CRLFs(t) /\ \A p \in CRLFs(t) : k <= p
  /\ LineAt(t, k) = line
  /\ \A p \in CRLFs(t) : ~IsBlankLine(t, p)
  /\ \A p \in CRLFs(t) \ {k} : /\ HasColon(LineAt(t, p))
                               /\ ~BadHeaderLine(LineAt(t, p))
  /\ HeadersAt(LinesOf(t), CRLFs(t) \ {k}) = h

(* The request line alone.                                                 *)
LEMMA RequestLineWritten ==
  ASSUME NEW line, Clean(line)
  PROVE  HeadSoFar(line \o LineEnd, line, Len(line) + 1, EmptyHeaders)
<1> DEFINE x == line \o LineEnd
           t == <<>>
           u == t \o x
           k == Len(line) + 1
<1>1. WholeLines(t) /\ Len(t) = 0 /\ CRLFs(t) = {}
  BY DEF WholeLines, CRLFs, String
<1>2. u = x
  <2>1. line \in String /\ LineEnd \in String
    BY OctetAssumption DEF Clean, LineEnd, String
  <2> DEFINE e == LineEnd
  <2> HIDE DEF e
  <2>2. line \o e \in String
    BY <2>1, ConcatOctets DEF e
  <2> QED
    BY <2>2, ConcatEmptySeq DEF String, e
<1> HIDE DEF x, t
<1>3. u = Added(t, line)
  BY DEF x, Added
<1> HIDE DEF u
<1>4. /\ WholeLines(u) /\ Len(u) = Len(t) + Len(line) + 2
      /\ Len(line) \in Nat
      /\ CRLFs(u) = CRLFs(t) \cup {Len(u) - 1}
  BY <1>1, <1>3, LineAdded
<1>5. LineAt(u, Len(u) - 1) = line
  BY <1>1, <1>3, LastLine
<1>6. Len(u) - 1 = k /\ k \in Nat /\ Len(u) # 0
  BY <1>1, <1>4
<1> HIDE DEF k
<1>7. CRLFs(u) = {k}
  BY <1>1, <1>4, <1>6
<1>8. u # <<>>
  BY <1>6
<1>9. ~IsBlankLine(u, k)
  BY <1>6, <1>7 DEF IsBlankLine
<1>10. HeadersAt(LinesOf(u), CRLFs(u) \ {k}) = EmptyHeaders
  <2>1. CRLFs(u) \ {k} = {}
    BY <1>7
  <2> QED
    BY <2>1, HeadersOfNone
<1>11. HeadSoFar(u, line, k, EmptyHeaders)
  BY <1>4, <1>5, <1>6, <1>7, <1>8, <1>9, <1>10 DEF HeadSoFar
<1> QED
  BY <1>2, <1>11 DEF x, k

(* One more header.                                                        *)
LEMMA HeaderWritten ==
  ASSUME NEW t, NEW line, NEW k, NEW h \in HeaderLists, HeadSoFar(t, line, k, h),
         NEW name, NEW value, NameReads(name), ValueReads(value),
         Places(h, name) = {},
         NEW u, u = Added(t, HeaderLine(name, value))
  PROVE  HeadSoFar(u, line, k, Append(h, [name |-> name, value |-> value]))
<1> DEFINE l == HeaderLine(name, value)
           q == Len(u) - 1
           S == CRLFs(t) \ {k}
<1>1. Clean(l) /\ WholeLines(t)
  BY HeaderLineIsClean DEF NameReads, ValueReads, HeadSoFar
<1>2. /\ HasColon(l) /\ ~BadHeaderLine(l)
      /\ AddHeaderLine(l, h) = Append(h, [name |-> name, value |-> value])
  BY HeaderLineReads
<1>3. Len(l) # 0
  <2>1. name \in String /\ value \in String
    BY DEF NameReads, ValueReads, Clean
  <2>2. Len(l) = Len(name) + 2 + Len(value) /\ Len(name) \in Nat
        /\ Len(value) \in Nat
    BY <2>1, HeaderLineOctets
  <2> QED
    BY <2>2
<1>4. u = Added(t, l)
  OBVIOUS
<1> HIDE DEF l
<1>5. /\ WholeLines(u) /\ Len(u) = Len(t) + Len(l) + 2
      /\ Len(t) \in Nat /\ Len(l) \in Nat
      /\ Arrived(t, u)
      /\ CRLFs(u) = CRLFs(t) \cup {q}
  BY <1>1, <1>4, LineAdded
<1>6. /\ \A p \in CRLFs(t) : /\ p \in Nat /\ p < Len(t)
                             /\ p < q /\ LineAt(u, p) = LineAt(t, p)
      /\ LineAt(u, q) = l
  BY <1>1, <1>4, LastLine
<1>7. q \in Nat /\ q = Len(t) + Len(l) + 1 /\ q \in 1..q
  BY <1>5
<1> HIDE DEF q
<1>8. k \in CRLFs(t) /\ \A p \in CRLFs(t) : k <= p
  BY DEF HeadSoFar
<1>9. u # <<>> /\ k \in CRLFs(u) /\ \A p \in CRLFs(u) : k <= p
  BY <1>5, <1>6, <1>7, <1>8
<1>10. LineAt(u, k) = line
  BY <1>6, <1>8 DEF HeadSoFar
<1>11. \A p \in CRLFs(u) : ~IsBlankLine(u, p)
  <2>1. \A p \in CRLFs(t) : ~IsBlankLine(u, p)
    BY <1>5, HeadEndsOfPrefix DEF HeadSoFar
  <2>2. q - 2 \notin CRLFs(u)
    <3>1. q - 2 # q /\ ~(q - 2 < Len(t))
      BY <1>3, <1>5, <1>7
    <3> QED
      BY <1>5, <1>6, <3>1
  <2> QED
    BY <1>5, <2>1, <2>2 DEF IsBlankLine
<1>12. \A p \in CRLFs(u) \ {k} :
         HasColon(LineAt(u, p)) /\ ~BadHeaderLine(LineAt(u, p))
  <2> TAKE p \in CRLFs(u) \ {k}
  <2>1. CASE p = q
    BY <1>2, <1>6, <2>1
  <2>2. CASE p \in CRLFs(t)
    BY <1>6, <2>2 DEF HeadSoFar
  <2> QED
    BY <1>5, <2>1, <2>2
<1> DEFINE lines == LinesOf(t)
           other == LinesOf(u)
<1>13. \A p \in S : lines[p] = LineAt(t, p) /\ other[p] = LineAt(t, p)
  BY <1>5, <1>6 DEF LinesOf
<1>14. other[q] = l
  BY <1>5, <1>6 DEF LinesOf
<1>15. /\ S \in SUBSET (1..q) /\ \A p \in S : p < q
       /\ CRLFs(u) \ {k} = S \cup {q}
  <2>1. \A p \in CRLFs(t) : p \in 1..q
    BY <1>1, <1>6, <1>7, CRLFsType DEF WholeLines
  <2>2. k # q
    BY <1>6, <1>7, <1>8
  <2> QED
    BY <1>5, <1>6, <2>1, <2>2
<1>16. HeadersAt(lines, S) = h
  BY DEF HeadSoFar
<1> HIDE DEF lines, other
<1>17. \A p \in S : HasColon(lines[p]) /\ other[p] = lines[p]
  BY <1>13 DEF HeadSoFar
<1> HIDE DEF S
<1>18. HeadersAt(other, S) = h
  BY <1>7, <1>15, <1>16, <1>17, HeadersOfSameLines
<1>19. \A p \in S \cup {q} : HasColon(other[p])
  BY <1>2, <1>14, <1>17
<1>20. HeadersAt(other, S \cup {q}) = AddHeaderLine(l, h)
  BY <1>7, <1>14, <1>15, <1>18, <1>19, HeadersGrow
<1>21. HeadersAt(other, CRLFs(u) \ {k}) = Append(h, [name |-> name, value |-> value])
  BY <1>2, <1>15, <1>20
<1> QED
  BY <1>5, <1>9, <1>10, <1>11, <1>12, <1>21 DEF HeadSoFar, other

(* Headers that read as written, at most one of each name.                 *)
HeadersRead(h) ==
  /\ h \in HeaderLists
  /\ \A i \in DOMAIN h : NameReads(h[i].name) /\ ValueReads(h[i].value)
  /\ \A i, j \in DOMAIN h : h[i].name = h[j].name => i = j

(* The first headers of a list, and those with the next one.               *)
LEMMA FirstHeaders ==
  ASSUME NEW h \in HeaderLists, NEW i \in 0..Len(h)
  PROVE  /\ SubSeq(h, 1, i) \in HeaderLists
         /\ DOMAIN SubSeq(h, 1, i) = 1..i
         /\ \A j \in 1..i : SubSeq(h, 1, i)[j] = h[j]
         /\ i # Len(h) => Append(SubSeq(h, 1, i), h[i + 1]) = SubSeq(h, 1, i + 1)
<1> DEFINE R == [name : String, value : String]
           p == SubSeq(h, 1, i)
<1>1. h \in Seq(R) /\ Len(h) \in Nat /\ i \in Nat /\ i <= Len(h)
  BY DEF HeaderLists
<1> HIDE DEF R
<1>2. \A j \in 1..Len(h) : h[j] \in R
  BY <1>1
<1>3. p \in Seq(R) /\ Len(p) = i /\ \A j \in 1..i : p[j] = h[j]
  <2>1. \A j \in 1..i : h[j] \in R
    BY <1>1, <1>2
  <2>2. (IF 1 <= i THEN i - 1 + 1 ELSE 0) = i /\ \A j \in 1..i : 1 + j - 1 = j
    BY <1>1
  <2> QED
    BY <1>1, <2>1, <2>2, SubSeqProperties
<1>4. ASSUME i # Len(h)
      PROVE  Append(p, h[i + 1]) = SubSeq(h, 1, i + 1)
  <2> DEFINE m == i + 1
             q == SubSeq(h, 1, m)
             x == h[m]
  <2>1. m \in Nat /\ m <= Len(h) /\ x \in R /\ m \in 1..m
    BY <1>1, <1>2, <1>4
  <2>2. q \in Seq(R) /\ Len(q) = m /\ \A j \in 1..m : q[j] = h[j]
    <3> HIDE DEF m
    <3>1. \A j \in 1..m : h[j] \in R
      BY <1>1, <1>2, <2>1
    <3>2. (IF 1 <= m THEN m - 1 + 1 ELSE 0) = m /\ \A j \in 1..m : 1 + j - 1 = j
      BY <2>1
    <3> QED
      BY <1>1, <2>1, <3>1, <3>2, SubSeqProperties
  <2> HIDE DEF p, q, x
  <2>3. /\ Append(p, x) \in Seq(R) /\ Len(Append(p, x)) = Len(p) + 1
        /\ \A j \in 1..Len(p) : Append(p, x)[j] = p[j]
        /\ Append(p, x)[Len(p) + 1] = x
    BY <1>3, <2>1, AppendProperties
  <2>4. \A j \in 1..m : Append(p, x)[j] = q[j]
    <3> TAKE j \in 1..m
    <3>1. CASE j = m
      BY <1>3, <2>1, <2>2, <2>3, <3>1 DEF x
    <3>2. CASE j # m
      <4>1. j \in 1..i
        BY <1>1, <3>2
      <4> QED
        BY <1>3, <2>2, <2>3, <4>1
    <3> QED
      BY <3>1, <3>2
  <2>5. Len(Append(p, x)) = m
    BY <1>3, <2>3
  <2>6. Append(p, x) = q
    BY <2>2, <2>3, <2>4, <2>5, SeqEqual
  <2> QED
    BY <2>6 DEF q, x
<1>5. DOMAIN p = 1..i
  BY <1>3
<1> QED
  BY <1>3, <1>4, <1>5 DEF HeaderLists, R

(* Headers that read as written, one behind the other.                     *)
LEMMA HeadersWritten ==
  ASSUME NEW t, NEW line, NEW k, HeadSoFar(t, line, k, EmptyHeaders),
         NEW h, HeadersRead(h), NEW hs,
         \A i \in DOMAIN h : hs[i] = EncodeHeader(h[i]),
         NEW f, Joins(f, hs, Len(h))
  PROVE  HeadSoFar(t \o f[Len(h)], line, k, h)
<1> DEFINE n == Len(h)
           T == {i \in Nat : i <= n => HeadSoFar(t \o f[i], line, k, SubSeq(h, 1, i))}
<1>1. h \in HeaderLists /\ n \in Nat /\ DOMAIN h = 1..n /\ t \in String
  BY DEF HeadersRead, HeaderLists, HeadSoFar, WholeLines
<1>2. \A i \in 0..n : /\ SubSeq(h, 1, i) \in HeaderLists
                      /\ DOMAIN SubSeq(h, 1, i) = 1..i
                      /\ \A j \in 1..i : SubSeq(h, 1, i)[j] = h[j]
                      /\ i # n => Append(SubSeq(h, 1, i), h[i + 1]) = SubSeq(h, 1, i + 1)
  BY <1>1, FirstHeaders
<1>3. 0 \in T
  <2> HIDE DEF n
  <2>1. t \o f[0] = t
    BY <1>1, ConcatEmptySeq DEF Joins, String
  <2>2. SubSeq(h, 1, 0) = EmptyHeaders
    BY <1>1 DEF EmptyHeaders
  <2> QED
    BY <2>1, <2>2
<1> HIDE DEF T
<1>4. ASSUME NEW i \in Nat, i + 1 <= n,
             HeadSoFar(t \o f[i], line, k, SubSeq(h, 1, i))
      PROVE  HeadSoFar(t \o f[i + 1], line, k, SubSeq(h, 1, i + 1))
  <2> DEFINE j == i + 1
             p == SubSeq(h, 1, i)
             name == h[j].name
             value == h[j].value
             u == t \o f[j]
             l == HeaderLine(name, value)
             s == t \o f[i]
  <2>1. i \in 0..n /\ j \in 1..n /\ i # n /\ j - 1 = i
    <3>1. n \in Nat /\ i + 1 <= n
      BY <1>1, <1>4
    <3> HIDE DEF n
    <3> QED
      BY <3>1
  <2>2. HeadSoFar(s, line, k, p)
    BY <1>4, <2>1
  <2>3. p \in HeaderLists /\ Append(p, h[j]) = SubSeq(h, 1, j)
    BY <1>2, <2>1
  <2>4. NameReads(name) /\ ValueReads(value)
    BY <1>1, <2>1 DEF HeadersRead
  <2>5. name \in String /\ value \in String
    BY <2>4 DEF NameReads, ValueReads, Clean
  <2>6. h[j] = [name |-> name, value |-> value]
    <3> DEFINE R == [name : String, value : String]
    <3>1. h \in Seq(R)
      BY <1>1 DEF HeaderLists
    <3> HIDE DEF R, n, j
    <3>2. h[j] \in R
      BY <1>1, <2>1, <3>1
    <3> QED
      BY <3>2 DEF R
  <2>7. Places(p, name) = {}
    <3>1. ASSUME NEW m \in DOMAIN p, p[m].name = ToLower(name) PROVE FALSE
      <4>1. m \in 1..i /\ p[m] = h[m]
        BY <1>2, <2>1, <3>1
      <4>2. m \in 1..n /\ m # j
        BY <1>1, <1>4, <4>1
      <4>3. h[m].name = h[j].name
        BY <2>4, <3>1, <4>1 DEF NameReads
      <4> QED
        BY <1>1, <2>1, <4>2, <4>3 DEF HeadersRead
    <3> HIDE DEF p, name
    <3> QED
      BY <3>1 DEF Places
  <2>8. u = Added(s, l)
    <3> DEFINE e == LineEnd
               x == l \o e
               a == f[i]
    <3> HIDE DEF name, value
    <3>a. l \in String
      BY <2>5, HeaderLineOctets
    <3>b. e \in String
      BY OctetAssumption DEF LineEnd, String
    <3>1. l \in String /\ e \in String
      BY <3>a, <3>b
    <3> HIDE DEF l, e
    <3>2. x \in String
      BY <3>1, ConcatOctets
    <3>3. EncodeHeader(h[j]) = x
      BY Zenon DEF EncodeHeader, HeaderLine, LineEnd, l, e, name, value
    <3>4. f[j] = f[i] \o x /\ f[i] \in String
      <4>1. f[j] = f[j - 1] \o hs[j] /\ hs[j] = EncodeHeader(h[j])
        BY <1>1, <2>1 DEF Joins
      <4>2. f[i] \in String
        BY <2>1 DEF Joins
      <4> HIDE DEF x
      <4> QED
        BY <2>1, <3>3, <4>1, <4>2
    <3> HIDE DEF x
    <3> HIDE DEF a
    <3>5. t \in Seq(Octet) /\ a \in Seq(Octet) /\ x \in Seq(Octet)
      BY <1>1, <3>2, <3>4 DEF String, a
    <3>6. (t \o a) \o x = t \o (a \o x)
      BY <3>5, ConcatAssociative
    <3>7. f[j] = a \o x
      BY <3>4 DEF a
    <3>8. u = (t \o a) \o x
      BY <3>6, <3>7
    <3> QED
      BY <3>8, Zenon DEF Added, x, e, a
  <2> HIDE DEF u, l, s, p, name, value
  <2>9. u = Added(s, HeaderLine(name, value))
    BY <2>8 DEF l
  <2>10. HeadSoFar(u, line, k, Append(p, [name |-> name, value |-> value]))
    BY <2>2, <2>3, <2>4, <2>7, <2>9, HeaderWritten
  <2> QED
    BY <2>3, <2>6, <2>10 DEF u
<1>5. \A i \in Nat : i \in T => i + 1 \in T
  BY <1>1, <1>4 DEF T
<1>6. n \in T
  BY <1>1, <1>3, <1>5, NatsByInduction
<1>7. SubSeq(h, 1, n) = h
  <2> DEFINE p == SubSeq(h, 1, n)
  <2>1. p \in HeaderLists /\ DOMAIN p = 1..n /\ \A j \in 1..n : p[j] = h[j]
    <3>1. n \in 0..n
      BY <1>1
    <3> HIDE DEF n
    <3> QED
      BY <1>2, <3>1
  <2> HIDE DEF p
  <2>2. p = h
    BY <1>1, <2>1, SeqEqual DEF HeaderLists
  <2> QED
    BY <2>2 DEF p
<1>8. HeadSoFar(t \o f[n], line, k, SubSeq(h, 1, n))
  BY <1>1, <1>6 DEF T
<1> QED
  BY <1>7, <1>8, Zenon

(* An empty line behind them completes the head.                           *)
LEMMA HeadWritten ==
  ASSUME NEW t, NEW line, NEW k, NEW h, HeadSoFar(t, line, k, h),
         ~BadRequestLine(line), NEW u, u = Added(t, <<>>)
  PROVE  /\ u \in String
         /\ HeadComplete(u)
         /\ \A p \in HeadEnds(u) : ~Malformed(u, p)
         /\ HeadLines(u)[Min(DOMAIN HeadLines(u))] = line
         /\ HeadersOf(HeadLines(u)) = h
         /\ Max(DOMAIN HeadLines(u)) + 1 = Len(u)
<1> DEFINE l == <<>>
           q == Len(u) - 1
           S == CRLFs(t) \ {k}
           lines == HeadLines(u)
           before == LinesOf(t)
<1>1. Clean(l) /\ WholeLines(t) /\ t # <<>> /\ Len(l) = 0
  BY DEF Clean, CRLFs, String, HeadSoFar
<1> HIDE DEF l
<1>2. u = Added(t, l)
  BY DEF l
<1>3. /\ WholeLines(u) /\ Len(u) = Len(t) + Len(l) + 2
      /\ Len(t) \in Nat
      /\ Arrived(t, u)
      /\ CRLFs(u) = CRLFs(t) \cup {q}
  BY <1>1, <1>2, LineAdded
<1>4. \A p \in CRLFs(t) : /\ p \in Nat /\ p < Len(t)
                          /\ p < q /\ LineAt(u, p) = LineAt(t, p)
  BY <1>1, <1>2, LastLine
<1>5. q \in Nat /\ q = Len(t) + 1 /\ q - 2 = Len(t) - 1 /\ q + 1 = Len(u)
  BY <1>1, <1>3
<1> HIDE DEF q
<1>6. IsBlankLine(u, q)
  BY <1>1, <1>3, <1>5 DEF IsBlankLine, WholeLines
<1>7. \A p \in CRLFs(t) : ~IsBlankLine(u, p)
  BY <1>3, HeadEndsOfPrefix DEF HeadSoFar
<1>8. HeadEnds(u) = CRLFs(u)
  <2>1. ASSUME NEW p \in CRLFs(u), NEW r \in CRLFs(u), r < p
        PROVE  ~IsBlankLine(u, r)
    <3>1. r # q
      BY <1>3, <1>4, <1>5, <2>1
    <3> QED
      BY <1>3, <1>7, <3>1
  <2> QED
    BY <2>1 DEF HeadEnds
<1>9. k \in CRLFs(t) /\ \A p \in CRLFs(t) : k <= p
  BY DEF HeadSoFar
<1>10. /\ k \in CRLFs(u) /\ k \in Nat /\ k < q
       /\ \A p \in CRLFs(u) : k <= p /\ p <= q /\ p \in 0..q /\ p \in Nat
  BY <1>3, <1>4, <1>5, <1>9
<1>11. Min(CRLFs(u)) = k
  <2>1. CRLFs(u) \in SUBSET Nat
    BY <1>10
  <2> QED
    BY <1>10, <2>1, MinIs
<1>12. Max(CRLFs(u)) = q
  <2>1. CRLFs(u) \in SUBSET (0..q) /\ q \in CRLFs(u)
    BY <1>3, <1>10
  <2> QED
    BY <1>5, <1>10, <2>1, MaxIs
<1>13. DOMAIN lines = CRLFs(u) /\ \A p \in CRLFs(u) : lines[p] = LineAt(u, p)
  BY <1>8 DEF HeadLines
<1>14. CRLFs(u) \ {k, q} = S
  <2>1. q \notin CRLFs(t)
    BY <1>4, <1>5
  <2> QED
    BY <1>3, <2>1
<1>15. HeadersAt(before, S) = h /\ \A p \in S : before[p] = LineAt(t, p)
  BY DEF HeadSoFar, LinesOf
<1>16. /\ S \in SUBSET (1..q)
       /\ \A p \in S : HasColon(LineAt(t, p)) /\ ~BadHeaderLine(LineAt(t, p))
  <2>1. \A p \in CRLFs(t) : p \in 1..q
    BY <1>1, <1>4, <1>5, CRLFsType DEF WholeLines
  <2> QED
    BY <2>1 DEF HeadSoFar
<1> HIDE DEF lines, before
<1>17. HeadersOf(lines) = HeadersAt(lines, S)
  <2>1. DOMAIN lines \ {Min(DOMAIN lines), Max(DOMAIN lines)} = S
    BY <1>11, <1>12, <1>13, <1>14
  <2> QED
    BY <2>1, Zenon DEF HeadersOf, HeadersAt
<1>18. HeadersAt(lines, S) = h
  <2>1. \A p \in S : HasColon(before[p]) /\ lines[p] = before[p]
    BY <1>3, <1>4, <1>13, <1>15, <1>16
  <2> HIDE DEF S
  <2> QED
    BY <1>5, <1>15, <1>16, <2>1, HeadersOfSameLines
<1>19. lines[k] = line
  BY <1>4, <1>9, <1>10, <1>13 DEF HeadSoFar
<1>20. ASSUME NEW p \in CRLFs(u)
       PROVE  ~Malformed(u, p)
  <2>1. CASE p = k
    <3>1. IsRequestLine(u, p) /\ LineAt(u, p) = line
      BY <1>10, <1>13, <1>19, <2>1 DEF IsRequestLine
    <3> QED
      BY <3>1 DEF Malformed
  <2>2. CASE p = q
    <3>1. ~IsRequestLine(u, p)
      BY <1>5, <1>10, <2>2 DEF IsRequestLine
    <3> QED
      BY <1>6, <2>2, <3>1 DEF Malformed
  <2>3. CASE p \in S
    <3>1. ~IsRequestLine(u, p)
      <4>1. p \in Nat /\ k <= p /\ p # k
        BY <1>4, <1>9, <2>3
      <4> QED
        BY <1>10, <4>1 DEF IsRequestLine
    <3>2. ~BadHeaderLine(LineAt(u, p))
      BY <1>4, <1>16, <2>3
    <3> QED
      BY <3>1, <3>2 DEF Malformed
  <2> QED
    BY <1>14, <2>1, <2>2, <2>3
<1>21. HeadComplete(u)
  BY <1>3, <1>6, <1>8 DEF HeadComplete
<1> QED
  BY <1>3, <1>5, <1>8, <1>11, <1>12, <1>13, <1>17, <1>18, <1>19, <1>20, <1>21
  DEF WholeLines, lines

-----------------------------------------------------------------------------
(* Writing a request.                                                      *)

(* A request that a decoder reads as it was written.                       *)
RequestReads(r) ==
  LET declared == HeaderGet(r.headers, ContentLengthName)
  IN  /\ r = NewRequest(r.method, r.path, RequestVersion, r.body, r.headers)
      /\ r.method \in Http10Method
      /\ MethodToken(r.method) \in String
      /\ VersionToken(RequestVersion) \in String
      /\ PathReads(r.path)
      /\ HeadersRead(r.headers)
      /\ \/ declared = None /\ r.body = None
         \/ \E body \in String :
              /\ r.body = Some(body)
              /\ declared # None /\ ~BadContentLength(declared[1])
              /\ ContentLength(declared[1]) = Len(body)

(* What encode writes: a complete head and the body.                       *)
LEMMA EncodeWrites ==
  ASSUME NEW r, RequestReads(r)
  PROVE  \E u \in String :
           /\ Encode(r) = u \o (IF r.body = None THEN <<>> ELSE r.body[1])
           /\ HeadComplete(u)
           /\ \A p \in HeadEnds(u) : ~Malformed(u, p)
           /\ HeadLines(u)[Min(DOMAIN HeadLines(u))]
                = RequestLine(r.method, r.path)
           /\ HeadersOf(HeadLines(u)) = r.headers
           /\ Max(DOMAIN HeadLines(u)) + 1 = Len(u)
<1> DEFINE line == RequestLine(r.method, r.path)
           h == r.headers
           n == Len(h)
           hs == [i \in DOMAIN h |-> EncodeHeader(h[i])]
           t == line \o LineEnd
           k == Len(line) + 1
<1>1. /\ r.method \in Http10Method /\ PathReads(r.path)
      /\ MethodToken(r.method) \in String
      /\ VersionToken(RequestVersion) \in String
      /\ HeadersRead(h)
      /\ r.version = RequestVersion
  <2>1. r.version = RequestVersion
    BY DEF RequestReads, NewRequest
  <2> QED
    BY <2>1 DEF RequestReads
<1>2. Clean(line) /\ ~BadRequestLine(line)
  BY <1>1, RequestLineReads
<1> HIDE DEF line
<1>3. HeadSoFar(t, line, k, EmptyHeaders)
  BY <1>2, RequestLineWritten
<1>4. h \in HeaderLists /\ n \in Nat /\ DOMAIN h = 1..n /\ n = Len(h)
  BY <1>1 DEF HeadersRead, HeaderLists
<1> HIDE DEF h
<1>5. \A i \in 1..n : hs[i] = EncodeHeader(h[i]) /\ hs[i] \in String
  <2> TAKE i \in 1..n
  <2>1. hs[i] = EncodeHeader(h[i])
    BY <1>4
  <2> DEFINE name == h[i].name
             value == h[i].value
             l == HeaderLine(name, value)
             e == LineEnd
  <2>2. Clean(name) /\ Clean(value)
    BY <1>1, <1>4 DEF HeadersRead, NameReads, ValueReads
  <2> HIDE DEF name, value
  <2>3. l \in String
    BY <2>2, HeaderLineIsClean DEF Clean
  <2>4. e \in String
    BY OctetAssumption DEF LineEnd, String
  <2>5. EncodeHeader(h[i]) = l \o e
    BY Zenon DEF EncodeHeader, HeaderLine, LineEnd, name, value
  <2> HIDE DEF l, e
  <2>6. l \o e \in String
    BY <2>3, <2>4, ConcatOctets
  <2> QED
    BY <2>1, <2>5, <2>6
<1>6. Len(hs) = n /\ (n = 0 => hs = <<>>)
  BY <1>4
<1> HIDE DEF hs
<1>7. PICK f : Joins(f, hs, n)
  BY <1>4, <1>5, JoinExists
<1>8. FlattenSeq(hs) = f[n]
  BY <1>4, <1>5, <1>6, <1>7, FlattenJoins
<1> DEFINE s == t \o f[n]
           u == s \o LineEnd
<1>9. HeadSoFar(s, line, k, h)
  <2>1. \A i \in DOMAIN h : hs[i] = EncodeHeader(h[i])
    BY <1>4, <1>5
  <2> HIDE DEF t, k
  <2> QED
    BY <1>1, <1>3, <1>4, <1>7, <2>1, HeadersWritten
<1>10. u = Added(s, <<>>)
  <2>1. <<>> \o LineEnd = LineEnd
    BY OctetAssumption, ConcatEmptySeq DEF LineEnd
  <2> QED
    BY <2>1, Zenon DEF Added
<1>11. Encode(r) = u \o (IF r.body = None THEN <<>> ELSE r.body[1])
  <2>1. Encode(r) = line \o LineEnd \o FlattenSeq(hs) \o LineEnd
                      \o (IF r.body = None THEN <<>> ELSE r.body[1])
    BY <1>1, Zenon DEF Encode, RequestLine, LineEnd, line, hs, h
  <2> QED
    BY <1>8, <2>1, Zenon
<1> HIDE DEF s, u, k
<1>12. /\ u \in String
       /\ HeadComplete(u)
       /\ \A p \in HeadEnds(u) : ~Malformed(u, p)
       /\ HeadLines(u)[Min(DOMAIN HeadLines(u))] = line
       /\ HeadersOf(HeadLines(u)) = h
       /\ Max(DOMAIN HeadLines(u)) + 1 = Len(u)
  BY <1>2, <1>9, <1>10, HeadWritten
<1> QED
  BY <1>11, <1>12 DEF line, h

(* What a request that reads as written encodes to decodes to that request,*)
(* if a std::string can hold it.                                           *)
LEMMA EncodedDecodes ==
  ASSUME NEW r, RequestReads(r), Len(Encode(r)) <= MaxString
  PROVE  DecodeExactly(Encode(r)) = Parsed(r, Len(Encode(r)))
<1> DEFINE text == Encode(r)
           b == IF r.body = None THEN <<>> ELSE r.body[1]
           declared == HeaderGet(r.headers, ContentLengthName)
<1>1. /\ r = NewRequest(r.method, r.path, RequestVersion, r.body, r.headers)
      /\ r.method \in Http10Method /\ PathReads(r.path)
      /\ MethodToken(r.method) \in String
      /\ VersionToken(RequestVersion) \in String
  BY DEF RequestReads
<1>2. PICK u \in String :
        /\ text = u \o b
        /\ HeadComplete(u)
        /\ \A p \in HeadEnds(u) : ~Malformed(u, p)
        /\ HeadLines(u)[Min(DOMAIN HeadLines(u))] = RequestLine(r.method, r.path)
        /\ HeadersOf(HeadLines(u)) = r.headers
        /\ Max(DOMAIN HeadLines(u)) + 1 = Len(u)
  BY EncodeWrites
<1> HIDE DEF text
<1>3. \/ declared = None /\ r.body = None /\ b = <<>>
      \/ /\ r.body = Some(b) /\ b \in String
         /\ declared # None /\ ~BadContentLength(declared[1])
         /\ ContentLength(declared[1]) = Len(b)
  <2>1. CASE declared = None /\ r.body = None
    BY <2>1
  <2>2. ASSUME NEW body \in String, r.body = Some(body),
               declared # None, ~BadContentLength(declared[1]),
               ContentLength(declared[1]) = Len(body)
        PROVE  /\ r.body = Some(b) /\ b \in String
               /\ declared # None /\ ~BadContentLength(declared[1])
               /\ ContentLength(declared[1]) = Len(b)
    <3>1. b = body
      BY <2>2 DEF Some, None
    <3> HIDE DEF b, declared
    <3> QED
      BY <2>2, <3>1
  <2> QED
    BY <2>1, <2>2 DEF RequestReads
<1>4. b \in String
  BY <1>3 DEF String
<1> HIDE DEF b, declared
<1>5. /\ text \in String
      /\ Len(u) \in Nat /\ Len(b) \in Nat
      /\ Len(text) = Len(u) + Len(b)
      /\ \A i \in 1..Len(u) : text[i] = u[i]
      /\ \A i \in 1..Len(b) : text[Len(u) + i] = b[i]
  BY <1>2, <1>4, ConcatOctets
<1>6. Len(text) <= MaxString
  BY DEF text
<1>7. Arrived(u, text)
  BY <1>2, <1>5 DEF Arrived
<1>8. /\ HeadComplete(text)
      /\ HeadEnds(text) = HeadEnds(u)
      /\ HeadLines(text) = HeadLines(u)
  BY <1>2, <1>7, HeadOfPrefix
<1>9. ~(\E p \in HeadEnds(text) : Malformed(text, p))
  BY <1>2, <1>7, <1>8, MalformedOfPrefix
<1> DEFINE lines == HeadLines(u)
           line == RequestLine(r.method, r.path)
<1>10. Decode(text) = DecodeHead(text, lines)
  BY <1>8, <1>9 DEF Decode
<1>11. RequestOf(lines, r.body, r.headers) = r
  <2>1. MethodPart(line) = MethodToken(r.method) /\ PathPart(line) = r.path
    BY <1>1, RequestLineReads
  <2> HIDE DEF line
  <2>2. lines[Min(DOMAIN lines)] = line
    BY <1>2 DEF line
  <2> HIDE DEF lines
  <2> DEFINE method == CHOOSE m \in HttpMethod :
                         m \in ParseHttpMethod(MethodPart(line), RequestVersion)
  <2>3. method = r.method
    <3>1. r.method \in HttpMethod
          /\ r.method \in ParseHttpMethod(MethodPart(line), RequestVersion)
      BY <1>1, <2>1 DEF Http10Method, HttpMethod, ParseHttpMethod
    <3>2. ASSUME NEW m, m \in ParseHttpMethod(MethodPart(line), RequestVersion)
          PROVE  m = r.method
      BY <2>1, <3>2 DEF ParseHttpMethod, MethodToken
    <3> QED
      BY <3>1, <3>2
  <2>4. RequestOf(lines, r.body, r.headers)
          = NewRequest(method, PathPart(line), RequestVersion, r.body, r.headers)
    BY <2>2, Zenon DEF RequestOf
  <2> HIDE DEF method
  <2> QED
    BY <1>1, <2>1, <2>3, <2>4
<1> HIDE DEF lines
<1>12. HeadersOf(lines) = r.headers /\ Max(DOMAIN lines) + 1 = Len(u)
  BY <1>2 DEF lines
<1>13. Decode(text) = Parsed(r, Len(text))
  <2>1. CASE declared = None /\ r.body = None /\ b = <<>>
    <3>1. DecodeHead(text, lines) = Parsed(RequestOf(lines, None, r.headers), Len(u))
      BY <1>12, <2>1, Zenon DEF DecodeHead, declared
    <3>2. Len(text) = Len(u)
      BY <1>5, <2>1
    <3> QED
      BY <1>10, <1>11, <2>1, <3>1, <3>2
  <2>2. CASE /\ r.body = Some(b) /\ b \in String
             /\ declared # None /\ ~BadContentLength(declared[1])
             /\ ContentLength(declared[1]) = Len(b)
    <3>1. DecodeHead(text, lines) = DecodeBody(text, lines, r.headers, Len(u), Len(b))
      BY <1>12, <2>2, Zenon DEF DecodeHead, declared
    <3> DEFINE end == (Len(u) + Len(b)) % SizeMod
               position == Len(u)
               length == Len(b)
    <3>2. /\ end = Len(u) + Len(b)
          /\ Len(b) \in 0..MaxString
      <4>1. Len(u) \in 0..MaxString /\ Len(b) \in 0..MaxString
        BY <1>5, <1>6, SizeAssumption
      <4> QED
        BY <4>1, SumDoesNotWrap
    <3>3. end \in 0..Len(text) /\ Len(u) + Len(b) = Len(text)
      BY <1>5, <3>2
    <3>4. BodyAt(text, Len(u), Len(b)) = r.body
      <4>1. SubSeq(text, Len(u) + 1, Len(u) + Len(b)) = b
        BY <1>4, <1>5, SubSeqReads
      <4> QED
        BY <2>2, <4>1 DEF BodyAt
    <3>5. DecodeBody(text, lines, r.headers, Len(u), Len(b))
            = IF end \notin 0..Len(text) THEN Incomplete
              ELSE IF Len(b) \notin 0..MaxString THEN Throws("length_error")
              ELSE Parsed(RequestOf(lines, BodyAt(text, Len(u), Len(b)), r.headers),
                          Len(u) + Len(b))
      BY Zenon DEF DecodeBody
    <3> HIDE DEF end
    <3>6. DecodeBody(text, lines, r.headers, Len(u), Len(b))
            = Parsed(RequestOf(lines, r.body, r.headers), Len(text))
      BY <3>2, <3>3, <3>4, <3>5
    <3> QED
      BY <1>10, <1>11, <3>1, <3>6
  <2> QED
    BY <1>3, <2>1, <2>2
<1> DEFINE d == Parsed(r, Len(text))
<1>14. d.outcome = "request" /\ d.consumed = Len(text)
  BY DEF Parsed
<1>15. DecodeExactly(text) = d
  <2> HIDE DEF d
  <2>1. Decode(text) = d
    BY <1>13 DEF d
  <2> QED
    BY <1>14, <2>1 DEF DecodeExactly
<1> QED
  BY <1>15 DEF text

-----------------------------------------------------------------------------
(* Reading clean lines.                                                    *)

(* What a part of a string is made of.                                     *)
LEMMA PartOctets ==
  ASSUME NEW v \in String, NEW a \in Nat \ {0}, NEW b \in Nat, b <= Len(v)
  PROVE  LET part == SubSeq(v, a, b)
         IN  /\ part \in String /\ Len(part) \in Nat
             /\ Len(part) = IF a <= b THEN b - a + 1 ELSE 0
             /\ DOMAIN part = 1..Len(part)
             /\ \A i \in 1..Len(part) : /\ a + i - 1 \in 1..Len(v)
                                        /\ part[i] = v[a + i - 1]
<1> DEFINE part == SubSeq(v, a, b)
<1>1. Len(v) \in Nat /\ v \in Seq(Octet)
  BY DEF String
<1>2. \A i \in a..b : v[i] \in Octet
  BY <1>1
<1>3. /\ part \in Seq(Octet)
      /\ Len(part) = IF a <= b THEN b - a + 1 ELSE 0
      /\ \A i \in 1..(b - a + 1) : part[i] = v[a + i - 1]
  BY <1>2, SubSeqProperties
<1> HIDE DEF part
<1>4. Len(part) \in Nat /\ DOMAIN part = 1..Len(part)
  BY <1>3
<1>5. \A i \in 1..Len(part) : i \in 1..(b - a + 1) /\ a + i - 1 \in 1..Len(v)
  BY <1>1, <1>3
<1> QED
  BY <1>3, <1>4, <1>5 DEF String, part

(* A part of a clean string is clean, and has no octet the string has not. *)
LEMMA PartIsClean ==
  ASSUME NEW v, Clean(v), NEW a \in Nat \ {0}, NEW b \in Nat, b <= Len(v)
  PROVE  /\ Clean(SubSeq(v, a, b))
         /\ \A o : Occurrences(o, v) = {} => Occurrences(o, SubSeq(v, a, b)) = {}
<1> DEFINE part == SubSeq(v, a, b)
<1>1. v \in String /\ Len(v) \in Nat /\ DOMAIN v = 1..Len(v)
  BY DEF Clean, String
<1>2. /\ part \in String /\ Len(part) \in Nat
      /\ Len(part) = (IF a <= b THEN b - a + 1 ELSE 0)
      /\ DOMAIN part = 1..Len(part)
      /\ \A i \in 1..Len(part) : /\ a + i - 1 \in 1..Len(v)
                                 /\ part[i] = v[a + i - 1]
  BY <1>1, PartOctets
<1> HIDE DEF part
<1>3. ASSUME NEW p \in CRLFs(part) PROVE FALSE
  <2>1. p \in 1..(Len(part) - 1) /\ part[p] = CR /\ part[p + 1] = LF
    BY <1>3 DEF CRLFs
  <2>2. p \in 1..Len(part) /\ p + 1 \in 1..Len(part)
    BY <1>2, <2>1
  <2> DEFINE q == a + p - 1
  <2>3. a + (p + 1) - 1 = q + 1
    BY <2>1
  <2>4. q \in 1..Len(v) /\ q + 1 \in 1..Len(v) /\ v[q] = CR /\ v[q + 1] = LF
    BY <1>2, <2>1, <2>2, <2>3
  <2> HIDE DEF q
  <2>5. q \in 1..(Len(v) - 1)
    BY <1>1, <2>4
  <2>6. q \in CRLFs(v)
    BY <2>4, <2>5 DEF CRLFs
  <2> QED
    BY <2>6 DEF Clean
<1>4. ASSUME NEW o, Occurrences(o, v) = {}, NEW i \in Occurrences(o, part)
      PROVE  FALSE
  <2>1. i \in 1..Len(part) /\ part[i] = o
    BY <1>2, <1>4 DEF Occurrences
  <2>2. a + i - 1 \in DOMAIN v /\ v[a + i - 1] = o
    BY <1>1, <1>2, <2>1
  <2> QED
    BY <1>4, <2>2 DEF Occurrences
<1> QED
  BY <1>2, <1>3, <1>4 DEF Clean, part

(* The line that ends at a line end has none in it.                        *)
LEMMA LineIsClean ==
  ASSUME NEW s \in String, NEW p \in CRLFs(s)
  PROVE  Clean(LineAt(s, p))
<1> DEFINE Starts == {1} \cup {q + 2 : q \in {r \in CRLFs(s) : r < p}}
           a == LineStart(s, p)
           b == p - 1
           line == SubSeq(s, a, b)
           n == Len(s) + 2
<1>1. /\ Len(s) \in Nat
      /\ \A q \in CRLFs(s) : q \in Nat /\ 1 <= q /\ q + 1 <= Len(s)
  BY CRLFsType DEF String
<1>2. Starts \in SUBSET (1..n) /\ 1 \in Starts
  BY <1>1
<1>3. a = Max(Starts)
  BY DEF LineStart
<1> HIDE DEF a
<1>4. a \in Nat \ {0} /\ \A y \in Starts : y <= a
  <2> HIDE DEF Starts, n
  <2>1. n \in Nat /\ Starts \in SUBSET (0..n)
    BY <1>1, <1>2 DEF n
  <2>2. Max(Starts) \in Starts /\ \A y \in Starts : y <= Max(Starts)
    BY <1>2, <2>1, MaxOfNats
  <2>3. a \in 1..n
    BY <1>2, <1>3, <2>2
  <2> QED
    BY <1>3, <2>1, <2>2, <2>3
<1>5. p \in Nat /\ b \in Nat /\ b <= Len(s) /\ b = p - 1
  BY <1>1
<1> HIDE DEF b
<1>6. /\ line \in String /\ Len(line) \in Nat
      /\ Len(line) = (IF a <= b THEN b - a + 1 ELSE 0)
      /\ DOMAIN line = 1..Len(line)
      /\ \A i \in 1..Len(line) : /\ a + i - 1 \in 1..Len(s)
                                 /\ line[i] = s[a + i - 1]
  BY <1>4, <1>5, PartOctets
<1> HIDE DEF line
<1>7. ASSUME NEW i \in CRLFs(line) PROVE FALSE
  <2>1. i \in 1..(Len(line) - 1) /\ line[i] = CR /\ line[i + 1] = LF
    BY <1>7 DEF CRLFs
  <2>2. i \in 1..Len(line) /\ i + 1 \in 1..Len(line)
    BY <1>6, <2>1
  <2> DEFINE q == a + i - 1
  <2>3. a + (i + 1) - 1 = q + 1
    BY <1>4, <2>1
  <2>4. q \in 1..Len(s) /\ q + 1 \in 1..Len(s) /\ s[q] = CR /\ s[q + 1] = LF
    BY <1>6, <2>1, <2>2, <2>3
  <2>5. q < p /\ ~(q + 2 <= a) /\ q \in 1..(Len(s) - 1)
    BY <1>1, <1>4, <1>5, <1>6, <2>1, <2>4
  <2> HIDE DEF q
  <2>6. q \in CRLFs(s)
    BY <2>4, <2>5 DEF CRLFs
  <2>7. q + 2 \in Starts
    BY <2>5, <2>6
  <2> QED
    BY <1>4, <2>5, <2>7
<1>8. LineAt(s, p) = line
  BY DEF LineAt, line, b, a
<1> QED
  BY <1>6, <1>7, <1>8 DEF Clean

(* Trimming on the left leaves a part that does not begin with a blank.    *)
LEMMA TrimLeftReads ==
  ASSUME NEW v, Clean(v)
  PROVE  /\ ValueReads(TrimLeft(v))
         /\ \A o : Occurrences(o, v) = {} => Occurrences(o, TrimLeft(v)) = {}
<1>1. v \in String /\ Len(v) \in Nat /\ DOMAIN v = 1..Len(v)
  BY DEF Clean, String
<1>2. CASE Ink(v) = {}
  BY <1>2 DEF TrimLeft, ValueReads, Clean, CRLFs, String, Occurrences
<1>3. CASE Ink(v) # {}
  <2> DEFINE m == Min(Ink(v))
             n == Len(v)
             w == SubSeq(v, m, n)
  <2>1. Ink(v) \in SUBSET Nat
    BY <1>1 DEF Ink
  <2>2. m \in Ink(v)
    BY <1>3, <2>1, MinOfNats
  <2> HIDE DEF m
  <2>3. m \in Nat \ {0} /\ m <= n /\ ~IsSpace(v[m])
    BY <1>1, <2>2 DEF Ink
  <2>4. TrimLeft(v) = w
    BY <1>3 DEF TrimLeft, m
  <2>5. /\ Clean(w)
        /\ \A o : Occurrences(o, v) = {} => Occurrences(o, w) = {}
    BY <1>1, <2>3, PartIsClean
  <2>6. /\ Len(w) = (IF m <= n THEN n - m + 1 ELSE 0)
        /\ \A i \in 1..Len(w) : w[i] = v[m + i - 1]
    BY <1>1, <2>3, PartOctets
  <2>7. 1 \in 1..Len(w) /\ m + 1 - 1 = m
    BY <1>1, <2>3, <2>6
  <2>8. w[1] = v[m]
    BY <2>6, <2>7
  <2> QED
    BY <2>3, <2>4, <2>5, <2>8 DEF ValueReads
<1> QED
  BY <1>2, <1>3

(* Trimming on the right leaves a part that does not end with one.         *)
LEMMA TrimRightReads ==
  ASSUME NEW v, ValueReads(v)
  PROVE  LET w == TrimRight(v)
         IN  /\ ValueReads(w)
             /\ w # <<>> => ~IsSpace(w[Len(w)])
             /\ \A o : Occurrences(o, v) = {} => Occurrences(o, w) = {}
<1>1. v \in String /\ Len(v) \in Nat /\ DOMAIN v = 1..Len(v) /\ Clean(v)
  BY DEF ValueReads, Clean, String
<1>2. CASE Ink(v) = {}
  BY <1>2 DEF TrimRight, ValueReads, Clean, CRLFs, String, Occurrences
<1>3. CASE Ink(v) # {}
  <2> DEFINE m == Max(Ink(v))
             one == 1
             w == SubSeq(v, one, m)
  <2>1. Ink(v) \in SUBSET (0..Len(v))
    BY <1>1 DEF Ink
  <2>2. m \in Ink(v)
    BY <1>1, <1>3, <2>1, MaxOfNats
  <2> HIDE DEF m
  <2>3. m \in Nat \ {0} /\ m <= Len(v) /\ ~IsSpace(v[m])
    BY <1>1, <2>2 DEF Ink
  <2>4. TrimRight(v) = w
    BY <1>3 DEF TrimRight, m
  <2>5. /\ Clean(w)
        /\ \A o : Occurrences(o, v) = {} => Occurrences(o, w) = {}
    BY <1>1, <2>3, PartIsClean
  <2>6. /\ Len(w) = (IF one <= m THEN m - one + 1 ELSE 0)
        /\ \A i \in 1..Len(w) : w[i] = v[one + i - 1]
    <3>1. one \in Nat \ {0}
      OBVIOUS
    <3> HIDE DEF one
    <3> QED
      BY <1>1, <2>3, <3>1, PartOctets
  <2>7. Len(w) = m /\ 1 \in 1..Len(w) /\ m \in 1..Len(w) /\ one + 1 - 1 = 1
        /\ one + m - 1 = m
    BY <2>3, <2>6
  <2> HIDE DEF w
  <2>8. w[1] = v[1] /\ w[Len(w)] = v[m]
    BY <2>6, <2>7
  <2>9. v # <<>>
    BY <1>1, <2>3
  <2> QED
    BY <2>3, <2>4, <2>5, <2>8, <2>9 DEF ValueReads
<1> QED
  BY <1>2, <1>3

-----------------------------------------------------------------------------
(* Reading headers.                                                        *)

(* A name as HeaderMap keeps it: what reads as written, or nothing.        *)
NameIsKept(name) ==
  /\ ValueReads(name)
  /\ ToLower(name) = name
  /\ Occurrences(COLON, name) = {}
  /\ name # <<>> => ~IsSpace(name[Len(name)])

(* Headers as a decoder makes them.                                        *)
HeadersAreKept(h) ==
  /\ h \in HeaderLists
  /\ \A i \in DOMAIN h : NameIsKept(h[i].name) /\ ValueReads(h[i].value)
  /\ \A i, j \in DOMAIN h : h[i].name = h[j].name => i = j

(* A trimmed name in lower case.                                           *)
LEMMA LowerIsKept ==
  ASSUME NEW v, ValueReads(v), Occurrences(COLON, v) = {},
         v # <<>> => ~IsSpace(v[Len(v)])
  PROVE  NameIsKept(ToLower(v))
<1> DEFINE w == ToLower(v)
           n == Len(v)
<1>1. /\ v \in String /\ n \in Nat /\ DOMAIN v = 1..n
         /\ \A i \in 1..n : v[i] \in Octet
      /\ CRLFs(v) = {}
  BY DEF ValueReads, Clean, String
<1>2. /\ w \in String /\ Len(w) = n /\ DOMAIN w = 1..n
      /\ \A i \in 1..n : w[i] = LowerCase[v[i]]
  <2>1. \A o \in Octet : LowerCase[o] \in Octet
    BY OctetAssumption
  <2>2. w = [i \in 1..n |-> LowerCase[v[i]]]
    BY <1>1 DEF ToLower
  <2>3. \A i \in 1..n : LowerCase[v[i]] \in Octet
    BY <1>1, <2>1
  <2>4. w \in Seq(Octet)
    BY <1>1, <2>2, <2>3
  <2>5. Len(w) = n
    BY <1>1, <2>2
  <2> QED
    BY <2>2, <2>4, <2>5 DEF String
<1> HIDE DEF w
<1>3. ASSUME NEW o \in {CR, LF, SP, HT, COLON}, NEW i \in 1..n, w[i] = o
      PROVE  v[i] = o
  BY <1>1, <1>2, <1>3, OctetAssumption
<1>4. Clean(w)
  <2>1. ASSUME NEW p \in CRLFs(w) PROVE FALSE
    <3>1. p \in 1..(n - 1) /\ p \in 1..n /\ p + 1 \in 1..n /\ w[p] = CR
          /\ w[p + 1] = LF
      BY <1>1, <1>2, <2>1 DEF CRLFs
    <3>2. v[p] = CR /\ v[p + 1] = LF
      BY <1>3, <3>1
    <3> QED
      BY <1>1, <3>1, <3>2 DEF CRLFs
  <2> QED
    BY <1>2, <2>1 DEF Clean
<1>5. Occurrences(COLON, w) = {}
  <2>1. ASSUME NEW i \in Occurrences(COLON, w) PROVE FALSE
    <3>1. i \in 1..n /\ w[i] = COLON
      BY <1>2, <2>1 DEF Occurrences
    <3>2. v[i] = COLON
      BY <1>3, <3>1
    <3> QED
      BY <1>1, <3>1, <3>2 DEF Occurrences
  <2> QED
    BY <2>1
<1>6. \A i \in 1..n : ~IsSpace(v[i]) => ~IsSpace(w[i])
  BY <1>3 DEF IsSpace
<1>7. w # <<>> => v # <<>> /\ 1 \in 1..n /\ n \in 1..n
  BY <1>1, <1>2
<1>8. w # <<>> => ~IsSpace(w[1]) /\ ~IsSpace(w[Len(w)])
  BY <1>2, <1>6, <1>7 DEF ValueReads
<1>9. ToLower(w) = w
  <2>1. \A i \in 1..n : LowerCase[w[i]] = w[i]
    BY <1>1, <1>2, OctetAssumption
  <2>2. ToLower(w) = [i \in 1..n |-> w[i]]
    BY <1>2, <2>1 DEF ToLower
  <2>3. w = [i \in 1..n |-> w[i]]
    BY <1>2 DEF String
  <2> QED
    BY <2>2, <2>3
<1> QED
  BY <1>4, <1>5, <1>8, <1>9 DEF NameIsKept, ValueReads, w

(* Setting a header of a kept name keeps names apart.                      *)
LEMMA HeaderSetKeeps ==
  ASSUME NEW h, HeadersAreKept(h), NEW name \in String, NameIsKept(ToLower(name)),
         NEW value \in String, ValueReads(value)
  PROVE  HeadersAreKept(HeaderSet(h, name, value))
<1> DEFINE g == HeaderSet(h, name, value)
           R == [name : String, value : String]
           n == Len(h)
           low == ToLower(name)
<1>1. g \in HeaderLists
  BY HeaderSetType DEF HeadersAreKept
<1>2. h \in Seq(R) /\ n \in Nat /\ DOMAIN h = 1..n
  BY DEF HeadersAreKept, HeaderLists
<1>3. CASE Places(h, name) # {}
  <2>1. g = [i \in DOMAIN h |-> IF i \in Places(h, name)
                                THEN [h[i] EXCEPT !.value = value] ELSE h[i]]
    BY <1>3 DEF HeaderSet
  <2> HIDE DEF g
  <2>2. DOMAIN g = DOMAIN h
    BY <2>1
  <2>3. \A i \in DOMAIN h : g[i].name = h[i].name
        /\ g[i].value \in {value, h[i].value}
    <3> TAKE i \in DOMAIN h
    <3>1. h[i] \in [name : String, value : String]
      <4> HIDE DEF R, n
      <4>1. h[i] \in R
        BY <1>2
      <4> QED
        BY <4>1 DEF R
    <3>2. /\ [h[i] EXCEPT !.value = value].name = h[i].name
          /\ [h[i] EXCEPT !.value = value].value = value
      BY <3>1
    <3>3. g[i] = IF i \in Places(h, name) THEN [h[i] EXCEPT !.value = value] ELSE h[i]
      BY <2>1
    <3> QED
      BY <3>2, <3>3
  <2>4. \A i \in DOMAIN h : NameIsKept(g[i].name) /\ ValueReads(g[i].value)
    BY <2>3 DEF HeadersAreKept
  <2>5. \A i, j \in DOMAIN h : g[i].name = g[j].name => i = j
    BY <2>3 DEF HeadersAreKept
  <2> QED
    BY <1>1, <2>2, <2>4, <2>5 DEF HeadersAreKept, g
<1>4. CASE Places(h, name) = {}
  <2> DEFINE x == [name |-> low, value |-> value]
  <2>1. g = Append(h, x)
    BY <1>4 DEF HeaderSet
  <2>2. low \in String
    BY DEF NameIsKept, ValueReads, Clean
  <2>3. x \in R /\ x.name = low /\ x.value = value
    BY <2>2
  <2> HIDE DEF x, R, g
  <2>4. /\ Len(g) = n + 1
        /\ \A i \in 1..n : g[i] = h[i]
        /\ g[n + 1] = x
    BY <1>2, <2>1, <2>3, AppendProperties
  <2>5. DOMAIN g = 1..(n + 1)
    BY <1>1, <2>4 DEF HeaderLists
  <2>6. \A i \in 1..n : h[i].name # low
    BY <1>2, <1>4 DEF Places
  <2> HIDE DEF low
  <2>7. \A i \in 1..(n + 1) : NameIsKept(g[i].name) /\ ValueReads(g[i].value)
    <3> TAKE i \in 1..(n + 1)
    <3>1. CASE i = n + 1
      BY <2>3, <2>4, <3>1 DEF low
    <3>2. CASE i # n + 1
      <4>1. i \in 1..n
        BY <1>2, <3>2
      <4> QED
        BY <1>2, <2>4, <4>1 DEF HeadersAreKept
    <3> QED
      BY <3>1, <3>2
  <2>8. ASSUME NEW i \in 1..(n + 1), NEW j \in 1..(n + 1), g[i].name = g[j].name
        PROVE  i = j
    <3>1. i \in 1..n \/ i = n + 1
      BY <1>2
    <3>2. j \in 1..n \/ j = n + 1
      BY <1>2
    <3>3. CASE i \in 1..n /\ j \in 1..n
      BY <1>2, <2>4, <2>8, <3>3 DEF HeadersAreKept
    <3>4. CASE i \in 1..n /\ j = n + 1
      BY <2>3, <2>4, <2>6, <2>8, <3>4
    <3>5. CASE i = n + 1 /\ j \in 1..n
      BY <2>3, <2>4, <2>6, <2>8, <3>5
    <3> QED
      BY <3>1, <3>2, <3>3, <3>4, <3>5
  <2> QED
    BY <1>1, <2>5, <2>7, <2>8 DEF HeadersAreKept, g
<1> QED
  BY <1>3, <1>4

(* Adding the header of a clean line to them.                              *)
LEMMA AddHeaderKeeps ==
  ASSUME NEW line, Clean(line), HasColon(line), NEW h, HeadersAreKept(h)
  PROVE  HeadersAreKept(AddHeaderLine(line, h))
<1> DEFINE colon == Min(Occurrences(COLON, line))
           n == Len(line)
           before == SubSeq(line, 1, colon - 1)
           behind == SubSeq(line, colon + 1, n)
           name == Trim(before)
           value == TrimLeft(behind)
<1>1. line \in String /\ n \in Nat /\ DOMAIN line = 1..n
  BY DEF Clean, String
<1>2. Occurrences(COLON, line) \in SUBSET Nat /\ Occurrences(COLON, line) # {}
  BY <1>1 DEF HasColon, Occurrences
<1>3. colon \in Occurrences(COLON, line)
      /\ \A y \in Occurrences(COLON, line) : colon <= y
  BY <1>2, MinOfNats
<1>4. AddHeaderLine(line, h) = HeaderSet(h, name, value)
  BY Zenon DEF AddHeaderLine
<1> HIDE DEF colon
<1>5. /\ colon \in 1..n /\ 1 \in Nat \ {0} /\ colon - 1 \in Nat
         /\ colon - 1 <= n
      /\ colon + 1 \in Nat \ {0}
  BY <1>1, <1>3 DEF Occurrences
<1>6. Clean(before) /\ Clean(behind)
  BY <1>1, <1>5, PartIsClean
<1>7. Occurrences(COLON, before) = {}
  <2> DEFINE one == 1
             b == colon - 1
             part == SubSeq(line, one, b)
  <2>1. one \in Nat \ {0} /\ b \in Nat /\ b <= n
    BY <1>5
  <2> HIDE DEF one, b
  <2>2. /\ Len(part) \in Nat
        /\ Len(part) = IF one <= b THEN b - one + 1 ELSE 0
        /\ DOMAIN part = 1..Len(part)
        /\ \A i \in 1..Len(part) : /\ one + i - 1 \in 1..Len(line)
                                   /\ part[i] = line[one + i - 1]
    BY <1>1, <2>1, PartOctets
  <2> HIDE DEF part
  <2>3. ASSUME NEW i \in Occurrences(COLON, part) PROVE FALSE
    <3>1. i \in 1..Len(part) /\ part[i] = COLON /\ one + i - 1 = i
      BY <2>2, <2>3 DEF Occurrences, one
    <3>2. i \in 1..n /\ line[i] = COLON /\ i < colon
      BY <1>5, <2>2, <3>1 DEF one, b
    <3>3. i \in Occurrences(COLON, line)
      BY <1>1, <3>2 DEF Occurrences
    <3> QED
      BY <1>3, <1>5, <3>2, <3>3
  <2> QED
    BY <2>3 DEF part, one, b
<1> HIDE DEF before, behind
<1>8. ValueReads(value)
  BY <1>6, TrimLeftReads
<1> DEFINE w == TrimLeft(before)
<1>9. ValueReads(w) /\ Occurrences(COLON, w) = {}
  BY <1>6, <1>7, TrimLeftReads
<1>10. name = TrimRight(w)
  BY DEF Trim
<1> HIDE DEF w, name, value
<1>11. /\ ValueReads(name) /\ Occurrences(COLON, name) = {}
       /\ name # <<>> => ~IsSpace(name[Len(name)])
  BY <1>9, <1>10, TrimRightReads
<1>12. NameIsKept(ToLower(name))
  BY <1>11, LowerIsKept
<1>13. name \in String /\ value \in String
  BY <1>8, <1>11 DEF ValueReads, Clean
<1> QED
  BY <1>4, <1>8, <1>12, <1>13, HeaderSetKeeps

(* The headers of clean lines.                                             *)
LEMMA HeadersKept ==
  ASSUME NEW n \in Nat, NEW S \in SUBSET (1..n), NEW lines,
         \A p \in S : HasColon(lines[p]) /\ Clean(lines[p])
  PROVE  HeadersAreKept(HeadersAt(lines, S))
<1>1. PICK iter \in [SUBSET S -> HeaderLists] :
        /\ Folds(iter, S, EmptyHeaders, LineStep(lines, S))
        /\ HeadersAt(lines, S) = iter[S]
  BY HeadersAreFolded
<1> DEFINE T == {s \in SUBSET S : HeadersAreKept(iter[s])}
<1>2. {} \in T
  <2>1. {} \in SUBSET S
    OBVIOUS
  <2>2. iter[{}] = <<>>
    BY <1>1, <2>1, Zenon DEF Folds, EmptyHeaders
  <2>3. HeadersAreKept(<<>>)
    BY DEF HeadersAreKept, HeaderLists
  <2> QED
    BY <2>1, <2>2, <2>3
<1>3. ASSUME NEW s \in SUBSET S, s # {}, s \ {Max(s)} \in T
      PROVE  s \in T
  <2> DEFINE m == Max(s)
             h == iter[s \ {m}]
  <2>1. m \in S
    <3>1. s \in SUBSET (0..n)
      OBVIOUS
    <3> QED
      BY <1>3, <3>1, MaxOfNats
  <2>2. h \in HeaderLists /\ HeadersAreKept(h)
    BY <1>1, <1>3
  <2>3. iter[s] = LineStep(lines, S)[<<m, h>>]
    BY <1>1, <1>3, Zenon DEF Folds
  <2> HIDE DEF m, h
  <2>4. iter[s] = AddHeaderLine(lines[m], h)
    BY <2>1, <2>2, <2>3, LineStepIs
  <2>5. HeadersAreKept(AddHeaderLine(lines[m], h))
    BY <2>1, <2>2, AddHeaderKeeps
  <2> QED
    BY <2>4, <2>5
<1> HIDE DEF T
<1>4. SUBSET S \subseteq T
  BY <1>2, <1>3, SubsetsByInduction
<1>5. S \in T
  BY <1>4
<1> QED
  BY <1>1, <1>5 DEF T

-----------------------------------------------------------------------------
(* Reading a request.                                                      *)

(* What a clean request line says reads as written.                        *)
LEMMA RequestLineRead ==
  ASSUME NEW line, Clean(line), ~BadRequestLine(line)
  PROVE  /\ PathReads(PathPart(line))
         /\ VersionToken(RequestVersion) \in String
         /\ \E m \in Http10Method :
              /\ MethodToken(m) = MethodPart(line)
              /\ MethodToken(m) \in String
<1> DEFINE n == Len(line)
           S == Occurrences(SP, line)
<1>1. line \in String /\ n \in Nat /\ DOMAIN line = 1..n
  BY DEF Clean, String
<1>2. S \in SUBSET (1..n) /\ Cardinality(S) = 2
  BY <1>1 DEF Occurrences, BadRequestLine
<1> HIDE DEF S
<1>3. PICK a \in S, b \in S : a < b /\ S = {a, b} /\ Max(S) = b
  BY <1>1, <1>2, TwoPositions
<1>4. a \in 1..n /\ b \in 1..n
  BY <1>2
<1>5. Min(S) = a
  <2>1. S \in SUBSET Nat /\ a \in S /\ \A y \in S : a <= y
    BY <1>3, <1>4
  <2> QED
    BY <2>1, MinIs
<1> DEFINE path == PathPart(line)
           c == a + 1
           d == b - 1
<1>6. path = SubSeq(line, c, d)
  BY <1>3, <1>5 DEF PathPart, S
<1>7. c \in Nat \ {0} /\ d \in Nat /\ d <= n /\ c = a + 1 /\ d = b - 1
  BY <1>1, <1>3, <1>4
<1> HIDE DEF c, d, path
<1>8. Clean(path)
  BY <1>6, <1>7, PartIsClean
<1>9. Occurrences(SP, path) = {}
  <2>1. /\ Len(path) \in Nat /\ DOMAIN path = 1..Len(path)
        /\ Len(path) = IF c <= d THEN d - c + 1 ELSE 0
        /\ \A i \in 1..Len(path) : /\ c + i - 1 \in 1..Len(line)
                                   /\ path[i] = line[c + i - 1]
    <3>1. c \in Nat \ {0} /\ d \in Nat /\ d <= Len(line)
      BY <1>7
    <3> QED
      BY <1>1, <1>6, <3>1, PartOctets
  <2>2. ASSUME NEW i \in Occurrences(SP, path) PROVE FALSE
    <3>1. i \in 1..Len(path) /\ path[i] = SP
      BY <2>1, <2>2 DEF Occurrences
    <3>2. c + i - 1 \in 1..n /\ line[c + i - 1] = SP
      BY <2>1, <3>1
    <3>3. c + i - 1 \in S
      BY <1>1, <3>2 DEF S, Occurrences
    <3>4. a < c + i - 1 /\ c + i - 1 < b
      BY <1>4, <1>7, <2>1, <3>1
    <3> QED
      BY <1>3, <1>4, <3>3, <3>4
  <2> QED
    BY <2>2
<1>10. MethodPart(line) \in String
  <2>1. a - 1 \in Nat /\ a - 1 <= n /\ 1 \in Nat \ {0}
    BY <1>1, <1>4
  <2>2. MethodPart(line) = SubSeq(line, 1, a - 1)
    BY <1>5 DEF MethodPart, S
  <2> QED
    BY <1>1, <2>1, <2>2, PieceIsString
<1>11. VersionPart(line) \in String
  <2>1. b + 1 \in Nat \ {0} /\ n <= n
    BY <1>1, <1>4
  <2>2. VersionPart(line) = SubSeq(line, b + 1, n)
    BY <1>3 DEF VersionPart, S
  <2> QED
    BY <1>1, <2>1, <2>2, PieceIsString
<1>12. VersionToken(RequestVersion) \in String
  BY <1>11 DEF BadRequestLine
<1>13. PICK m : m \in ParseHttpMethod(MethodPart(line), RequestVersion)
  BY DEF BadRequestLine
<1>14. m \in Http10Method /\ MethodToken(m) = MethodPart(line)
  BY <1>13 DEF ParseHttpMethod, RequestVersion, HTTP_1_0, HTTP_1_1
<1> QED
  BY <1>8, <1>9, <1>10, <1>12, <1>14 DEF PathReads, path

(* A decoded request is what the lines of a complete head say, with a body *)
(* that is a string.                                                       *)
LEMMA DecodedIs ==
  ASSUME NEW s \in String, Len(s) <= MaxString,
         NEW r, NEW c \in 1..Len(s), Decode(s) = Parsed(r, c)
  PROVE  /\ HeadComplete(s) /\ \A p \in HeadEnds(s) : ~Malformed(s, p)
         /\ \E body :
              /\ r = RequestOf(HeadLines(s), body, HeadersOf(HeadLines(s)))
              /\ \/ body = None
                 \/ \E b \in String : body = Some(b)
<1>1. Len(s) \in Nat
  BY DEF String
<1>2. /\ \A p \in HeadEnds(s) : ~Malformed(s, p)
      /\ HeadComplete(s)
      /\ Decode(s) = DecodeHead(s, HeadLines(s))
  BY DEF Decode, Throws, Incomplete, Parsed
<1> DEFINE lines == HeadLines(s)
           headers == HeadersOf(lines)
           position == Max(DOMAIN lines) + 1
           declared == HeaderGet(headers, ContentLengthName)
           length == ContentLength(declared[1])
<1>3. position \in 2..Len(s)
  BY <1>2, HeadFits
<1>4. CASE declared = None
  <2>1. DecodeHead(s, lines) = Parsed(RequestOf(lines, None, headers), position)
    BY <1>4 DEF DecodeHead
  <2> HIDE DEF position, declared, headers, lines
  <2>2. r = RequestOf(lines, None, headers)
    BY <1>2, <2>1 DEF Parsed, lines
  <2> QED
    BY <1>2, <2>2, Zenon DEF lines, headers
<1>5. CASE declared # None /\ BadContentLength(declared[1])
  <2>1. DecodeHead(s, lines) = Throws("invalid_argument")
    BY <1>5 DEF DecodeHead
  <2> QED
    BY <1>2, <2>1 DEF Throws, Parsed
<1>6. CASE declared # None /\ ~BadContentLength(declared[1])
  <2>1. DecodeHead(s, lines) = DecodeBody(s, lines, headers, position, length)
    BY <1>6 DEF DecodeHead
  <2> HIDE DEF position, declared, headers, length, lines
  <2>2. /\ length \in Nat /\ position + length <= Len(s)
        /\ Parsed(r, c) = Parsed(RequestOf(lines, BodyAt(s, position, length), headers),
                                 position + length)
    BY <1>1, <1>2, <1>3, <2>1, DecodeBodyCases
    DEF lines, Incomplete, Throws, Parsed
  <2>3. r = RequestOf(lines, BodyAt(s, position, length), headers)
    BY <2>2 DEF Parsed
  <2> DEFINE b == SubSeq(s, position + 1, position + length)
  <2>4. b \in String
    <3>1. position + 1 \in Nat \ {0} /\ position + length \in Nat
      BY <1>1, <1>3, <2>2
    <3> QED
      BY <2>2, <3>1, PieceIsString
  <2>5. BodyAt(s, position, length) = Some(b)
    BY Zenon DEF BodyAt
  <2> QED
    BY <1>2, <2>3, <2>4, <2>5, Zenon DEF lines, headers
<1> QED
  BY <1>4, <1>5, <1>6

(* A decoded request reads as written, unless a header has no name.        *)
LEMMA DecodedReads ==
  ASSUME NEW s \in String, Len(s) <= MaxString,
         NEW r, NEW c \in 1..Len(s), Decode(s) = Parsed(r, c),
         \A i \in DOMAIN r.headers : r.headers[i].name # <<>>
  PROVE  RequestReads(r)
<1> DEFINE lines == HeadLines(s)
           headers == HeadersOf(lines)
           first == Min(HeadEnds(s))
           last == Max(HeadEnds(s))
           line == lines[first]
           S == HeadEnds(s) \ {first, last}
           declared == HeaderGet(headers, ContentLengthName)
<1>1. /\ HeadComplete(s) /\ \A p \in HeadEnds(s) : ~Malformed(s, p)
  BY DecodedIs
<1>2. PICK body :
        /\ r = RequestOf(lines, body, headers)
        /\ \/ body = None
           \/ \E b \in String : body = Some(b)
  BY DecodedIs
<1>3. /\ DOMAIN lines = HeadEnds(s)
      /\ \A p \in HeadEnds(s) : lines[p] = LineAt(s, p) /\ p \in CRLFs(s)
  BY DEF HeadLines, HeadEnds
<1>4. Len(s) \in Nat /\ \A p \in HeadEnds(s) : p \in Nat /\ 1 <= p
      /\ p + 1 <= Len(s)
  BY CRLFsType DEF HeadEnds, String
<1>5. HeadEnds(s) # {} /\ HeadEnds(s) \in SUBSET (1..Len(s))
      /\ HeadEnds(s) \in SUBSET Nat
  BY <1>1, <1>4 DEF HeadComplete
<1>6. first \in HeadEnds(s) /\ \A p \in HeadEnds(s) : first <= p
  BY <1>5, MinOfNats
<1>7. headers = HeadersAt(lines, S)
  BY <1>3, Zenon DEF HeadersOf, HeadersAt
<1>8. \A p \in S : HasColon(lines[p]) /\ Clean(lines[p])
  BY <1>1, <1>3, HeaderLinesHaveColons, LineIsClean
<1> HIDE DEF lines, first, last
<1>9. HeadersAreKept(headers)
  <2>1. S \in SUBSET (1..Len(s))
    BY <1>5
  <2> HIDE DEF S
  <2> QED
    BY <1>4, <1>7, <1>8, <2>1, HeadersKept
<1> HIDE DEF headers
<1>10. Clean(line) /\ ~BadRequestLine(line)
  <2>1. Clean(line)
    BY <1>3, <1>6, LineIsClean
  <2>2. IsRequestLine(s, first)
    <3>1. ASSUME NEW q \in CRLFs(s), q < first PROVE FALSE
      <4>1. first \in CRLFs(s)
            /\ \A p \in CRLFs(s) : p < first => ~IsBlankLine(s, p)
        BY <1>6 DEF HeadEnds
      <4>2. \A p \in CRLFs(s) : p \in Nat
        BY CRLFsType
      <4>3. q \in HeadEnds(s)
        BY <3>1, <4>1, <4>2 DEF HeadEnds
      <4> QED
        BY <1>6, <3>1, <4>1, <4>2, <4>3
    <3>2. first \in CRLFs(s) /\ \A p \in CRLFs(s) : p \in Nat
      BY <1>6, CRLFsType DEF HeadEnds
    <3> QED
      BY <3>1, <3>2 DEF IsRequestLine
  <2> QED
    BY <1>1, <1>3, <1>6, <2>1, <2>2 DEF Malformed
<1> HIDE DEF line
<1>11. PathReads(PathPart(line)) /\ VersionToken(RequestVersion) \in String
  BY <1>10, RequestLineRead
<1>12. PICK m \in Http10Method :
         MethodToken(m) = MethodPart(line) /\ MethodToken(m) \in String
  BY <1>10, RequestLineRead
<1> DEFINE method == CHOOSE x \in HttpMethod :
                       x \in ParseHttpMethod(MethodPart(line), RequestVersion)
<1>13. method = m
  <2>1. m \in HttpMethod
        /\ m \in ParseHttpMethod(MethodPart(line), RequestVersion)
    BY <1>12 DEF Http10Method, HttpMethod, ParseHttpMethod
  <2>2. ASSUME NEW x, x \in ParseHttpMethod(MethodPart(line), RequestVersion)
        PROVE  x = m
    BY <1>12, <2>2 DEF ParseHttpMethod, MethodToken
  <2> QED
    BY <2>1, <2>2
<1>14. r = NewRequest(method, PathPart(line), RequestVersion, body, headers)
  <2>1. lines[Min(DOMAIN lines)] = line
    BY <1>3 DEF line, first
  <2> QED
    BY <1>2, <2>1, Zenon DEF RequestOf
<1> HIDE DEF method
<1>15. /\ r.method = m /\ r.path = PathPart(line) /\ r.body = body
          /\ r.headers = headers
       /\ r = NewRequest(r.method, r.path, RequestVersion, r.body, r.headers)
  BY <1>13, <1>14 DEF NewRequest
<1>16. HeadersRead(r.headers)
  <2>1. \A i \in DOMAIN headers : NameReads(headers[i].name)
    <3> TAKE i \in DOMAIN headers
    <3>1. NameIsKept(headers[i].name) /\ headers[i].name # <<>>
      BY <1>9, <1>15 DEF HeadersAreKept
    <3> QED
      BY <3>1 DEF NameIsKept, NameReads, ValueReads
  <2> QED
    BY <1>9, <1>15, <2>1 DEF HeadersAreKept, HeadersRead
<1>17. \/ declared = None /\ r.body = None
       \/ \E b \in String :
            /\ r.body = Some(b)
            /\ declared # None /\ ~BadContentLength(declared[1])
            /\ ContentLength(declared[1]) = Len(b)
  <2>1. /\ declared = None => r.body = None
        /\ declared # None =>
             /\ ~BadContentLength(declared[1])
             /\ r.body # None
             /\ Len(r.body[1]) = ContentLength(declared[1])
    BY <1>15, DecodedBody
  <2> HIDE DEF declared
  <2>2. CASE declared # None
    <3>1. PICK b \in String : r.body = Some(b)
      BY <1>2, <1>15, <2>1, <2>2
    <3>2. r.body[1] = b
      BY <3>1 DEF Some
    <3> QED
      BY <2>1, <2>2, <3>1, <3>2
  <2> QED
    BY <2>1, <2>2
<1> QED
  BY <1>11, <1>12, <1>15, <1>16, <1>17 DEF RequestReads, declared

=============================================================================

-------------------------- MODULE Http10CodeProofs --------------------------
(***************************************************************************)
(* The scan of decodeHttp10Request finds what Decode names, the queue's    *)
(* block follows its peak, and every step of Http10ParserCode is a step of *)
(* Http10Parser or none.                                                   *)
(***************************************************************************)
EXTENDS Http10ParserCode, Http10RequestProofs

-----------------------------------------------------------------------------
(* Line after line.                                                        *)

(* q is the last line end before p.                                        *)
Follows(s, p, q) ==
  /\ q \in CRLFs(s) /\ q < p
  /\ \A r \in CRLFs(s) : r < p => r <= q

(* A line begins behind the one before it.                                 *)
LEMMA NextLineStart ==
  ASSUME NEW s \in String, NEW p \in CRLFs(s), NEW q, Follows(s, p, q)
  PROVE  LineAt(s, p) = SubSeq(s, q + 2, p - 1)
<1> DEFINE starts == {1} \cup {r + 2 : r \in {x \in CRLFs(s) : x < p}}
<1>1. Len(s) \in Nat /\ \A r \in CRLFs(s) : r \in Nat /\ 1 <= r /\ r + 1 <= Len(s)
  BY CRLFsType DEF String
<1>2. starts \in SUBSET (0..(Len(s) + 1)) /\ starts # {}
  <2>1. \A r \in CRLFs(s) : r + 2 \in 0..(Len(s) + 1)
    BY <1>1
  <2>2. 1 \in 0..(Len(s) + 1)
    BY <1>1
  <2> QED
    BY <2>1, <2>2
<1>3. q + 2 \in starts /\ q \in Nat /\ 1 <= q
  BY <1>1 DEF Follows
<1>4. \A y \in starts : y <= q + 2
  <2>1. \A r \in CRLFs(s) : r < p => r + 2 <= q + 2
    BY <1>1, <1>3 DEF Follows
  <2> QED
    BY <1>3, <2>1
<1>5. LineAt(s, p) = SubSeq(s, Max(starts), p - 1)
  BY DEF LineAt, LineStart
<1> HIDE DEF starts
<1> DEFINE m == Max(starts)
<1>6. m \in starts /\ q + 2 <= m
  <2>1. Len(s) + 1 \in Nat
    BY <1>1
  <2> QED
    BY <1>2, <1>3, <2>1, MaxOfNats
<1>7. m \in Nat /\ m <= q + 2
  <2>1. m \in 0..(Len(s) + 1)
    BY <1>2, <1>6
  <2> QED
    BY <1>1, <1>4, <1>6, <2>1
<1> HIDE DEF m
<1>8. m = q + 2
  BY <1>3, <1>6, <1>7
<1> QED
  BY <1>5, <1>8 DEF m

(* A line is a string.                                                     *)
LEMMA LineIsString ==
  ASSUME NEW s \in String, NEW p \in CRLFs(s)
  PROVE  LineAt(s, p) \in String
<1> DEFINE starts == {1} \cup {r + 2 : r \in {x \in CRLFs(s) : x < p}}
<1>1. Len(s) \in Nat /\ \A r \in CRLFs(s) : r \in Nat /\ 1 <= r /\ r + 1 <= Len(s)
  BY CRLFsType DEF String
<1>2. starts \in SUBSET (0..(Len(s) + 1)) /\ starts # {}
      /\ \A y \in starts : y \in Nat \ {0}
  <2>1. \A r \in CRLFs(s) : r + 2 \in 0..(Len(s) + 1) /\ r + 2 \in Nat \ {0}
    BY <1>1
  <2>2. 1 \in 0..(Len(s) + 1)
    BY <1>1
  <2> QED
    BY <2>1, <2>2
<1> HIDE DEF starts
<1>3. Max(starts) \in Nat \ {0}
  <2>1. Len(s) + 1 \in Nat
    BY <1>1
  <2> QED
    BY <1>2, <2>1, MaxOfNats
<1>4. p - 1 \in Nat /\ p - 1 <= Len(s)
  BY <1>1
<1> QED
  BY <1>3, <1>4, PieceIsString DEF LineAt, LineStart, starts

-----------------------------------------------------------------------------
(* The scan, line by line.                                                 *)

(* Every line, and not only those of the head.                             *)
Lines(s) == [p \in CRLFs(s) |-> LineAt(s, p)]

First(s) == Min(CRLFs(s))

(* The line ends between the first one and position.                       *)
Between(s, position) == {p \in CRLFs(s) : First(s) < p /\ p < position}

(* The request line was taken, and the header lines before position.       *)
HeadTaken(s, sc, position) ==
  /\ First(s) \in CRLFs(s) /\ First(s) < position
  /\ \A p \in CRLFs(s) : First(s) <= p
  /\ \A p \in CRLFs(s) : p < position => ~IsBlankLine(s, p) /\ ~Malformed(s, p)
  /\ \E m \in ParseHttpMethod(MethodPart(LineAt(s, First(s))), RequestVersion) :
       sc.method = Some(m)
  /\ sc.path = PathPart(LineAt(s, First(s)))
  /\ sc.headers = HeadersAt(Lines(s), Between(s, position))

ScanTypes(s, sc) ==
  sc \in [phase : Phases, lineEnd : 0..Len(s), position : 0..Len(s),
          method : {sc.method}, path : {sc.path}, headers : {sc.headers},
          result : {sc.result}]

(* Nothing was skipped: there is no line end from position to lineEnd.     *)
ScanInv(s, sc) ==
  /\ ScanTypes(s, sc)
  /\ sc.phase = "request line" =>
       /\ sc.position = 0
       /\ sc.headers = EmptyHeaders
       /\ \A p \in CRLFs(s) : sc.lineEnd < p
  /\ sc.phase = "headers" =>
       /\ sc.position <= sc.lineEnd
       /\ sc.position - 1 \in CRLFs(s)
       /\ \A p \in CRLFs(s) : p < sc.position \/ sc.lineEnd < p
       /\ HeadTaken(s, sc, sc.position)
  /\ sc.phase = "body" =>
       /\ sc.position - 1 \in CRLFs(s)
       /\ IsBlankLine(s, sc.position - 1)
       /\ HeadTaken(s, sc, sc.position - 1)
  /\ sc.phase = "done" => sc.result = Decode(s)

(* The scan of any buffer starts right.                                    *)
LEMMA ScanStartsRight ==
  ASSUME NEW s \in String
  PROVE  ScanInv(s, ScanStart)
<1>1. Len(s) \in Nat /\ \A r \in CRLFs(s) : r \in Nat /\ 1 <= r
  BY CRLFsType DEF String
<1>2. ScanTypes(s, ScanStart)
  BY <1>1 DEF ScanTypes, ScanStart, Phases
<1>3. /\ ScanStart.phase = "request line" /\ ScanStart.position = 0
      /\ ScanStart.lineEnd = 0 /\ ScanStart.headers = EmptyHeaders
  BY DEF ScanStart
<1> DEFINE sc == ScanStart
<1> HIDE DEF sc
<1>4. ScanTypes(s, sc)
  BY <1>2 DEF sc
<1>5. /\ sc.phase = "request line" /\ sc.position = 0 /\ sc.lineEnd = 0
      /\ sc.headers = EmptyHeaders
  BY <1>3 DEF sc
<1>6. \A p \in CRLFs(s) : sc.lineEnd < p
  <2> TAKE p \in CRLFs(s)
  <2>1. p \in Nat /\ 1 <= p
    BY <1>1
  <2>2. 0 < p
    BY <2>1
  <2> QED
    BY <1>5, <2>2
<1>7. ScanInv(s, sc)
  BY <1>4, <1>5, <1>6 DEF ScanInv
<1> QED
  BY <1>7 DEF sc

(* What the head is does not depend on the other local variables.          *)
LEMMA HeadStaysTaken ==
  ASSUME NEW s, NEW sc, NEW other, NEW position, HeadTaken(s, sc, position),
         other.method = sc.method, other.path = sc.path,
         other.headers = sc.headers
  PROVE  HeadTaken(s, other, position)
BY DEF HeadTaken

(* The scan stops where a line ends, and only there.                       *)
LEMMA LineEndsHere ==
  ASSUME buffer_ \in String, ScanTypes(buffer_, scan), InLines, OctetsLeft
  PROVE  AtLineEnd <=> scan.lineEnd + 1 \in CRLFs(buffer_)
<1>1. Len(buffer_) \in Nat /\ scan.lineEnd \in 0..Len(buffer_)
  BY DEF String, ScanTypes
<1> DEFINE p == scan.lineEnd + 1
<1>2. p \in 1..(Len(buffer_) - 1) /\ p + 1 = scan.lineEnd + 2
  BY <1>1 DEF OctetsLeft, Size
<1>3. p \in CRLFs(buffer_) <=> buffer_[p] = CR /\ buffer_[p + 1] = LF
  <2> HIDE DEF p
  <2> QED
    BY <1>2 DEF CRLFs
<1> QED
  BY <1>2, <1>3 DEF AtLineEnd

(* The numbers of the scan are numbers.                                    *)
LEMMA ScanNumbers ==
  ASSUME NEW s \in String, NEW sc, ScanTypes(s, sc)
  PROVE  /\ Len(s) \in Nat
         /\ \A p \in CRLFs(s) : p \in Nat /\ 1 <= p /\ p + 1 <= Len(s)
         /\ sc.lineEnd \in Nat /\ sc.lineEnd <= Len(s)
         /\ sc.position \in Nat /\ sc.position <= Len(s)
<1>1. Len(s) \in Nat
  BY DEF String
<1>2. \A p \in CRLFs(s) : p \in Nat /\ 1 <= p /\ p + 1 <= Len(s)
  BY CRLFsType
<1>3. sc.lineEnd \in 0..Len(s) /\ sc.position \in 0..Len(s)
  BY DEF ScanTypes
<1> QED
  BY <1>1, <1>2, <1>3

(* An octet that begins no CRLF pair is skipped.                           *)
LEMMA SkipOctetKeepsScan ==
  ASSUME buffer_ \in String, ScanInv(buffer_, scan), SkipOctet
  PROVE  ScanInv(buffer_, scan')
<1> DEFINE s == buffer_
           e == scan.lineEnd
<1>0. ScanTypes(s, scan) /\ scan.phase \in {"request line", "headers"}
  BY DEF ScanInv, SkipOctet, InLines
<1>1. /\ Len(s) \in Nat /\ e \in Nat
      /\ \A p \in CRLFs(s) : p \in Nat
  BY <1>0, ScanNumbers
<1>2. e + 1 < Len(s) /\ e + 1 \notin CRLFs(s)
  BY <1>0, LineEndsHere DEF SkipOctet, OctetsLeft, Size
<1>3. scan' = [scan EXCEPT !.lineEnd = e + 1]
  BY DEF SkipOctet
<1>4. /\ scan'.phase = scan.phase /\ scan'.position = scan.position
      /\ scan'.method = scan.method /\ scan'.path = scan.path
      /\ scan'.headers = scan.headers /\ scan'.lineEnd = e + 1
  BY <1>0, <1>3 DEF ScanTypes
<1>5. ScanTypes(s, scan')
  <2>1. e + 1 \in 0..Len(s)
    <3> HIDE DEF e, s
    <3> QED
      BY <1>1, <1>2
  <2> QED
    BY <1>0, <1>3, <2>1 DEF ScanTypes
<1>6. \A p \in CRLFs(s) : e < p => e + 1 < p
  <2> HIDE DEF e, s
  <2> QED
    BY <1>1, <1>2
<1>7. CASE scan.phase = "request line"
  BY <1>4, <1>5, <1>6, <1>7 DEF ScanInv
<1>8. CASE scan.phase = "headers"
  <2>1. /\ scan.position <= e /\ scan.position - 1 \in CRLFs(s)
        /\ \A p \in CRLFs(s) : p < scan.position \/ e < p
        /\ HeadTaken(s, scan, scan.position)
    BY <1>8 DEF ScanInv
  <2>2. HeadTaken(s, scan', scan.position)
    BY <1>4, <2>1, HeadStaysTaken
  <2>3. scan.position <= e + 1
    <3>1. scan.position \in Nat
      BY <1>0, ScanNumbers
    <3> DEFINE pos == scan.position
    <3>2. pos \in Nat /\ pos <= e
      BY <2>1, <3>1
    <3> HIDE DEF e, s, pos
    <3>3. pos <= e + 1
      BY <1>1, <3>2
    <3> QED
      BY <3>3 DEF pos
  <2> QED
    BY <1>4, <1>5, <1>6, <1>8, <2>1, <2>2, <2>3 DEF ScanInv
<1> QED
  BY <1>0, <1>7, <1>8

(* A verdict that is the decoder's ends the scan.                          *)
LEMMA ReturnKeepsScan ==
  ASSUME NEW result, ScanTypes(buffer_, scan), Return(result),
         Decode(buffer_) = result
  PROVE  ScanInv(buffer_, scan')
<1>1. scan' = [scan EXCEPT !.phase = "done", !.result = result]
  BY DEF Return
<1>2. scan'.phase = "done" /\ scan'.result = result /\ ScanTypes(buffer_, scan')
  BY <1>1 DEF ScanTypes, Phases
<1> QED
  BY <1>2 DEF ScanInv

(* At the end of the buffer there is no further line.                      *)
LEMMA RunOutKeepsScan ==
  ASSUME buffer_ \in String, ScanInv(buffer_, scan), RunOut
  PROVE  ScanInv(buffer_, scan')
<1> DEFINE s == buffer_
           e == scan.lineEnd
<1>0. ScanTypes(s, scan) /\ scan.phase \in {"request line", "headers"}
  BY DEF ScanInv, RunOut, InLines
<1>1. /\ Len(s) \in Nat /\ e \in Nat
      /\ \A p \in CRLFs(s) : p \in Nat /\ p + 1 <= Len(s)
  BY <1>0, ScanNumbers
<1>2. \A p \in CRLFs(s) : ~(e < p)
  <2>1. ~(e + 1 < Len(s))
    BY DEF RunOut, OctetsLeft, Size
  <2> HIDE DEF e, s
  <2> QED
    BY <1>1, <2>1
<1>3. \A p \in CRLFs(s) : ~IsBlankLine(s, p) /\ ~Malformed(s, p)
  <2>1. CASE scan.phase = "request line"
    <3>1. CRLFs(s) = {}
      <4>1. \A p \in CRLFs(s) : e < p
        BY <2>1 DEF ScanInv
      <4> QED
        BY <1>2, <4>1
    <3> QED
      BY <3>1
  <2>2. CASE scan.phase = "headers"
    <3>1. \A p \in CRLFs(s) : p < scan.position
      <4>1. \A p \in CRLFs(s) : p < scan.position \/ e < p
        BY <2>2 DEF ScanInv
      <4> QED
        BY <1>2, <4>1
    <3> QED
      BY <2>2, <3>1 DEF ScanInv, HeadTaken
  <2> QED
    BY <1>0, <2>1, <2>2
<1>4. Decode(s) = Incomplete
  BY <1>3 DEF Decode, HeadComplete, HeadEnds
<1> QED
  BY <1>0, <1>4, ReturnKeepsScan DEF RunOut

(* Line ends do not overlap.                                               *)
LEMMA CRLFsApart ==
  ASSUME NEW s, NEW p \in CRLFs(s)
  PROVE  p + 1 \notin CRLFs(s)
BY DEF CRLFs, CR, LF

(* The line that ends here, and what is known about it.                    *)
LEMMA LineTaken ==
  ASSUME buffer_ \in String, ScanInv(buffer_, scan), AtLineEnd,
         NEW p, p = scan.lineEnd + 1
  PROVE  /\ ScanTypes(buffer_, scan)
         /\ Len(buffer_) \in Nat
         /\ p \in CRLFs(buffer_) /\ p \in Nat /\ 1 <= p /\ p + 1 <= Len(buffer_)
         /\ scan.lineEnd = p - 1 /\ NextLine = p + 1
         /\ \A r \in CRLFs(buffer_) : r < p + 1 \/ p + 1 < r
<1>1. ScanTypes(buffer_, scan)
  BY DEF ScanInv
<1>2. p \in CRLFs(buffer_)
  BY <1>1, LineEndsHere DEF AtLineEnd
<1>3. /\ Len(buffer_) \in Nat /\ scan.lineEnd \in Nat
      /\ \A r \in CRLFs(buffer_) : r \in Nat /\ 1 <= r /\ r + 1 <= Len(buffer_)
  BY <1>1, ScanNumbers
<1>4. p + 1 \notin CRLFs(buffer_)
  BY <1>2, CRLFsApart
<1>5. scan.lineEnd = p - 1 /\ NextLine = p + 1
  BY <1>3 DEF NextLine
<1>6. p \in Nat /\ 1 <= p /\ p + 1 <= Len(buffer_)
  BY <1>2, <1>3
<1>7. \A r \in CRLFs(buffer_) : r < p + 1 \/ p + 1 < r
  BY <1>3, <1>4, <1>6
<1> QED
  BY <1>1, <1>2, <1>3, <1>5, <1>6, <1>7

(* Behind a line that was taken, the next one begins.                      *)
LEMMA NextLineBegins ==
  ASSUME NEW s \in String, NEW sc, ScanTypes(s, sc), sc.phase = "headers",
         NEW p \in CRLFs(s), sc.position = p + 1, sc.lineEnd = p + 1,
         \A r \in CRLFs(s) : r < p + 1 \/ p + 1 < r,
         HeadTaken(s, sc, p + 1)
  PROVE  ScanInv(s, sc)
<1>1. p \in Nat
  BY CRLFsType
<1>2. sc.position - 1 = p /\ sc.position <= sc.lineEnd
  BY <1>1
<1>3. HeadTaken(s, sc, sc.position)
  OBVIOUS
<1>4. \A r \in CRLFs(s) : r < sc.position \/ sc.lineEnd < r
  OBVIOUS
<1> QED
  BY <1>2, <1>3, <1>4 DEF ScanInv

(* The request line is the first line.                                     *)
LEMMA TakeRequestLineKeepsScan ==
  ASSUME buffer_ \in String, ScanInv(buffer_, scan), TakeRequestLine
  PROVE  ScanInv(buffer_, scan')
<1> DEFINE s == buffer_
<1> SUFFICES ASSUME NEW p, p = scan.lineEnd + 1
             PROVE  ScanInv(s, scan')
  OBVIOUS
<1>1. AtLineEnd /\ scan.phase = "request line"
  BY DEF TakeRequestLine
<1>2. /\ ScanTypes(s, scan) /\ Len(s) \in Nat
      /\ p \in CRLFs(s) /\ p \in Nat /\ 1 <= p /\ p + 1 <= Len(s)
      /\ scan.lineEnd = p - 1 /\ NextLine = p + 1
      /\ \A r \in CRLFs(s) : r < p + 1 \/ p + 1 < r
  BY <1>1, LineTaken
<1>3. \A r \in CRLFs(s) : r \in Nat /\ 1 <= r
  BY CRLFsType
<1>4. \A r \in CRLFs(s) : p <= r
  <2>1. \A r \in CRLFs(s) : p - 1 < r
    BY <1>1, <1>2 DEF ScanInv
  <2> HIDE DEF s
  <2> QED
    BY <1>2, <1>3, <2>1
<1>5. First(s) = p
  <2>1. CRLFs(s) \in SUBSET Nat /\ CRLFs(s) # {}
    BY <1>2, <1>3
  <2> DEFINE f == First(s)
  <2>2. f \in CRLFs(s) /\ \A r \in CRLFs(s) : f <= r
    BY <2>1, MinOfNats DEF First
  <2> HIDE DEF f, s
  <2>3. f = p
    BY <1>2, <1>3, <1>4, <2>2
  <2> QED
    BY <2>3 DEF f
<1>6. ScannedLine = LineAt(s, p)
  <2>1. LineAt(s, p) = SubSeq(s, 1, p - 1)
    BY <1>2, <1>4, FirstLine
  <2>2. scan.position = 0
    BY <1>1 DEF ScanInv
  <2> QED
    BY <1>2, <2>1, <2>2 DEF ScannedLine
<1>7. IsRequestLine(s, p) /\ ~IsBlankLine(s, p) /\ p \in HeadEnds(s)
  <2>1. p - 2 \notin CRLFs(s)
    <3> HIDE DEF s
    <3> QED
      BY <1>2, <1>4
  <2>2. \A r \in CRLFs(s) : ~(r < p)
    <3> HIDE DEF s
    <3> QED
      BY <1>2, <1>3, <1>4
  <2> QED
    BY <1>2, <1>4, <2>1, <2>2 DEF IsRequestLine, IsBlankLine, HeadEnds
<1>8. CASE BadRequestLine(ScannedLine)
  <2>1. Malformed(s, p)
    BY <1>6, <1>7, <1>8 DEF Malformed
  <2>2. Decode(s) = Throws("invalid_argument")
    BY <1>7, <2>1 DEF Decode
  <2> QED
    BY <1>2, <1>8, <2>2, ReturnKeepsScan DEF TakeRequestLine
<1>9. CASE ~BadRequestLine(ScannedLine)
  <2>1. PICK m \in ParseHttpMethod(MethodPart(ScannedLine), RequestVersion) :
          scan' = [scan EXCEPT !.phase = "headers", !.method = Some(m),
                               !.path = PathPart(ScannedLine),
                               !.position = p + 1, !.lineEnd = p + 1]
    BY <1>2, <1>9 DEF TakeRequestLine
  <2>2. /\ scan'.phase = "headers" /\ scan'.method = Some(m)
        /\ scan'.path = PathPart(ScannedLine) /\ scan'.headers = scan.headers
        /\ scan'.position = p + 1 /\ scan'.lineEnd = p + 1
    BY <1>2, <2>1 DEF ScanTypes
  <2>3. ScanTypes(s, scan')
    <3>1. p + 1 \in 0..Len(s)
      BY <1>2
    <3> QED
      BY <1>2, <2>1, <3>1 DEF ScanTypes, Phases
  <2>4. p < p + 1
    BY <1>2
  <2>5. HeadTaken(s, scan', p + 1)
    <3>1. ~Malformed(s, p)
      BY <1>6, <1>7, <1>9 DEF Malformed
    <3>2. \A r \in CRLFs(s) : r < p + 1 => r = p
      <4> HIDE DEF s
      <4> QED
        BY <1>2, <1>3, <1>4
    <3>3. Between(s, p + 1) = {}
      <4>1. \A r \in CRLFs(s) : ~(p < r /\ r < p + 1)
        BY <1>2, <3>2
      <4> QED
        BY <1>5, <4>1 DEF Between
    <3>4. scan.headers = EmptyHeaders
      BY <1>1 DEF ScanInv
    <3>5. scan'.headers = HeadersAt(Lines(s), Between(s, p + 1))
      BY <2>2, <3>3, <3>4, HeadersOfNone
    <3>6. First(s) \in CRLFs(s) /\ First(s) < p + 1 /\ \A r \in CRLFs(s) : First(s) <= r
      BY <1>2, <1>4, <1>5, <2>4
    <3>7. \A r \in CRLFs(s) : r < p + 1 => ~IsBlankLine(s, r) /\ ~Malformed(s, r)
      BY <1>7, <3>1, <3>2
    <3> QED
      BY <1>5, <1>6, <2>2, <3>5, <3>6, <3>7 DEF HeadTaken
  <2> QED
    BY <1>2, <2>2, <2>3, <2>5, NextLineBegins
<1> QED
  BY <1>8, <1>9

(* What the lines of the head that were taken have in common.              *)
LEMMA LinesTaken ==
  ASSUME NEW s \in String, NEW sc, NEW position \in Nat,
         HeadTaken(s, sc, position)
  PROVE  /\ \A r \in CRLFs(s) : r < position => r \in HeadEnds(s)
         /\ Between(s, position) \in SUBSET (1..Len(s))
         /\ \A r \in Between(s, position) : HasColon(Lines(s)[r])
<1>1. \A r \in CRLFs(s) : r < position => ~IsBlankLine(s, r) /\ ~Malformed(s, r)
  BY DEF HeadTaken
<1>2. Len(s) \in Nat /\ \A r \in CRLFs(s) : r \in Nat /\ 1 <= r /\ r + 1 <= Len(s)
  BY CRLFsType DEF String
<1>3. ASSUME NEW r \in CRLFs(s), r < position
      PROVE  r \in HeadEnds(s)
  <2> SUFFICES ASSUME NEW q \in CRLFs(s), q < r PROVE ~IsBlankLine(s, q)
    BY DEF HeadEnds
  <2>1. q < position
    BY <1>2, <1>3
  <2> QED
    BY <1>1, <2>1
<1>4. Between(s, position) \in SUBSET (1..Len(s))
  BY <1>2 DEF Between
<1>5. ASSUME NEW r \in Between(s, position)
      PROVE  HasColon(Lines(s)[r])
  <2>1. r \in CRLFs(s) /\ First(s) < r /\ r < position
    BY DEF Between
  <2>2. ~IsRequestLine(s, r)
    <3>1. ~(r <= First(s))
      <4>1. r \in Nat /\ First(s) \in Nat
        BY <1>2, <2>1 DEF HeadTaken
      <4> QED
        BY <2>1, <4>1
    <3> QED
      BY <3>1 DEF IsRequestLine, HeadTaken
  <2>3. ~BadHeaderLine(LineAt(s, r))
    BY <1>1, <2>1, <2>2 DEF Malformed
  <2>4. LineAt(s, r) \in String /\ Lines(s)[r] = LineAt(s, r)
    BY <2>1, LineIsString DEF Lines
  <2> QED
    BY <2>3, <2>4 DEF HasColon, BadHeaderLine
<1> QED
  BY <1>3, <1>4, <1>5

(* Between two lines of the head.                                          *)
LEMMA LineBehindOthers ==
  ASSUME buffer_ \in String, ScanInv(buffer_, scan), AtLineEnd,
         scan.phase = "headers", NEW p, p = scan.lineEnd + 1
  PROVE  /\ scan.position \in Nat /\ scan.position <= p - 1
         /\ scan.position - 1 \in CRLFs(buffer_)
         /\ HeadTaken(buffer_, scan, scan.position)
         /\ First(buffer_) \in Nat /\ First(buffer_) < p
         /\ \A r \in CRLFs(buffer_) : r < p => r < scan.position
         /\ \A r \in CRLFs(buffer_) : r < p + 1 => r < scan.position \/ r = p
         /\ \A r \in CRLFs(buffer_) : r < scan.position => r < p
         /\ p \in HeadEnds(buffer_)
         /\ ~IsRequestLine(buffer_, p)
         /\ IsBlankLine(buffer_, p) <=> scan.lineEnd = scan.position
<1> DEFINE s == buffer_
           position == scan.position
<1>1. /\ ScanTypes(s, scan) /\ Len(s) \in Nat
      /\ p \in CRLFs(s) /\ p \in Nat /\ 1 <= p /\ p + 1 <= Len(s)
      /\ scan.lineEnd = p - 1
  BY LineTaken
<1>2. /\ scan.position <= p - 1
      /\ scan.position - 1 \in CRLFs(s)
      /\ \A r \in CRLFs(s) : r < position \/ p - 1 < r
      /\ HeadTaken(s, scan, position)
  BY <1>1 DEF ScanInv
<1>3. \A r \in CRLFs(s) : r \in Nat /\ 1 <= r
  BY CRLFsType
<1>4. position \in Nat
  BY <1>1, ScanNumbers
<1>5. First(s) \in CRLFs(s) /\ First(s) < position
  BY <1>2 DEF HeadTaken
<1> DEFINE f == First(s)
<1>6. f \in Nat /\ f < p /\ f \in CRLFs(s)
  <2>1. f \in Nat /\ f < position
    BY <1>3, <1>5
  <2>2. position <= p - 1
    BY <1>2
  <2> HIDE DEF f, s, position
  <2>3. f < p
    BY <1>1, <1>4, <2>1, <2>2
  <2> QED
    BY <1>5, <2>1, <2>3 DEF f
<1>7. \A r \in CRLFs(s) : r < p => r < position
  <2> HIDE DEF s, position
  <2> QED
    BY <1>1, <1>2, <1>3
<1>8. \A r \in CRLFs(s) : r < p + 1 => r < position \/ r = p
  <2> HIDE DEF s, position
  <2> QED
    BY <1>1, <1>3, <1>7
<1>9. \A r \in CRLFs(s) : r < position => r < p
  <2>1. position <= p - 1
    BY <1>2
  <2> HIDE DEF s, position
  <2> QED
    BY <1>1, <1>3, <1>4, <2>1
<1>10. p \in HeadEnds(s)
  <2>1. \A r \in CRLFs(s) : r < p => ~IsBlankLine(s, r)
    BY <1>2, <1>7 DEF HeadTaken
  <2> QED
    BY <1>1, <2>1 DEF HeadEnds
<1>11. ~IsRequestLine(s, p)
  <2>1. ~(p <= f)
    <3> HIDE DEF f
    <3> QED
      BY <1>1, <1>6
  <2> QED
    BY <1>6, <2>1 DEF IsRequestLine
<1>12. IsBlankLine(s, p) <=> p - 1 = position
  <2>1. position - 1 \in CRLFs(s) /\ position <= p - 1
    BY <1>2
  <2> HIDE DEF s, position
  <2>2. p - 2 \in CRLFs(s) => p - 1 = position
    <3>1. ASSUME p - 2 \in CRLFs(s) PROVE p - 1 = position
      <4>1. p - 2 < p
        BY <1>1
      <4>2. p - 2 < position
        BY <1>7, <3>1, <4>1
      <4> QED
        BY <1>1, <1>4, <2>1, <4>2
    <3> QED
      BY <3>1
  <2>3. p - 1 = position => p - 2 = position - 1
    BY <1>1
  <2> QED
    BY <2>1, <2>2, <2>3 DEF IsBlankLine
<1> QED
  BY <1>1, <1>2, <1>4, <1>6, <1>7, <1>8, <1>9, <1>10, <1>11, <1>12

(* A header line follows the lines already taken.                          *)
LEMMA TakeHeaderLineKeepsScan ==
  ASSUME buffer_ \in String, ScanInv(buffer_, scan), TakeHeaderLine
  PROVE  ScanInv(buffer_, scan')
<1> DEFINE s == buffer_
           position == scan.position
<1> SUFFICES ASSUME NEW p, p = scan.lineEnd + 1
             PROVE  ScanInv(s, scan')
  OBVIOUS
<1>1. AtLineEnd /\ scan.phase = "headers" /\ scan.lineEnd # scan.position
  BY DEF TakeHeaderLine
<1>2. /\ ScanTypes(s, scan) /\ Len(s) \in Nat
      /\ p \in CRLFs(s) /\ p \in Nat /\ 1 <= p /\ p + 1 <= Len(s)
      /\ scan.lineEnd = p - 1 /\ NextLine = p + 1
      /\ \A r \in CRLFs(s) : r < p + 1 \/ p + 1 < r
  BY <1>1, LineTaken
<1>3. /\ position \in Nat
      /\ position - 1 \in CRLFs(s)
      /\ HeadTaken(s, scan, position)
      /\ First(s) \in Nat /\ First(s) < p
      /\ \A r \in CRLFs(s) : r < p => r < position
      /\ \A r \in CRLFs(s) : r < p + 1 => r < position \/ r = p
      /\ \A r \in CRLFs(s) : r < position => r < p
      /\ p \in HeadEnds(s) /\ ~IsRequestLine(s, p) /\ ~IsBlankLine(s, p)
  BY <1>1, LineBehindOthers
<1>4. ScannedLine = LineAt(s, p)
  <2>1. Follows(s, p, position - 1)
    <3>1. \A r \in CRLFs(s) : r \in Nat
      BY CRLFsType
    <3>2. position - 1 < position
      BY <1>3
    <3>3. position - 1 < p
      BY <1>3, <3>2
    <3>4. \A r \in CRLFs(s) : r < p => r <= position - 1
      <4> TAKE r \in CRLFs(s)
      <4> HAVE r < p
      <4>1. r \in Nat /\ r < position
        BY <1>3, <3>1
      <4> QED
        BY <1>3, <4>1
    <3> QED
      BY <1>3, <3>3, <3>4 DEF Follows
  <2>2. LineAt(s, p) = SubSeq(s, position - 1 + 2, p - 1)
    BY <1>2, <2>1, NextLineStart
  <2>3. position - 1 + 2 = position + 1
    BY <1>3
  <2> QED
    BY <1>2, <2>2, <2>3 DEF ScannedLine
<1>5. CASE BadHeaderLine(ScannedLine)
  <2>1. Malformed(s, p)
    BY <1>3, <1>4, <1>5 DEF Malformed
  <2>2. Decode(s) = Throws("invalid_argument")
    BY <1>3, <2>1 DEF Decode
  <2> QED
    BY <1>2, <1>5, <2>2, ReturnKeepsScan DEF TakeHeaderLine
<1>6. CASE ~BadHeaderLine(ScannedLine)
  <2>1. scan' = [scan EXCEPT !.headers = AddHeaderLine(ScannedLine, scan.headers),
                             !.position = p + 1, !.lineEnd = p + 1]
    BY <1>2, <1>6 DEF TakeHeaderLine
  <2>2. /\ scan'.phase = "headers" /\ scan'.method = scan.method
        /\ scan'.path = scan.path
        /\ scan'.headers = AddHeaderLine(ScannedLine, scan.headers)
        /\ scan'.position = p + 1 /\ scan'.lineEnd = p + 1
    BY <1>1, <1>2, <2>1 DEF ScanTypes
  <2>3. ScanTypes(s, scan')
    <3>1. p + 1 \in 0..Len(s)
      BY <1>2
    <3> QED
      BY <1>2, <2>1, <3>1 DEF ScanTypes
  <2>4. HeadTaken(s, scan', p + 1)
    <3>1. ~Malformed(s, p)
      BY <1>3, <1>4, <1>6 DEF Malformed
    <3>2. Between(s, p + 1) = Between(s, position) \cup {p}
      <4>1. \A r \in CRLFs(s) : r < position => r < p + 1
        <5>1. \A r \in CRLFs(s) : r \in Nat
          BY CRLFsType
        <5>2. \A r \in CRLFs(s) : r < p => r < p + 1
          BY <1>2, <5>1
        <5> QED
          BY <1>3, <5>2
      <4>2. p < p + 1
        BY <1>2
      <4> QED
        BY <1>2, <1>3, <4>1, <4>2 DEF Between
    <3>3. /\ Between(s, position) \in SUBSET (1..Len(s))
          /\ \A r \in Between(s, position) : HasColon(Lines(s)[r])
      BY <1>3, LinesTaken
    <3>4. HasColon(Lines(s)[p]) /\ Lines(s)[p] = ScannedLine
      BY <1>2, <1>4, <1>6, LineIsString DEF Lines, HasColon, BadHeaderLine
    <3>5. \A r \in Between(s, position) : r < p
      BY <1>3 DEF Between
    <3>6. scan.headers = HeadersAt(Lines(s), Between(s, position))
      BY <1>3 DEF HeadTaken
    <3>7. scan'.headers = HeadersAt(Lines(s), Between(s, p + 1))
      <4> DEFINE S == Between(s, position)
                 lines == Lines(s)
                 n == Len(s)
      <4>1. n \in Nat /\ S \in SUBSET (1..n) /\ p \in 1..n
            /\ \A r \in S \cup {p} : HasColon(lines[r])
        BY <1>2, <3>3, <3>4
      <4>2. \A r \in S : r < p
        BY <3>5
      <4> HIDE DEF S, lines, n
      <4>3. HeadersAt(lines, S \cup {p}) = AddHeaderLine(lines[p], HeadersAt(lines, S))
        BY <4>1, <4>2, HeadersGrow
      <4> QED
        BY <2>2, <3>2, <3>4, <3>6, <4>3 DEF S, lines
    <3>8. First(s) < p + 1
      BY <1>2, <1>3
    <3>9. \A r \in CRLFs(s) : r < p + 1 => ~IsBlankLine(s, r) /\ ~Malformed(s, r)
      BY <1>3, <3>1 DEF HeadTaken
    <3> QED
      BY <1>3, <2>2, <3>7, <3>8, <3>9 DEF HeadTaken
  <2> QED
    BY <1>2, <2>2, <2>3, <2>4, NextLineBegins
<1> QED
  BY <1>5, <1>6

(* The blank line completes the head.                                      *)
LEMMA TakeBlankLineKeepsScan ==
  ASSUME buffer_ \in String, ScanInv(buffer_, scan), TakeBlankLine
  PROVE  ScanInv(buffer_, scan')
<1> DEFINE s == buffer_
           position == scan.position
<1> SUFFICES ASSUME NEW p, p = scan.lineEnd + 1
             PROVE  ScanInv(s, scan')
  OBVIOUS
<1>1. AtLineEnd /\ scan.phase = "headers" /\ scan.lineEnd = scan.position
  BY DEF TakeBlankLine
<1>2. /\ ScanTypes(s, scan) /\ Len(s) \in Nat
      /\ p \in CRLFs(s) /\ p \in Nat /\ 1 <= p /\ p + 1 <= Len(s)
      /\ NextLine = p + 1
  BY <1>1, LineTaken
<1>3. /\ position \in Nat
      /\ HeadTaken(s, scan, position)
      /\ First(s) \in Nat /\ First(s) < p
      /\ \A r \in CRLFs(s) : r < p => r < position
      /\ \A r \in CRLFs(s) : r < position => r < p
      /\ IsBlankLine(s, p)
  BY <1>1, LineBehindOthers
<1>4. scan' = [scan EXCEPT !.phase = "body", !.position = p + 1]
  BY <1>2 DEF TakeBlankLine
<1>5. /\ scan'.phase = "body" /\ scan'.method = scan.method
      /\ scan'.path = scan.path /\ scan'.headers = scan.headers
      /\ scan'.position = p + 1
  BY <1>2, <1>4 DEF ScanTypes
<1>6. ScanTypes(s, scan')
  <2>1. p + 1 \in 0..Len(s)
    BY <1>2
  <2> QED
    BY <1>2, <1>4, <2>1 DEF ScanTypes, Phases
<1>7. HeadTaken(s, scan', p)
  <2>1. Between(s, p) = Between(s, position)
    BY <1>3 DEF Between
  <2> QED
    BY <1>3, <1>5, <2>1 DEF HeadTaken
<1>8. scan'.position - 1 = p
  BY <1>2, <1>5
<1> QED
  BY <1>2, <1>3, <1>5, <1>6, <1>7, <1>8 DEF ScanInv

(* The head that Decode sees is the one that was taken.                    *)
LEMMA WholeHead ==
  ASSUME NEW s \in String, NEW sc, NEW b \in CRLFs(s), IsBlankLine(s, b),
         HeadTaken(s, sc, b)
  PROVE  /\ Decode(s) = DecodeHead(s, HeadLines(s))
         /\ DOMAIN HeadLines(s) = HeadEnds(s)
         /\ Min(HeadEnds(s)) = First(s)
         /\ Max(HeadEnds(s)) = b
         /\ HeadLines(s)[First(s)] = LineAt(s, First(s))
         /\ HeadersOf(HeadLines(s)) = sc.headers
         /\ sc.headers \in HeaderLists
<1> DEFINE f == First(s)
           E == HeadEnds(s)
           L == HeadLines(s)
<1>1. Len(s) \in Nat /\ \A r \in CRLFs(s) : r \in Nat /\ 1 <= r /\ r + 1 <= Len(s)
  BY CRLFsType DEF String
<1>2. /\ f \in CRLFs(s) /\ f < b
      /\ \A r \in CRLFs(s) : f <= r
      /\ \A r \in CRLFs(s) : r < b => ~IsBlankLine(s, r) /\ ~Malformed(s, r)
      /\ sc.headers = HeadersAt(Lines(s), Between(s, b))
  BY DEF HeadTaken
<1>3. b \in Nat /\ f \in Nat
  BY <1>1, <1>2
<1>4. \A r \in CRLFs(s) : r < b => r \in E
  BY <1>3, LinesTaken
<1>5. b \in E
  BY <1>2 DEF HeadEnds
<1>6. \A r \in E : r \in CRLFs(s) /\ (r < b \/ r = b)
  <2> TAKE r \in E
  <2>1. r \in CRLFs(s) /\ ~(b < r)
    BY DEF HeadEnds
  <2>2. r \in Nat
    BY <1>1, <2>1
  <2> HIDE DEF E
  <2> QED
    BY <1>3, <2>1, <2>2
<1>7. ~Malformed(s, b)
  <2>1. ~IsRequestLine(s, b)
    <3>1. ~(b <= f)
      <4> HIDE DEF f
      <4> QED
        BY <1>2, <1>3
    <3> QED
      BY <1>2, <3>1 DEF IsRequestLine
  <2> QED
    BY <2>1 DEF Malformed
<1>8. Decode(s) = DecodeHead(s, L)
  <2>1. \A r \in E : ~Malformed(s, r)
    BY <1>2, <1>6, <1>7
  <2>2. HeadComplete(s)
    BY <1>5 DEF HeadComplete
  <2> QED
    BY <2>1, <2>2 DEF Decode
<1>9. DOMAIN L = E /\ L[f] = LineAt(s, f) /\ f \in E
  BY <1>2, <1>4 DEF HeadLines
<1>10. Min(E) = f /\ Max(E) = b
  <2>1. E \in SUBSET Nat /\ E \in SUBSET (0..Len(s)) /\ E # {}
    BY <1>1, <1>5, <1>6
  <2>2. \A r \in E : f <= r
    BY <1>2, <1>6
  <2>3. \A r \in E : r <= b
    <3> TAKE r \in E
    <3>1. r \in Nat /\ (r < b \/ r = b)
      BY <1>1, <1>6
    <3> QED
      BY <1>3, <3>1
  <2> DEFINE least == Min(E)
             last == Max(E)
  <2> HIDE DEF E, f
  <2>4. least \in E /\ \A r \in E : least <= r
    BY <2>1, MinOfNats
  <2>5. last \in E /\ \A r \in E : r <= last
    BY <1>1, <2>1, MaxOfNats
  <2> HIDE DEF least, last
  <2>6. least <= f /\ f <= least /\ b <= last /\ last <= b
    BY <1>5, <1>9, <2>2, <2>3, <2>4, <2>5
  <2>7. least \in Nat /\ last \in Nat
    BY <2>1, <2>4, <2>5
  <2>8. least = f /\ last = b
    BY <1>3, <2>6, <2>7
  <2> QED
    BY <2>8 DEF least, last
<1>11. E \ {f, b} = Between(s, b)
  <2>1. \A r \in CRLFs(s) : r # f => f < r
    <3> TAKE r \in CRLFs(s)
    <3>1. r \in Nat /\ f <= r
      BY <1>1, <1>2
    <3> HIDE DEF f
    <3> QED
      BY <1>3, <3>1
  <2>2. \A r \in CRLFs(s) : f < r => r # f
    <3> HIDE DEF f
    <3> QED
      BY <1>1, <1>3
  <2>3. \A r \in CRLFs(s) : r < b => r # b
    BY <1>1, <1>3
  <2>4. ASSUME NEW r \in E \ {f, b} PROVE r \in Between(s, b)
    <3>1. r \in CRLFs(s) /\ r < b /\ f < r
      BY <1>6, <2>1, <2>4
    <3> QED
      BY <3>1 DEF Between
  <2>5. ASSUME NEW r \in Between(s, b) PROVE r \in E \ {f, b}
    <3>1. r \in CRLFs(s) /\ f < r /\ r < b
      BY <2>5 DEF Between
    <3> QED
      BY <1>4, <2>2, <2>3, <3>1
  <2> QED
    BY <2>4, <2>5
<1>12. HeadersOf(L) = HeadersAt(L, Between(s, b))
  <2>1. HeadersOf(L) = HeadersAt(L, DOMAIN L \ {Min(DOMAIN L), Max(DOMAIN L)})
    BY Zenon DEF HeadersOf, HeadersAt
  <2> HIDE DEF L, E
  <2> QED
    BY <1>9, <1>10, <1>11, <2>1
<1>13. /\ Between(s, b) \in SUBSET (1..Len(s))
       /\ \A r \in Between(s, b) : HasColon(Lines(s)[r])
  BY <1>3, LinesTaken
<1>14. \A r \in Between(s, b) : L[r] = Lines(s)[r]
  <2>1. \A r \in Between(s, b) : r \in CRLFs(s) /\ r \in E
    BY <1>4 DEF Between
  <2> QED
    BY <2>1 DEF HeadLines, Lines
<1>15. HeadersAt(L, Between(s, b)) = HeadersAt(Lines(s), Between(s, b))
  <2> DEFINE S == Between(s, b)
             lines == Lines(s)
             n == Len(s)
  <2>1. n \in Nat /\ S \in SUBSET (1..n)
        /\ \A r \in S : HasColon(lines[r]) /\ L[r] = lines[r]
    BY <1>1, <1>13, <1>14
  <2> HIDE DEF S, lines, n, L
  <2>2. HeadersAt(L, S) = HeadersAt(lines, S)
    BY <2>1, HeadersOfSameLines
  <2> QED
    BY <2>2 DEF S, lines
<1>16. HeadersAt(Lines(s), Between(s, b)) \in HeaderLists
  <2> DEFINE S == Between(s, b)
             lines == Lines(s)
             n == Len(s)
  <2>1. n \in Nat /\ S \in SUBSET (1..n) /\ \A r \in S : HasColon(lines[r])
    BY <1>1, <1>13
  <2> HIDE DEF S, lines, n
  <2>2. PICK iter \in [SUBSET S -> HeaderLists] : HeadersAt(lines, S) = iter[S]
    BY <2>1, HeadersAreFolded
  <2>3. HeadersAt(lines, S) \in HeaderLists
    BY <2>2
  <2> QED
    BY <2>3 DEF S, lines
<1> QED
  BY <1>2, <1>8, <1>9, <1>10, <1>12, <1>15, <1>16

(* A token denotes one method at most.                                     *)
LEMMA OneMethod ==
  ASSUME NEW token, NEW version, NEW m \in ParseHttpMethod(token, version)
  PROVE  (CHOOSE n \in HttpMethod : n \in ParseHttpMethod(token, version)) = m
<1> DEFINE P == ParseHttpMethod(token, version)
<1>1. \A n \in P : n \in HttpMethod /\ token = <<n>>
  BY DEF ParseHttpMethod, MethodToken
<1>2. \A n \in P : n = m
  <2> TAKE n \in P
  <2>1. <<n>> = <<m>>
    BY <1>1
  <2>2. <<n>>[1] = n /\ <<m>>[1] = m
    OBVIOUS
  <2> QED
    BY <2>1, <2>2
<1>3. \E n \in HttpMethod : n \in P
  BY <1>1
<1> HIDE DEF P
<1> DEFINE c == CHOOSE n \in HttpMethod : n \in P
<1>4. c \in P
  BY <1>3
<1>5. c = m
  BY <1>2, <1>4
<1> QED
  BY <1>5 DEF P

(* The request that Decode makes of a complete head.                       *)
LEMMA RequestTaken ==
  ASSUME NEW s \in String, NEW sc, NEW b \in CRLFs(s), IsBlankLine(s, b),
         HeadTaken(s, sc, b), NEW body, NEW headers
  PROVE  RequestOf(HeadLines(s), body, headers)
           = NewRequest(sc.method[1], sc.path, RequestVersion, body, headers)
<1> DEFINE line == LineAt(s, First(s))
           P == ParseHttpMethod(MethodPart(line), RequestVersion)
<1>1. PICK m \in P : sc.method = Some(m)
  BY DEF HeadTaken
<1>2. (CHOOSE n \in HttpMethod : n \in P) = m
  BY OneMethod
<1>3. sc.method[1] = m
  BY <1>1 DEF Some
<1>4. sc.path = PathPart(line)
  BY DEF HeadTaken
<1>5. HeadLines(s)[Min(DOMAIN HeadLines(s))] = line
  BY WholeHead
<1> HIDE DEF line
<1> QED
  BY <1>2, <1>3, <1>4, <1>5, Zenon DEF RequestOf

(* What is returned after the head is what DecodeHead says of it.          *)
LEMMA TakeBodyKeepsScan ==
  ASSUME buffer_ \in String, Len(buffer_) <= MaxString,
         ScanInv(buffer_, scan), TakeBody
  PROVE  ScanInv(buffer_, scan')
<1> DEFINE s == buffer_
           position == scan.position
           L == HeadLines(s)
           declared == HeaderGet(scan.headers, ContentLengthName)
           length == ContentLength(declared[1])
<1> SUFFICES ASSUME NEW b, b = position - 1
             PROVE  ScanInv(s, scan')
  OBVIOUS
<1>1. /\ ScanTypes(s, scan)
      /\ b \in CRLFs(s) /\ IsBlankLine(s, b)
      /\ HeadTaken(s, scan, b)
  BY DEF ScanInv, TakeBody
<1>2. /\ Len(s) \in Nat /\ position \in Nat /\ position <= Len(s)
      /\ position = b + 1
  BY <1>1, ScanNumbers
<1>3. /\ Decode(s) = DecodeHead(s, L)
      /\ Max(DOMAIN L) + 1 = position
      /\ HeadersOf(L) = scan.headers
      /\ scan.headers \in HeaderLists
  BY <1>1, <1>2, WholeHead
<1>4. \A body : RequestOf(L, body, scan.headers)
        = NewRequest(scan.method[1], scan.path, RequestVersion, body, scan.headers)
  BY <1>1, RequestTaken
<1>5. position \in 0..MaxString /\ SizeMod \in Nat /\ MaxString \in Nat
  BY <1>2, SizeAssumption
<1>6. CASE declared = None
  <2>1. (position + 0) % SizeMod = position
    <3>1. 0 \in 0..MaxString
      BY <1>5
    <3> HIDE DEF position
    <3>2. (position + 0) % SizeMod = position + 0
      BY <1>5, <3>1, SumDoesNotWrap
    <3>3. position + 0 = position
      BY <1>2
    <3> QED
      BY <3>2, <3>3
  <2>2. Decode(s) = Parsed(RequestOf(L, None, scan.headers), position)
    BY <1>3, <1>6, Zenon DEF DecodeHead
  <2>3. ReturnRequest(None, 0)
    BY <1>6 DEF TakeBody
  <2>4. ~(Size < position) /\ ~(0 > MaxString)
    <3>1. Size = Len(s)
      BY DEF Size
    <3> HIDE DEF s, position
    <3> QED
      BY <1>2, <1>5, <3>1
  <2>5. Return(Parsed(RequestOf(L, None, scan.headers), position))
    BY <1>4, <2>1, <2>3, <2>4 DEF ReturnRequest
  <2> QED
    BY <1>1, <2>2, <2>5, ReturnKeepsScan
<1>7. CASE declared # None /\ BadContentLength(declared[1])
  <2>1. Decode(s) = Throws("invalid_argument")
    BY <1>3, <1>7, Zenon DEF DecodeHead
  <2>2. Return(Throws("invalid_argument"))
    BY <1>7 DEF TakeBody
  <2> QED
    BY <1>1, <2>1, <2>2, ReturnKeepsScan
<1>8. CASE declared # None /\ ~BadContentLength(declared[1])
  <2> DEFINE body == BodyAt(s, position, length)
             end == (position + length) % SizeMod
             request == RequestOf(L, body, scan.headers)
  <2>1. length \in Nat
    <3>1. declared[1] \in String
      BY <1>3, <1>8, HeaderValue
    <3> QED
      BY <1>8, <3>1, ContentLengthType
  <2>2. Decode(s) = DecodeBody(s, L, scan.headers, position, length)
    BY <1>3, <1>8, Zenon DEF DecodeHead
  <2>3. ReturnRequest(body, length)
    BY <1>8 DEF TakeBody
  <2>4. end \in Nat
    <3> HIDE DEF position, length
    <3>1. position + length \in Nat /\ SizeMod \in Nat \ {0}
      BY <1>2, <2>1, SizeAssumption
    <3> QED
      BY <3>1
  <2>5. Size < end <=> end \notin 0..Len(s)
    <3>1. Size = Len(s)
      BY DEF Size
    <3> HIDE DEF s, end
    <3> QED
      BY <1>2, <2>4, <3>1
  <2>6. length > MaxString <=> length \notin 0..MaxString
    <3> HIDE DEF length
    <3> QED
      BY <1>5, <2>1
  <2>7. CASE Size < end
    <3>1. Decode(s) = Incomplete
      BY <2>2, <2>5, <2>7 DEF DecodeBody
    <3>2. Return(Incomplete)
      BY <2>3, <2>7 DEF ReturnRequest
    <3> QED
      BY <1>1, <3>1, <3>2, ReturnKeepsScan
  <2>8. CASE ~(Size < end) /\ length > MaxString
    <3>1. Decode(s) = Throws("length_error")
      BY <2>2, <2>5, <2>6, <2>8 DEF DecodeBody
    <3>2. Return(Throws("length_error"))
      BY <2>3, <2>8 DEF ReturnRequest
    <3> QED
      BY <1>1, <3>1, <3>2, ReturnKeepsScan
  <2>9. CASE ~(Size < end) /\ ~(length > MaxString)
    <3>1. end = position + length
      <4>1. length \in 0..MaxString
        BY <2>6, <2>9
      <4> HIDE DEF length, position
      <4> QED
        BY <1>5, <4>1, SumDoesNotWrap
    <3>2. Decode(s) = Parsed(request, end)
      BY <2>2, <2>5, <2>6, <2>9, <3>1 DEF DecodeBody
    <3>3. Return(Parsed(request, end))
      BY <1>4, <2>3, <2>9 DEF ReturnRequest
    <3> QED
      BY <1>1, <3>2, <3>3, ReturnKeepsScan
  <2> QED
    BY <2>7, <2>8, <2>9
<1> QED
  BY <1>6, <1>7, <1>8

(* Each step of the scan keeps to the lines that Decode names.             *)
LEMMA ScanStepKeepsScan ==
  ASSUME buffer_ \in String, Len(buffer_) <= MaxString,
         ScanInv(buffer_, scan), ScanStep
  PROVE  ScanInv(buffer_, scan')
BY SkipOctetKeepsScan, RunOutKeepsScan, TakeRequestLineKeepsScan,
   TakeHeaderLineKeepsScan, TakeBlankLineKeepsScan, TakeBodyKeepsScan
DEF ScanStep

-----------------------------------------------------------------------------
(* The queue: what is proved of every Vec, for this one.                   *)

QP == INSTANCE VecProofs WITH
  vec <- requests_, Value <- Nat \ {0}, Raw <- NullPointer,
  Kinds <- {TRUE}, trivial <- TRUE, Wrap <- SizeMod \div 8,
  Others <- {<<>>}, OwnReferences <- FALSE,
  MaxCapacity <- SizeMod \div 8 - 1, MaxFaults <- 0,
  promised <- <<>>, torn <- FALSE, littered <- FALSE, forsaken <- FALSE

(* The size of a block of pointers is a multiple of eight.                 *)
LEMMA PointersFit ==
  /\ SizeMod \div 8 \in Nat /\ 8 * (SizeMod \div 8) = SizeMod
  /\ 4 < SizeMod \div 8
BY SizeAssumption, CodeAssumption

(* The parameters with which the queue uses Vec are admissible.            *)
LEMMA QueueAssumption == QP!VecAssumption
<1>1. SizeMod \div 8 \in Nat \ {0} /\ SizeMod \div 8 - 1 \in Nat
  BY PointersFit
<1> QED
  BY <1>1 DEF QP!VecAssumption, NullPointer

(* The operators of Vec do not depend on its history variables.            *)
LEMMA SameVec ==
  /\ \A v : QP!Elements(v) = Queue!Elements(v)
  /\ \A v : QP!WithRoom(v) = Queue!WithRoom(v)
  /\ \A v : QP!IsFull(v) <=> Queue!IsFull(v)
  /\ \A v, x : QP!Placed(v, x) = Queue!Placed(v, x)
  /\ \A v : QP!Popped(v) = Queue!Popped(v)
  /\ QP!EmptyVec = Queue!EmptyVec
BY DEF QP!Elements, Queue!Elements, QP!WithRoom, Queue!WithRoom,
       QP!IsFull, Queue!IsFull, QP!Reserved, Queue!Reserved,
       QP!NextCapacity, Queue!NextCapacity, QP!Block, Queue!Block,
       QP!AtEnd, Queue!AtEnd, QP!Compacted, Queue!Compacted,
       QP!Destroyed, Queue!Destroyed, QP!Copied, Queue!Copied,
       QP!Window, Queue!Window, QP!Placed, Queue!Placed,
       QP!Popped, Queue!Popped, QP!EmptyVec, Queue!EmptyVec

(* The vector v holds the pointers p.                                      *)
Holds(v, p) == QP!Holds(v, p, TRUE)

(* The size of a vector that holds pointers is their number.               *)
LEMMA VecShape ==
  ASSUME NEW v, NEW p, Holds(v, p)
  PROVE  /\ v.size \in Nat /\ v.capacity \in Nat /\ v.size <= v.capacity
         /\ v.capacity < SizeMod \div 8
         /\ p \in Seq(Nat \ {0}) /\ Len(p) = v.size
         /\ Queue!Elements(v) = p
<1>1. QP!Elements(v) = p
  BY QueueAssumption, QP!ElementsArePromised DEF Holds
<1>2. /\ v.size \in Nat /\ v.capacity \in Nat /\ v.offset \in Nat
      /\ v.offset + v.size <= v.capacity
      /\ v.capacity < SizeMod \div 8
      /\ p \in Seq(Nat \ {0}) /\ Len(p) = v.size
  BY DEF Holds, QP!Holds, QP!IsVec
<1>3. v.size <= v.capacity
  BY <1>2
<1> QED
  BY <1>1, <1>2, <1>3, SameVec

(* A new vector holds nothing.                                             *)
LEMMA EmptyHolds == Holds(Queue!EmptyVec, <<>>)
<1>1. 0 \in Nat /\ 0 < SizeMod \div 8 /\ <<>> \in Seq(Nat \ {0}) /\ Len(<<>>) <= 0
  BY PointersFit
<1>2. QP!Block(0, <<>>) \in [0 .. (0 - 1) -> (Nat \ {0}) \cup {NullPointer}]
  BY <1>1, QueueAssumption, QP!BlockIsReal
<1>3. QP!IsVec(QP!EmptyVec)
  BY <1>1, <1>2 DEF QP!IsVec, QP!EmptyVec
<1>4. QP!Holds(QP!EmptyVec, <<>>, TRUE)
  BY <1>1, <1>3 DEF QP!Holds, QP!EmptyVec
<1> QED
  BY <1>4, SameVec DEF Holds

(* push_back puts the pointer behind the others.                           *)
LEMMA PushHolds ==
  ASSUME NEW v, NEW p, Holds(v, p), NEW x \in Nat \ {0},
         Queue!WithRoom(v).capacity < SizeMod \div 8
  PROVE  LET w == Queue!Placed(Queue!WithRoom(v), x)
         IN  /\ Holds(w, Append(p, x))
             /\ w.size = v.size + 1
             /\ w.capacity = Queue!WithRoom(v).capacity
<1> DEFINE room == QP!WithRoom(v)
<1>1. room = Queue!WithRoom(v)
  BY SameVec
<1>2. ~(QP!AtEnd(v) /\ QP!Overlaps(v, v.size))
  BY DEF QP!Overlaps
<1>3. QP!Holds(room, p, TRUE)
  BY <1>1, <1>2, QueueAssumption, QP!RoomHolds DEF Holds
<1>4. room.offset + room.size < room.capacity
  BY QueueAssumption, QP!RoomIsThere DEF Holds
<1> HIDE DEF room
<1>5. QP!Holds(QP!Placed(room, x), Append(p, x), TRUE)
  BY <1>3, <1>4, QueueAssumption, QP!PlaceHolds
<1>6. room.size = v.size
  BY <1>3 DEF Holds, QP!Holds
<1> QED
  BY <1>1, <1>5, <1>6, SameVec DEF Holds, Queue!Placed

(* pop_front takes the first one away.                                     *)
LEMMA PopHolds ==
  ASSUME NEW v, NEW p, Holds(v, p), v.size > 0
  PROVE  /\ Holds(Queue!Popped(v), Tail(p))
         /\ Queue!Popped(v).size = v.size - 1
         /\ Queue!Popped(v).capacity = v.capacity
<1>1. QP!Holds(QP!Popped(v), Tail(p), TRUE)
  BY QueueAssumption, QP!PopHolds DEF Holds
<1> QED
  BY <1>1, SameVec DEF Holds, Queue!Popped

(* The capacity after room was made: a full block doubles.                 *)
LEMMA RoomCapacity ==
  ASSUME NEW v, NEW p, Holds(v, p)
  PROVE  Queue!WithRoom(v).capacity
           = IF v.size = v.capacity
             THEN (IF v.capacity = 0 THEN 4 ELSE v.capacity * 2)
             ELSE v.capacity
<1>1. v.capacity \in Nat
  BY VecShape
<1>2. CASE v.size = v.capacity
  <2> DEFINE n == Queue!NextCapacity(v)
  <2>1. n = (IF v.capacity = 0 THEN 4 ELSE v.capacity * 2) /\ ~(n <= v.capacity)
    BY <1>1 DEF Queue!NextCapacity
  <2>2. Queue!WithRoom(v) = Queue!Reserved(v, n)
    BY <1>2 DEF Queue!WithRoom, Queue!IsFull
  <2> HIDE DEF n
  <2>3. Queue!Reserved(v, n).capacity = n
    BY <2>1 DEF Queue!Reserved
  <2> QED
    BY <1>2, <2>1, <2>2, <2>3
<1>3. CASE v.size # v.capacity
  BY <1>3 DEF Queue!WithRoom, Queue!IsFull, Queue!Compacted
<1> QED
  BY <1>2, <1>3
-----------------------------------------------------------------------------
(* The inductive invariant.                                                *)

(* The stream and the scan of its octets.                                  *)
BufferInv ==
  /\ wire \in Wires
  /\ fed \in 0..Len(wire) /\ parsed \in 0..fed
  /\ faults \in 0..MaxFaults[wire]
  /\ pc \in {"idle", "scanning", "pushing", "destroyed"}
  /\ buffer_ \in String
  /\ Len(buffer_) = IF pc = "destroyed" THEN 0 ELSE fed - parsed
  /\ ScanInv(buffer_, scan)
  /\ pc \in {"idle", "destroyed"} => scan = ScanStart

RequestObject ==
  [request : {Decode(s).request : s \in String}, at : Nat, size : Nat \ {0},
   owner : Parser!Owners \cup {"drain"}]

(* The object whose pointer push_back is to take.                          *)
OnItsWay ==
  /\ scan.phase = "done" /\ scan.result.outcome = "request"
  /\ heap # <<>>
  /\ heap[Len(heap)] = Parser!Object(scan.result.request, parsed,
                                     scan.result.consumed, "drain")

HeapInv ==
  /\ heap \in Seq(RequestObject)
  /\ pc = "pushing" => OnItsWay
  /\ log \in Seq(DOMAIN heap)
  /\ Pointers \in Seq(DOMAIN heap)

(* Every queued request took eight octets at least: long before the size   *)
(* of the block could wrap, the stream is over.                            *)
QueueInv ==
  /\ Holds(requests_, Pointers)
  /\ peak \in Nat
  /\ requests_.size <= peak /\ peak <= Len(log)
  /\ 8 * Len(log) <= parsed
  /\ BlockFollowsPeak

CodeInv == BufferInv /\ HeapInv /\ QueueInv

(* The numbers of the stream are numbers.                                  *)
LEMMA StreamFacts ==
  ASSUME BufferInv
  PROVE  /\ wire \in String /\ Len(wire) \in Nat /\ Len(wire) <= MaxString
         /\ fed \in Nat /\ parsed \in Nat /\ parsed <= fed /\ fed <= Len(wire)
         /\ Len(buffer_) \in Nat /\ Len(buffer_) <= MaxString
         /\ MaxFaults[wire] \in Nat /\ MaxString \in Nat
<1>1. /\ wire \in String /\ Len(wire) <= MaxString /\ MaxFaults[wire] \in Nat
      /\ MaxString \in Nat
  BY CodeAssumption, SizeAssumption DEF BufferInv
<1>2. Len(wire) \in Nat
  BY <1>1 DEF String
<1>3. fed \in Nat /\ parsed \in Nat /\ parsed <= fed /\ fed <= Len(wire)
  BY <1>2 DEF BufferInv
<1>4. Len(buffer_) \in Nat
  BY DEF BufferInv, String
<1>5. Len(buffer_) = IF pc = "destroyed" THEN 0 ELSE fed - parsed
  BY DEF BufferInv
<1>6. Len(buffer_) <= MaxString
  BY <1>1, <1>2, <1>3, <1>5
<1> QED
  BY <1>1, <1>2, <1>3, <1>4, <1>6

(* The request the scan has found.                                         *)
LEMMA RequestFound ==
  ASSUME BufferInv, pc # "destroyed", scan.phase = "done",
         scan.result.outcome = "request"
  PROVE  /\ scan.result = Parsed(scan.result.request, scan.result.consumed)
         /\ Decode(buffer_) = scan.result
         /\ scan.result.request \in {Decode(s).request : s \in String}
         /\ scan.result.consumed \in Nat /\ 8 <= scan.result.consumed
         /\ scan.result.consumed <= Len(buffer_)
<1>1. Decode(buffer_) = scan.result /\ buffer_ \in String
  BY DEF BufferInv, ScanInv
<1>2. Len(buffer_) <= MaxString /\ Len(buffer_) \in Nat
  BY StreamFacts
<1>3. PICK r, c : c \in 1..Len(buffer_) /\ Decode(buffer_) = Parsed(r, c)
  <2>1. Decode(buffer_) # Incomplete
    BY <1>1 DEF Incomplete
  <2>2. \A e \in Exceptions : Decode(buffer_) # Throws(e)
    BY <1>1 DEF Throws, Exceptions
  <2> QED
    BY <1>1, <1>2, <2>1, <2>2, DecodeCases
<1>4. 8 <= c
  BY <1>1, <1>2, <1>3, RequestHasEight
<1>5. scan.result.request = r /\ scan.result.consumed = c
  BY <1>1, <1>3 DEF Parsed
<1>6. r \in {Decode(s).request : s \in String}
  BY <1>1, <1>5
<1> QED
  BY <1>1, <1>2, <1>3, <1>4, <1>5, <1>6

(* Steps that leave the heap and the queue alone.                          *)
LEMMA HeapUntouched ==
  ASSUME HeapInv, UNCHANGED <<heap, log, requests_>>, pc' # "pushing"
  PROVE  HeapInv'
BY DEF HeapInv, Pointers, Queue!Elements

(* What does not touch the queue keeps its invariant.                      *)
LEMMA QueueUntouched ==
  ASSUME QueueInv, UNCHANGED <<requests_, peak, log, parsed>>
  PROVE  QueueInv'
BY DEF QueueInv, Pointers, Queue!Elements, BlockFollowsPeak

(* feed returns: the scan is forgotten, the octets are not.                *)
LEMMA LeaveKeepsBuffer ==
  ASSUME BufferInv, NEW e, LeaveFeed(e), pc # "destroyed",
         UNCHANGED <<wire, fed, parsed>>, faults' \in 0..MaxFaults[wire]
  PROVE  BufferInv'
<1>1. ScanInv(buffer_, ScanStart)
  BY ScanStartsRight DEF BufferInv
<1>2. /\ buffer_' = buffer_ /\ scan' = ScanStart /\ pc' = "idle"
  BY DEF LeaveFeed
<1>3. ScanInv(buffer_', scan')
  BY <1>1, <1>2
<1> QED
  BY <1>2, <1>3 DEF BufferInv

-----------------------------------------------------------------------------
(* Every step keeps it.                                                    *)

(* feed, up to the scan, keeps the invariant.                              *)
LEMMA FeedKeepsInv ==
  ASSUME CodeInv, NEW n \in 1..(Len(wire) - fed), Feed(n)
  PROVE  CodeInv'
<1>1. BufferInv /\ HeapInv /\ QueueInv /\ pc = "idle"
  BY DEF CodeInv, Feed
<1>2. /\ wire \in String /\ Len(wire) \in Nat /\ fed \in Nat /\ parsed \in Nat
      /\ parsed <= fed /\ fed <= Len(wire) /\ Len(buffer_) = fed - parsed
      /\ buffer_ \in String
  BY <1>1, StreamFacts DEF BufferInv
<1>3. fed + n \in 0..Len(wire) /\ fed <= fed + n /\ fed + n \in Nat /\ fed + n <= Len(wire)
  BY <1>2
<1> DEFINE chunk == SubSeq(wire, fed + 1, fed + n)
<1>4. chunk \in String /\ Len(chunk) = n
  <2> DEFINE a == fed + 1
             b == fed + n
  <2>1. a \in Int /\ b \in Int /\ a <= b /\ b - a + 1 = n
    BY <1>2
  <2>2. \A i \in a..b : wire[i] \in Octet
    BY <1>2, <1>3 DEF String
  <2> HIDE DEF a, b
  <2>3. /\ SubSeq(wire, a, b) \in Seq(Octet)
        /\ Len(SubSeq(wire, a, b)) = IF a <= b THEN b - a + 1 ELSE 0
    BY <2>1, <2>2, SubSeqProperties
  <2>4. chunk = SubSeq(wire, a, b)
    BY DEF a, b
  <2> HIDE DEF chunk
  <2> QED
    BY <2>1, <2>3, <2>4 DEF String
<1>5. buffer_ \o chunk \in String /\ Len(buffer_ \o chunk) = fed + n - parsed
  <2> HIDE DEF chunk
  <2>1. buffer_ \in Seq(Octet) /\ chunk \in Seq(Octet)
    BY <1>2, <1>4 DEF String
  <2>2. buffer_ \o chunk \in Seq(Octet) /\ Len(buffer_ \o chunk) = Len(buffer_) + Len(chunk)
    BY <2>1, ConcatProperties
  <2> QED
    BY <1>2, <1>4, <2>2 DEF String
<1>6. /\ buffer_' = buffer_ \o chunk /\ fed' = fed + n /\ parsed' = parsed
      /\ wire' = wire /\ faults' = faults /\ pc' = "scanning" /\ scan' = ScanStart
      /\ UNCHANGED <<heap, log, requests_, peak>>
  BY DEF Feed, objects
<1>7. ScanInv(buffer_', scan')
  BY <1>5, <1>6, ScanStartsRight
<1>8. BufferInv'
  <2>1. parsed \in 0..(fed + n)
    BY <1>2, <1>3
  <2> HIDE DEF chunk
  <2> QED
    BY <1>1, <1>3, <1>5, <1>6, <1>7, <2>1 DEF BufferInv
<1> QED
  BY <1>1, <1>6, <1>8, HeapUntouched, QueueUntouched DEF CodeInv

(* So does a step of the scan.                                             *)
LEMMA ScanKeepsInv ==
  ASSUME CodeInv, Scan
  PROVE  CodeInv'
<1>1. /\ BufferInv /\ HeapInv /\ QueueInv /\ pc = "scanning" /\ ScanStep
      /\ UNCHANGED <<buffer_, wire, fed, faults, heap, parsed, log, requests_,
                     peak, pc>>
  BY DEF CodeInv, Scan, caller, objects
<1>2. ScanInv(buffer_, scan')
  BY <1>1, StreamFacts, ScanStepKeepsScan DEF BufferInv
<1>3. BufferInv'
  BY <1>1, <1>2 DEF BufferInv
<1> QED
  BY <1>1, <1>3, HeapUntouched, QueueUntouched DEF CodeInv

(* A longer heap has the pointers of a shorter one.                        *)
LEMMA LongerHeap ==
  ASSUME NEW h \in Seq(RequestObject), NEW g \in Seq(RequestObject),
         Len(h) <= Len(g), NEW p \in Seq(DOMAIN h)
  PROVE  p \in Seq(DOMAIN g)
<1>1. DOMAIN h = 1..Len(h) /\ DOMAIN g = 1..Len(g)
      /\ Len(h) \in Nat /\ Len(g) \in Nat
  OBVIOUS
<1>2. DOMAIN h \subseteq DOMAIN g
  BY <1>1
<1> HIDE <1>1
<1>3. p \in [1..Len(p) -> DOMAIN h] /\ Len(p) \in Nat
  OBVIOUS
<1>4. p \in [1..Len(p) -> DOMAIN g]
  BY <1>2, <1>3
<1> QED
  BY <1>3, <1>4

(* A new owner leaves the rest of the heap alone.                          *)
LEMMA NewOwner ==
  ASSUME NEW h \in Seq(RequestObject), NEW i \in DOMAIN h,
         NEW o \in Parser!Owners \cup {"drain"}
  PROVE  LET g == [h EXCEPT ![i].owner = o]
         IN  /\ g \in Seq(RequestObject)
             /\ Len(g) = Len(h) /\ DOMAIN g = DOMAIN h
<1> DEFINE g == [h EXCEPT ![i].owner = o]
<1>1. Len(h) \in Nat /\ DOMAIN h = 1..Len(h)
  OBVIOUS
<1>2. \A j \in DOMAIN h : h[j] \in RequestObject
  OBVIOUS
<1>3. [h[i] EXCEPT !.owner = o] \in RequestObject
  BY <1>2 DEF RequestObject
<1>4. g = [j \in DOMAIN h |-> IF j = i THEN [h[i] EXCEPT !.owner = o] ELSE h[j]]
  OBVIOUS
<1>5. \A j \in DOMAIN h : g[j] \in RequestObject
  BY <1>2, <1>3, <1>4
<1>6. g \in [1..Len(h) -> RequestObject] /\ DOMAIN g = 1..Len(h)
  BY <1>1, <1>4, <1>5
<1> QED
  BY <1>1, <1>6

(* So does the allocation of the request that was found.                   *)
LEMMA AllocateKeepsInv ==
  ASSUME CodeInv, Allocate
  PROVE  CodeInv'
<1> DEFINE object == Parser!Object(scan.result.request, parsed,
                                   scan.result.consumed, "drain")
<1>1. /\ BufferInv /\ HeapInv /\ QueueInv /\ pc = "scanning"
      /\ scan.phase = "done" /\ scan.result.outcome = "request"
      /\ heap' = Append(heap, object) /\ pc' = "pushing"
      /\ UNCHANGED <<buffer_, scan, wire, fed, faults, parsed, log, requests_,
                     peak>>
  BY DEF CodeInv, Allocate, caller
<1>2. BufferInv'
  BY <1>1 DEF BufferInv
<1>3. object \in RequestObject
  <2>1. /\ scan.result.request \in {Decode(s).request : s \in String}
        /\ scan.result.consumed \in Nat \ {0}
        /\ parsed \in Nat
    BY <1>1, RequestFound, StreamFacts
  <2> HIDE <1>1
  <2> QED
    BY <2>1 DEF RequestObject, Parser!Object
<1> HIDE DEF object
<1>4. heap \in Seq(RequestObject) /\ log \in Seq(DOMAIN heap)
      /\ Pointers \in Seq(DOMAIN heap)
  BY <1>1 DEF HeapInv
<1>5. /\ heap' \in Seq(RequestObject) /\ Len(heap') = Len(heap) + 1
      /\ heap'[Len(heap) + 1] = object /\ heap' # <<>>
      /\ Len(heap) <= Len(heap')
  <2>1. heap' = Append(heap, object)
    BY <1>1
  <2>2. /\ Append(heap, object) \in Seq(RequestObject)
        /\ Len(Append(heap, object)) = Len(heap) + 1
        /\ Append(heap, object)[Len(heap) + 1] = object
    BY <1>3, <1>4, AppendProperties
  <2>3. Len(heap) \in Nat
    BY <1>4
  <2>4. Len(heap') # 0 /\ Len(heap) <= Len(heap')
    BY ONLY <2>1, <2>2, <2>3
  <2> QED
    BY ONLY <2>1, <2>2, <2>4
<1>6. OnItsWay'
  BY <1>1, <1>5 DEF OnItsWay, object
<1>7. log' \in Seq(DOMAIN heap') /\ Pointers \in Seq(DOMAIN heap')
  BY <1>1, <1>4, <1>5, LongerHeap
<1>8. Pointers' = Pointers
  BY <1>1 DEF Pointers, Queue!Elements
<1>9. HeapInv'
  BY <1>5, <1>6, <1>7, <1>8 DEF HeapInv
<1> QED
  BY <1>1, <1>2, <1>9, QueueUntouched DEF CodeInv

(* So does feed's return, in every way but through push_back.              *)
LEMMA LeaveKeepsInv ==
  ASSUME CodeInv, Rethrow \/ NothingFound \/ FeedFails \/ ScanFails
  PROVE  CodeInv'
<1>1. BufferInv /\ HeapInv /\ QueueInv
  BY DEF CodeInv
<1>2. PICK e : /\ LeaveFeed(e) /\ pc # "destroyed"
               /\ UNCHANGED <<wire, fed, objects>>
               /\ faults' = faults \/ Fail
  BY DEF Rethrow, NothingFound, FeedFails, ScanFails, Fail, caller
<1>3. /\ UNCHANGED <<wire, fed, heap, parsed, log, requests_, peak>>
      /\ pc' # "pushing"
  BY <1>2 DEF objects, LeaveFeed
<1>4. faults' \in 0..MaxFaults[wire]
  <2>1. faults \in 0..MaxFaults[wire] /\ MaxFaults[wire] \in Nat
    BY <1>1, StreamFacts DEF BufferInv
  <2> QED
    BY <1>2, <2>1 DEF Fail
<1>5. BufferInv'
  BY <1>1, <1>2, <1>3, <1>4, LeaveKeepsBuffer
<1> QED
  BY <1>1, <1>3, <1>5, HeapUntouched, QueueUntouched DEF CodeInv

(* A push keeps the block within the peak, and its size from wrapping.     *)
LEMMA PushKeepsQueue ==
  ASSUME QueueInv, BufferInv, pc = "pushing", NEW new \in Nat \ {0},
         requests_' = Queue!Placed(Queue!WithRoom(requests_), new),
         peak' = Max({peak, requests_'.size}), log \in Seq(Nat),
         log' = Append(log, new), parsed + 8 <= parsed', parsed' \in Nat
  PROVE  QueueInv' /\ Pointers' = Append(Pointers, new)
<1> DEFINE size == requests_.size
           capacity == requests_.capacity
           room == Queue!WithRoom(requests_).capacity
           pointers == SizeMod \div 8
<1>1. /\ Holds(requests_, Pointers) /\ peak \in Nat
      /\ size <= peak /\ peak <= Len(log) /\ 8 * Len(log) <= parsed
      /\ (capacity > 4 => capacity < 2 * peak)
  BY DEF QueueInv, BlockFollowsPeak
<1>2. /\ size \in Nat /\ capacity \in Nat /\ size <= capacity
      /\ capacity < pointers
  BY <1>1, VecShape
<1>3. room = IF size = capacity
             THEN (IF capacity = 0 THEN 4 ELSE capacity * 2)
             ELSE capacity
  BY <1>1, RoomCapacity
<1>4. /\ pointers \in Nat /\ 8 * pointers = SizeMod /\ 4 < pointers
      /\ 2 * MaxString < SizeMod
  BY PointersFit, SizeAssumption
<1>5. /\ parsed \in Nat /\ parsed <= MaxString /\ MaxString \in Nat
      /\ Len(log) \in Nat
  BY StreamFacts
<1>6. size + 1 \in Nat
  BY <1>2
<1> HIDE DEF size, capacity, room, pointers
<1>7. room < pointers
  <2>1. CASE size = capacity /\ capacity # 0
    <3>1. room = 2 * size
      BY <1>2, <1>3, <2>1
    <3>2. 8 * size <= MaxString
      BY <1>1, <1>2, <1>5
    <3> QED
      BY <1>2, <1>4, <1>5, <3>1, <3>2
  <2> QED
    BY <1>2, <1>3, <1>4, <2>1
<1>8. /\ Holds(requests_', Append(Pointers, new))
      /\ requests_'.size = size + 1
      /\ requests_'.capacity = room
  BY <1>1, <1>7, PushHolds DEF size, room, pointers
<1>9. Queue!Elements(requests_') = Append(Pointers, new)
  BY <1>8, VecShape
<1>10. Pointers' = Append(Pointers, new)
  BY <1>9 DEF Pointers, Queue!Elements
<1>11. /\ peak' \in Nat /\ peak <= peak' /\ size + 1 <= peak'
       /\ (peak' = peak \/ peak' = size + 1)
  <2> DEFINE both == {peak, size + 1}
             n == peak + size + 1
  <2>1. n \in Nat /\ peak \in 0..n /\ size + 1 \in 0..n
    BY <1>1, <1>2, <1>6
  <2> HIDE DEF n
  <2>2. both \in SUBSET (0..n) /\ both # {} /\ peak' = Max(both)
    BY <1>8, <2>1
  <2> HIDE DEF both
  <2>3. Max(both) \in both /\ \A x \in both : x <= Max(both)
    BY <2>1, <2>2, MaxOfNats
  <2>4. peak' \in both /\ \A x \in both : x <= peak'
    BY <2>2, <2>3
  <2> QED
    BY <1>1, <1>6, <2>4 DEF both
<1>12. Len(log') = Len(log) + 1
  BY AppendProperties
<1>13. peak' <= Len(log') /\ 8 * Len(log') <= parsed'
  BY <1>1, <1>2, <1>5, <1>11, <1>12
<1>14. room > 4 => room < 2 * peak'
  BY <1>1, <1>2, <1>3, <1>11
<1>15. Holds(requests_', Pointers')
  BY <1>8, <1>10
<1>16. requests_'.size <= peak' /\ (requests_'.capacity > 4 => requests_'.capacity < 2 * peak')
  BY <1>8, <1>11, <1>14
<1> QED
  BY <1>10, <1>11, <1>13, <1>15, <1>16 DEF QueueInv, BlockFollowsPeak

(* The octets behind the request that was taken.                           *)
LEMMA ErasedBuffer ==
  ASSUME NEW s \in String, NEW size \in Nat, size <= Len(s)
  PROVE  /\ SubSeq(s, size + 1, Len(s)) \in String
         /\ Len(SubSeq(s, size + 1, Len(s))) = Len(s) - size
<1> DEFINE a == size + 1
           b == Len(s)
<1>1. a \in Nat \ {0} /\ b \in Nat /\ b <= Len(s) /\ a <= b + 1
  BY DEF String
<1>2. \A i \in a..b : s[i] \in Octet
  BY DEF String
<1>3. (IF a <= b THEN b - a + 1 ELSE 0) = Len(s) - size
  BY <1>1
<1> HIDE DEF a, b
<1>4. Len(SubSeq(s, a, b)) = IF a <= b THEN b - a + 1 ELSE 0
  BY <1>1, <1>2, SubSeqProperties
<1>5. SubSeq(s, a, b) \in String
  BY <1>1, PieceIsString
<1> QED
  BY <1>3, <1>4, <1>5 DEF a, b

(* A push and the erasure after it keep the invariant.                     *)
LEMMA PushKeepsInv ==
  ASSUME CodeInv, Push
  PROVE  CodeInv' /\ Pointers' = Append(Pointers, Len(heap))
<1> DEFINE new == Len(heap)
           size == heap[new].size
<1>1. /\ pc = "pushing"
      /\ requests_' = Queue!Placed(Queue!WithRoom(requests_), new)
      /\ heap' = [heap EXCEPT ![new].owner = "queue"]
      /\ log' = Append(log, new)
      /\ buffer_' = SubSeq(buffer_, size + 1, Len(buffer_))
      /\ parsed' = parsed + size
      /\ peak' = Max({peak, requests_'.size})
      /\ scan' = ScanStart
      /\ pc' = "scanning"
      /\ UNCHANGED <<wire, fed, faults>>
  BY DEF Push, caller
<1>2. BufferInv /\ HeapInv /\ QueueInv
  BY DEF CodeInv
<1>3. /\ heap \in Seq(RequestObject) /\ log \in Seq(DOMAIN heap)
      /\ Pointers \in Seq(DOMAIN heap) /\ heap # <<>>
      /\ OnItsWay
  BY <1>1, <1>2 DEF HeapInv, OnItsWay
<1>4. new \in Nat \ {0} /\ new \in DOMAIN heap /\ DOMAIN heap = 1..new
  BY <1>3
<1>5. size \in Nat /\ 8 <= size /\ size <= Len(buffer_)
  <2>1. size = scan.result.consumed
    BY <1>3 DEF OnItsWay, Parser!Object
  <2> HIDE DEF size
  <2> QED
    BY <1>1, <1>2, <1>3, <2>1, RequestFound DEF OnItsWay
<1>6. /\ Len(buffer_) = fed - parsed /\ buffer_ \in String
      /\ fed \in Nat /\ parsed \in Nat /\ parsed <= fed
  BY <1>1, <1>2, StreamFacts DEF BufferInv
<1> HIDE DEF new, size
<1>7. parsed + size \in Nat /\ parsed + size <= fed /\ parsed + 8 <= parsed + size
      /\ fed - (parsed + size) = Len(buffer_) - size
  BY <1>5, <1>6
<1>8. BufferInv'
  <2>1. buffer_' \in String /\ Len(buffer_') = fed - (parsed + size)
    BY <1>1, <1>5, <1>6, <1>7, ErasedBuffer
  <2>2. ScanInv(buffer_', ScanStart)
    BY <2>1, ScanStartsRight
  <2>3. parsed + size \in 0..fed
    BY <1>6, <1>7
  <2> QED
    BY <1>1, <1>2, <2>1, <2>2, <2>3 DEF BufferInv
<1>9. log \in Seq(Nat)
  <2>1. DOMAIN heap \subseteq Nat
    BY <1>4
  <2>2. log \in [1..Len(log) -> DOMAIN heap] /\ Len(log) \in Nat
    BY <1>3
  <2>3. log \in [1..Len(log) -> Nat]
    BY ONLY <2>1, <2>2
  <2> QED
    BY ONLY <2>2, <2>3
<1>10. QueueInv' /\ Pointers' = Append(Pointers, new)
  BY <1>1, <1>2, <1>4, <1>7, <1>9, PushKeepsQueue
<1>11. HeapInv'
  <2>1. heap' \in Seq(RequestObject) /\ DOMAIN heap' = DOMAIN heap
    BY <1>1, <1>3, <1>4, NewOwner DEF Parser!Owners
  <2>2. Append(log, new) \in Seq(DOMAIN heap)
        /\ Append(Pointers, new) \in Seq(DOMAIN heap)
    BY <1>3, <1>4, AppendProperties
  <2> QED
    BY <1>1, <1>10, <2>1, <2>2 DEF HeapInv
<1> QED
  BY <1>8, <1>10, <1>11 DEF CodeInv, new

(* An object that changes hands keeps its request.                         *)
LEMMA ReownedKeepsHeap ==
  ASSUME HeapInv, NEW i \in DOMAIN heap,
         NEW o \in Parser!Owners \cup {"drain"},
         heap' = [heap EXCEPT ![i].owner = o], log' = log, pc' # "pushing",
         Pointers' \in Seq(DOMAIN heap)
  PROVE  HeapInv'
<1>1. heap \in Seq(RequestObject) /\ log \in Seq(DOMAIN heap)
  BY DEF HeapInv
<1>2. heap' \in Seq(RequestObject) /\ DOMAIN heap' = DOMAIN heap
  BY <1>1, NewOwner
<1> QED
  BY <1>1, <1>2 DEF HeapInv

(* A push that fails keeps the invariant.                                  *)
LEMMA PushFailsKeepsInv ==
  ASSUME CodeInv, PushFails
  PROVE  CodeInv'
<1>1. /\ BufferInv /\ HeapInv /\ QueueInv
      /\ pc = "pushing" /\ Fail /\ LeaveFeed("bad_alloc")
      /\ heap' = [heap EXCEPT ![Len(heap)].owner = "leaked"]
      /\ UNCHANGED <<parsed, log, requests_, peak>>
  BY DEF CodeInv, PushFails
<1>2. faults' \in 0..MaxFaults[wire] /\ UNCHANGED <<wire, fed>>
  BY <1>1, StreamFacts DEF BufferInv, Fail
<1>3. BufferInv'
  BY <1>1, <1>2, LeaveKeepsBuffer
<1>4. /\ Len(heap) \in DOMAIN heap /\ Pointers \in Seq(DOMAIN heap)
      /\ Pointers' = Pointers
  BY <1>1 DEF HeapInv, OnItsWay, Pointers, Queue!Elements
<1>5. HeapInv'
  BY <1>1, <1>4, ReownedKeepsHeap DEF Parser!Owners, LeaveFeed
<1> QED
  BY <1>1, <1>3, <1>5, QueueUntouched DEF CodeInv

(* The oldest pointer is handed over.                                      *)
LEMMA PoppedQueue ==
  ASSUME QueueInv, HeapInv, requests_.size > 0,
         requests_' = Queue!Popped(requests_), UNCHANGED <<parsed, log, peak>>
  PROVE  /\ QueueInv'
         /\ Pointers # <<>> /\ Pointers[1] \in DOMAIN heap
         /\ Pointers' = Tail(Pointers)
         /\ Pointers' \in Seq(DOMAIN heap)
<1>1. /\ Holds(requests_, Pointers) /\ peak \in Nat
      /\ requests_.size <= peak /\ peak <= Len(log) /\ 8 * Len(log) <= parsed
      /\ (requests_.capacity > 4 => requests_.capacity < 2 * peak)
  BY DEF QueueInv, BlockFollowsPeak
<1>2. requests_.size \in Nat /\ Len(Pointers) = requests_.size
  BY <1>1, VecShape
<1>3. /\ Holds(requests_', Tail(Pointers))
      /\ requests_'.size = requests_.size - 1
      /\ requests_'.capacity = requests_.capacity
  BY <1>1, PopHolds
<1>4. Queue!Elements(requests_') = Tail(Pointers)
  BY <1>3, VecShape
<1>5. Pointers' = Tail(Pointers)
  BY <1>4 DEF Pointers, Queue!Elements
<1>6. QueueInv'
  <2>1. log \in Seq(DOMAIN heap)
    BY DEF HeapInv
  <2>2. requests_.size - 1 <= peak
    BY <1>1, <1>2
  <2> QED
    BY <1>1, <1>3, <1>5, <2>2 DEF QueueInv, BlockFollowsPeak
<1>7. Pointers \in Seq(DOMAIN heap)
  BY DEF HeapInv
<1>8. Pointers # <<>> /\ Pointers[1] \in DOMAIN heap
      /\ Tail(Pointers) \in Seq(DOMAIN heap)
  <2> DEFINE p == Pointers
             D == DOMAIN heap
  <2>1. p \in Seq(D) /\ Len(p) \in Nat /\ Len(p) > 0
    BY <1>2, <1>7
  <2> HIDE DEF p, D
  <2>2. p # <<>> /\ p[1] \in D /\ Tail(p) \in Seq(D)
    BY <2>1
  <2> QED
    BY <2>2 DEF p, D
<1> QED
  BY <1>5, <1>6, <1>8

(* So does nextRequest.                                                    *)
LEMMA NextRequestKeepsInv ==
  ASSUME CodeInv, NextRequest
  PROVE  CodeInv'
<1>1. /\ BufferInv /\ HeapInv /\ QueueInv /\ pc = "idle" /\ pc' = pc
      /\ requests_.size > 0
      /\ requests_' = Queue!Popped(requests_)
      /\ heap' = [heap EXCEPT ![Pointers[1]].owner = "caller"]
      /\ UNCHANGED <<buffer_, scan, wire, fed, faults, parsed, log, peak>>
  BY DEF CodeInv, NextRequest, caller
<1>2. /\ QueueInv' /\ Pointers[1] \in DOMAIN heap
      /\ Pointers' \in Seq(DOMAIN heap)
  BY <1>1, PoppedQueue
<1>3. HeapInv'
  BY <1>1, <1>2, ReownedKeepsHeap DEF Parser!Owners
<1>4. BufferInv'
  BY <1>1 DEF BufferInv
<1> QED
  BY <1>2, <1>3, <1>4 DEF CodeInv

(* So does the caller's delete.                                            *)
LEMMA DeleteKeepsInv ==
  ASSUME CodeInv, NEW i \in Held, DeleteRequest(i)
  PROVE  CodeInv'
<1>1. /\ BufferInv /\ HeapInv /\ QueueInv /\ pc # "pushing" /\ pc' = pc
      /\ heap' = [heap EXCEPT ![i].owner = "deleted"]
      /\ UNCHANGED <<buffer_, scan, wire, fed, faults, parsed, log, requests_,
                     peak>>
  BY DEF CodeInv, DeleteRequest, caller
<1>2. /\ i \in DOMAIN heap /\ Pointers \in Seq(DOMAIN heap)
      /\ Pointers' = Pointers
  BY <1>1 DEF Held, HeapInv, Pointers, Queue!Elements
<1>3. HeapInv'
  BY <1>1, <1>2, ReownedKeepsHeap DEF Parser!Owners
<1>4. BufferInv'
  BY <1>1 DEF BufferInv
<1> QED
  BY <1>1, <1>3, <1>4, QueueUntouched DEF CodeInv

(* A new vector has no elements.                                           *)
LEMMA EmptyQueue == Queue!Elements(Queue!EmptyVec) = <<>>
BY EmptyHolds, VecShape

(* The destructor keeps the invariant.                                     *)
LEMMA DestroyKeepsInv ==
  ASSUME CodeInv, Destroy
  PROVE  CodeInv'
<1>1. /\ BufferInv /\ HeapInv /\ QueueInv /\ pc = "idle" /\ pc' = "destroyed"
      /\ heap' = [i \in DOMAIN heap |->
                    IF \E k \in DOMAIN Pointers : Pointers[k] = i
                    THEN [heap[i] EXCEPT !.owner = "deleted"] ELSE heap[i]]
      /\ requests_' = Queue!EmptyVec
      /\ buffer_' = <<>>
      /\ UNCHANGED <<scan, wire, fed, faults, parsed, log, peak>>
  BY DEF CodeInv, Destroy, caller
<1>2. Pointers' = <<>>
  BY <1>1, EmptyQueue DEF Pointers, Queue!Elements
<1>3. HeapInv'
  <2>1. heap \in Seq(RequestObject) /\ log \in Seq(DOMAIN heap)
    BY <1>1 DEF HeapInv
  <2>2. \A i \in DOMAIN heap : heap[i] \in RequestObject
    BY <2>1
  <2>3. \A i \in DOMAIN heap : [heap[i] EXCEPT !.owner = "deleted"] \in RequestObject
    BY <2>2 DEF RequestObject, Parser!Owners
  <2>4. \A i \in DOMAIN heap : heap'[i] \in RequestObject
    BY <1>1, <2>2, <2>3
  <2>5. DOMAIN heap = 1..Len(heap) /\ Len(heap) \in Nat
    BY <2>1
  <2>6. DOMAIN heap' = DOMAIN heap /\ heap' = [i \in DOMAIN heap |-> heap'[i]]
    BY <1>1
  <2>7. heap' \in [1..Len(heap) -> RequestObject]
    BY ONLY <2>4, <2>5, <2>6
  <2>8. heap' \in Seq(RequestObject)
    BY ONLY <2>5, <2>7
  <2> QED
    BY <1>1, <1>2, <2>1, <2>6, <2>8 DEF HeapInv
<1>4. QueueInv'
  <2>1. Queue!EmptyVec.size = 0 /\ Queue!EmptyVec.capacity = 0
    BY DEF Queue!EmptyVec
  <2>2. /\ peak \in Nat /\ peak <= Len(log) /\ 8 * Len(log) <= parsed
    BY <1>1 DEF QueueInv
  <2>3. requests_'.size <= peak /\ ~(requests_'.capacity > 4)
    BY <1>1, <2>1, <2>2
  <2>4. Holds(requests_', Pointers')
    BY <1>1, <1>2, EmptyHolds
  <2> QED
    BY <1>1, <2>2, <2>3, <2>4 DEF QueueInv, BlockFollowsPeak
<1>5. BufferInv'
  <2>1. <<>> \in String /\ Len(<<>>) = 0
    BY DEF String
  <2>2. scan = ScanStart /\ ScanInv(<<>>, ScanStart)
    BY <1>1, <2>1, ScanStartsRight DEF BufferInv
  <2> QED
    BY <1>1, <2>1, <2>2 DEF BufferInv
<1> QED
  BY <1>3, <1>4, <1>5 DEF CodeInv

(* The invariant holds of a new parser.                                    *)
LEMMA InitCodeInv ==
  ASSUME Init
  PROVE  CodeInv
<1>1. /\ wire \in Wires /\ fed = 0 /\ parsed = 0 /\ faults = 0
      /\ buffer_ = <<>> /\ scan = ScanStart /\ heap = <<>> /\ log = <<>>
      /\ requests_ = Queue!EmptyVec /\ pc = "idle" /\ peak = 0
  BY DEF Init
<1>2. <<>> \in String /\ Len(<<>>) = 0
  BY DEF String
<1>3. /\ wire \in String /\ Len(wire) \in Nat /\ MaxFaults[wire] \in Nat
  BY <1>1, CodeAssumption DEF String
<1>4. ScanInv(<<>>, ScanStart)
  BY <1>2, ScanStartsRight
<1>5. BufferInv
  BY <1>1, <1>2, <1>3, <1>4 DEF BufferInv
<1>6. Pointers = <<>>
  BY <1>1, EmptyQueue DEF Pointers
<1>7. HeapInv
  <2>1. \A S : <<>> \in Seq(S)
    OBVIOUS
  <2> QED
    BY <1>1, <1>6, <2>1 DEF HeapInv
<1>8. QueueInv
  <2>1. Queue!EmptyVec.size = 0 /\ Queue!EmptyVec.capacity = 0
    BY DEF Queue!EmptyVec
  <2>2. Holds(requests_, Pointers)
    BY <1>1, <1>6, EmptyHolds
  <2> QED
    BY <1>1, <1>2, <2>1, <2>2 DEF QueueInv, BlockFollowsPeak
<1> QED
  BY <1>5, <1>7, <1>8 DEF CodeInv

(* No step breaks the invariant.                                           *)
LEMMA NextKeepsInv ==
  ASSUME CodeInv, [Next]_vars
  PROVE  CodeInv'
<1>1. CASE UNCHANGED vars
  <2>1. CodeInv /\ UNCHANGED <<buffer_, scan, wire, fed, faults, heap, parsed,
                               log, requests_, peak, pc>>
    BY <1>1 DEF vars, caller, objects
  <2>2. BufferInv'
    BY <2>1 DEF CodeInv, BufferInv
  <2>3. HeapInv'
    BY <2>1 DEF CodeInv, HeapInv, OnItsWay, Pointers, Queue!Elements
  <2> QED
    BY <2>1, <2>2, <2>3, QueueUntouched DEF CodeInv
<1>2. ASSUME NEW n \in 1..(Len(wire) - fed), Feed(n) PROVE CodeInv'
  BY <1>2, FeedKeepsInv
<1>3. CASE FeedStep
  BY <1>3, ScanKeepsInv, AllocateKeepsInv, LeaveKeepsInv, PushKeepsInv
     DEF FeedStep
<1>4. CASE FeedFails \/ ScanFails
  BY <1>4, LeaveKeepsInv
<1>5. CASE PushFails
  BY <1>5, PushFailsKeepsInv
<1>6. CASE NextRequest
  BY <1>6, NextRequestKeepsInv
<1>7. ASSUME NEW i \in Held, DeleteRequest(i) PROVE CodeInv'
  BY <1>7, DeleteKeepsInv
<1>8. CASE Destroy
  BY <1>8, DestroyKeepsInv
<1> QED
  BY <1>1, <1>2, <1>3, <1>4, <1>5, <1>6, <1>7, <1>8 DEF Next

(* Nothing the parts of the parser do breaks the invariant.                *)
THEOREM CodeInvariant == Spec => []CodeInv
<1>1. Init => CodeInv
  BY InitCodeInv
<1>2. CodeInv /\ [Next]_vars => CodeInv'
  BY NextKeepsInv
<1> QED
  BY <1>1, <1>2, PTL DEF Spec

(* The members of the parser keep their types, every pointer in the queue  *)
(* and in the log is a pointer to an allocated request, and the scan of    *)
(* decodeHttp10Request stays inside the buffer: it reads no octet that has *)
(* not arrived, on any stream and however it is cut.                       *)
THEOREM TypeCorrect == Spec => []TypeOK
<1>1. CodeInv => TypeOK
  <2> SUFFICES ASSUME CodeInv PROVE TypeOK
    OBVIOUS
  <2>1. BufferInv /\ HeapInv
    BY DEF CodeInv
  <2>2. ScanInv(buffer_, scan) /\ buffer_ \in String
    BY <2>1 DEF BufferInv
  <2>3. ScanTypes(buffer_, scan)
    BY <2>2, Zenon DEF ScanInv
  <2>4. /\ scan.phase \in Phases
        /\ scan.position \in 0..Len(buffer_) /\ scan.lineEnd \in 0..Len(buffer_)
    BY <2>3 DEF ScanTypes
  <2>5. scan.phase = "request line" => scan.position = 0
    BY <2>2, Zenon DEF ScanInv
  <2>6. scan.phase = "headers" => scan.position <= scan.lineEnd
    BY <2>2, Zenon DEF ScanInv
  <2>7. Len(buffer_) \in Nat
    BY <2>2 DEF String
  <2>8. InLines => scan.position <= scan.lineEnd
    <3>1. scan.position \in Nat /\ scan.lineEnd \in Nat
      BY <2>4, <2>7
    <3>2. scan.position = 0 => scan.position <= scan.lineEnd
      BY <3>1
    <3> QED
      BY <2>5, <2>6, <3>2 DEF InLines
  <2>9. ScanInBounds
    BY <2>4, <2>8 DEF ScanInBounds, Size
  <2> QED
    BY <2>1, <2>2, <2>9 DEF TypeOK, BufferInv, HeapInv, String
<1> QED
  BY <1>1, CodeInvariant, PTL

(* When the scan of the buffer is over, octet by octet and line by line as *)
(* decodeHttp10Request goes, its result is the verdict of Decode.          *)
THEOREM ScanIsRight == Spec => []ScanAgrees
<1>1. CodeInv => ScanAgrees
  BY DEF CodeInv, BufferInv, ScanInv, ScanAgrees
<1> QED
  BY <1>1, CodeInvariant, PTL

(* The block of the queue never has twice as many slots as there were ever *)
(* requests waiting, however long the stream and however often the queue   *)
(* was popped.                                                             *)
THEOREM BlockStaysSmall == Spec => []BlockFollowsPeak
<1>1. CodeInv => BlockFollowsPeak
  BY DEF CodeInv, QueueInv
<1> QED
  BY <1>1, CodeInvariant, PTL

-----------------------------------------------------------------------------
(* feed gets on.                                                           *)

(* The body begins behind the blank line, and a request reaches that far   *)
(* at least.                                                               *)
ScanAhead ==
  /\ scan.phase = "body" => scan.position = scan.lineEnd + 2
  /\ scan.phase = "done" /\ scan.result.outcome = "request" =>
       scan.lineEnd + 2 <= scan.result.consumed

(* A step of the scan takes it to a later phase, or to a later octet.      *)
Nearer ==
  \/ scan.phase # "done" /\ scan'.phase = "done" /\ scan'.lineEnd = scan.lineEnd
  \/ InLines /\ scan'.phase = "body" /\ scan'.lineEnd = scan.lineEnd
  \/ InLines /\ InLines' /\ scan.lineEnd < scan'.lineEnd

(* The scan returns.                                                       *)
LEMMA ReturnIsNearer ==
  ASSUME NEW result, ScanTypes(buffer_, scan), scan.phase # "done",
         Return(result),
         result.outcome = "request" => scan.lineEnd + 2 <= result.consumed
  PROVE  ScanAhead' /\ Nearer
<1>1. /\ scan'.phase = "done" /\ scan'.result = result
      /\ scan'.lineEnd = scan.lineEnd
  BY DEF Return, ScanTypes
<1> QED
  BY <1>1 DEF ScanAhead, Nearer

(* The body, whose length cannot wrap the sum when it is there.            *)
LEMMA TakeBodyIsNearer ==
  ASSUME buffer_ \in String, Len(buffer_) <= MaxString,
         ScanInv(buffer_, scan), ScanAhead, TakeBody
  PROVE  ScanAhead' /\ Nearer
<1> DEFINE s == buffer_
           position == scan.position
           declared == HeaderGet(scan.headers, ContentLengthName)
           length == ContentLength(declared[1])
<1>1. /\ ScanTypes(s, scan) /\ scan.phase = "body"
      /\ position - 1 \in CRLFs(s) /\ IsBlankLine(s, position - 1)
      /\ HeadTaken(s, scan, position - 1)
  BY DEF ScanInv, TakeBody
<1>2. /\ Len(s) \in Nat /\ position \in Nat /\ position <= Len(s)
      /\ position = position - 1 + 1
  BY <1>1, ScanNumbers
<1>3. scan.headers \in HeaderLists
  BY <1>1, <1>2, WholeHead
<1>4. position \in 0..MaxString /\ MaxString \in Nat
  BY <1>2, SizeAssumption
<1>5. position = scan.lineEnd + 2
  BY <1>1 DEF ScanAhead
<1>6. ASSUME NEW body, NEW n \in Nat, ReturnRequest(body, n)
      PROVE  ScanAhead' /\ Nearer
  <2> DEFINE end == (position + n) % SizeMod
             request == NewRequest(scan.method[1], scan.path, RequestVersion,
                                   body, scan.headers)
  <2>1. CASE Size < end
    <3>1. Return(Incomplete)
      BY <1>6, <2>1 DEF ReturnRequest
    <3>2. Incomplete.outcome # "request"
      BY DEF Incomplete
    <3> QED
      BY <1>1, <3>1, <3>2, ReturnIsNearer
  <2>2. CASE ~(Size < end) /\ n > MaxString
    <3>1. Return(Throws("length_error"))
      BY <1>6, <2>2 DEF ReturnRequest
    <3>2. Throws("length_error").outcome # "request"
      BY DEF Throws
    <3> QED
      BY <1>1, <3>1, <3>2, ReturnIsNearer
  <2>3. CASE ~(Size < end) /\ ~(n > MaxString)
    <3>1. Return(Parsed(request, end))
      BY <1>6, <2>3 DEF ReturnRequest
    <3>2. n \in 0..MaxString
      BY <1>4, <2>3
    <3>3. end = position + n
      <4> HIDE DEF position
      <4> QED
        BY <1>4, <3>2, SumDoesNotWrap
    <3>4. position <= end
      <4> HIDE DEF position, end
      <4> QED
        BY <1>2, <3>3
    <3>5. Parsed(request, end).consumed = end
      BY DEF Parsed
    <3>6. scan.lineEnd + 2 <= Parsed(request, end).consumed
      BY <1>5, <3>4, <3>5
    <3> HIDE DEF request, end
    <3> QED
      BY <1>1, <3>1, <3>6, ReturnIsNearer
  <2> QED
    BY <2>1, <2>2, <2>3
<1>7. CASE declared = None
  <2>1. ReturnRequest(None, 0)
    BY <1>7 DEF TakeBody
  <2> QED
    BY <1>6, <2>1
<1>8. CASE declared # None /\ BadContentLength(declared[1])
  <2>1. Return(Throws("invalid_argument"))
    BY <1>8 DEF TakeBody
  <2>2. Throws("invalid_argument").outcome # "request"
    BY DEF Throws
  <2> QED
    BY <1>1, <2>1, <2>2, ReturnIsNearer
<1>9. CASE declared # None /\ ~BadContentLength(declared[1])
  <2>1. length \in Nat
    <3>1. declared[1] \in String
      BY <1>3, <1>9, HeaderValue
    <3> QED
      BY <1>9, <3>1, ContentLengthType
  <2>2. ReturnRequest(BodyAt(s, position, length), length)
    BY <1>9 DEF TakeBody
  <2> HIDE DEF length
  <2> QED
    BY <1>6, <2>1, <2>2
<1> QED
  BY <1>7, <1>8, <1>9

(* Each step of the scan.                                                  *)
LEMMA ScanIsNearer ==
  ASSUME buffer_ \in String, Len(buffer_) <= MaxString,
         ScanInv(buffer_, scan), ScanAhead, ScanStep
  PROVE  ScanAhead' /\ Nearer
<1>1. ScanTypes(buffer_, scan) /\ scan.lineEnd \in Int
  <2>1. ScanTypes(buffer_, scan)
    BY DEF ScanInv
  <2> QED
    BY <2>1, ScanNumbers
<1>2. CASE SkipOctet
  <2>1. scan'.phase = scan.phase /\ scan'.lineEnd = scan.lineEnd + 1
    BY <1>1, <1>2 DEF SkipOctet, ScanTypes
  <2>2. scan.lineEnd < scan'.lineEnd
    BY <1>1, <2>1
  <2>3. InLines /\ InLines'
    BY <1>2, <2>1 DEF SkipOctet, InLines
  <2>4. scan'.phase # "body" /\ scan'.phase # "done"
    BY <2>3 DEF InLines
  <2> QED
    BY <2>2, <2>3, <2>4 DEF ScanAhead, Nearer
<1>3. CASE RunOut
  <2>1. Incomplete.outcome # "request"
    BY DEF Incomplete
  <2> QED
    BY <1>1, <1>3, <2>1, ReturnIsNearer DEF RunOut, InLines
<1>4. ASSUME AtLineEnd, Return(Throws("invalid_argument"))
      PROVE  ScanAhead' /\ Nearer
  <2>1. Throws("invalid_argument").outcome # "request"
    BY DEF Throws
  <2> QED
    BY <1>1, <1>4, <2>1, ReturnIsNearer DEF AtLineEnd, InLines
<1>5. ASSUME AtLineEnd, scan'.phase = "headers", scan'.lineEnd = NextLine
      PROVE  ScanAhead' /\ Nearer
  <2>1. scan.lineEnd < scan'.lineEnd
    BY <1>1, <1>5 DEF NextLine
  <2> QED
    BY <1>5, <2>1 DEF AtLineEnd, InLines, ScanAhead, Nearer
<1>6. CASE TakeRequestLine
  <2>1. AtLineEnd
    BY <1>6 DEF TakeRequestLine
  <2>2. CASE BadRequestLine(ScannedLine)
    BY <1>4, <1>6, <2>1, <2>2 DEF TakeRequestLine
  <2>3. CASE ~BadRequestLine(ScannedLine)
    <3>1. PICK m : scan' = [scan EXCEPT !.phase = "headers", !.method = Some(m),
                                        !.path = PathPart(ScannedLine),
                                        !.position = NextLine,
                                        !.lineEnd = NextLine]
      BY <1>6, <2>3 DEF TakeRequestLine
    <3>2. scan'.phase = "headers" /\ scan'.lineEnd = NextLine
      BY <1>1, <3>1 DEF ScanTypes
    <3> QED
      BY <1>5, <2>1, <3>2
  <2> QED
    BY <2>2, <2>3
<1>7. CASE TakeHeaderLine
  <2>1. AtLineEnd /\ scan.phase = "headers"
    BY <1>7 DEF TakeHeaderLine
  <2>2. CASE BadHeaderLine(ScannedLine)
    BY <1>4, <1>7, <2>1, <2>2 DEF TakeHeaderLine
  <2>3. CASE ~BadHeaderLine(ScannedLine)
    <3>1. scan' = [scan EXCEPT !.headers = AddHeaderLine(ScannedLine, @),
                               !.position = NextLine, !.lineEnd = NextLine]
      BY <1>7, <2>3 DEF TakeHeaderLine
    <3>2. scan'.phase = "headers" /\ scan'.lineEnd = NextLine
      BY <1>1, <2>1, <3>1 DEF ScanTypes
    <3> QED
      BY <1>5, <2>1, <3>2
  <2> QED
    BY <2>2, <2>3
<1>8. CASE TakeBlankLine
  <2>1. /\ scan'.phase = "body" /\ scan'.lineEnd = scan.lineEnd
        /\ scan'.position = scan.lineEnd + 2
    BY <1>1, <1>8 DEF TakeBlankLine, NextLine, ScanTypes
  <2> QED
    BY <1>8, <2>1 DEF TakeBlankLine, InLines, ScanAhead, Nearer
<1>9. CASE TakeBody
  BY <1>9, TakeBodyIsNearer
<1> QED
  BY <1>2, <1>3, <1>6, <1>7, <1>8, <1>9 DEF ScanStep

(* The measure, phase by phase, is a number.                               *)
Counted ==
  /\ Size \in Nat /\ scan.lineEnd \in 0..Size
  /\ StepsLeft \in Nat
  /\ pc = "pushing" => StepsLeft = 2 * (Size - scan.lineEnd)
  /\ pc # "pushing" =>
       StepsLeft = 2 * (Size - scan.lineEnd)
                     + (IF scan.phase = "done" THEN 1
                        ELSE IF scan.phase = "body" THEN 2 ELSE 3)

(* So it is in every state of the invariant, and in the next one.          *)
LEMMA StepsAreCounted == BufferInv => Counted
<1> SUFFICES ASSUME BufferInv PROVE Counted
  OBVIOUS
<1>1. /\ buffer_ \in String /\ scan.lineEnd \in 0..Size
      /\ scan.phase \in Phases
  BY DEF BufferInv, ScanInv, ScanTypes, Size
<1>2. Size \in Nat
  BY <1>1 DEF String, Size
<1>3. /\ pc = "pushing" => StepsInPhase = 0
      /\ pc # "pushing" =>
           StepsInPhase = IF scan.phase = "done" THEN 1
                          ELSE IF scan.phase = "body" THEN 2 ELSE 3
  <2>1. scan.phase \in {"request line", "headers"} <=> InLines
    BY DEF InLines
  <2>2. CASE pc = "pushing"
    BY <2>2 DEF StepsInPhase
  <2>3. CASE pc # "pushing" /\ scan.phase = "done"
    BY <2>3 DEF StepsInPhase, InLines
  <2>4. CASE pc # "pushing" /\ scan.phase = "body"
    BY <2>4 DEF StepsInPhase, InLines
  <2>5. CASE pc # "pushing" /\ InLines
    BY <2>5 DEF StepsInPhase, InLines
  <2> QED
    BY <1>1, <2>1, <2>2, <2>3, <2>4, <2>5 DEF Phases
<1>4. StepsLeft \in Nat
  BY <1>1, <1>2, <1>3 DEF StepsLeft
<1> QED
  BY <1>1, <1>2, <1>3, <1>4 DEF StepsLeft, Counted

(* The same, after a step.                                                 *)
LEMMA StepsAreCountedAfter == BufferInv' => Counted'
  BY StepsAreCounted, PTL

(* No step but those of feed starts inside of it and ends there.           *)
LEMMA StepsOfFeed ==
  ASSUME Next, InFeed, InFeed'
  PROVE  Scan \/ Allocate \/ Push
BY DEF Next, InFeed, Feed, FeedStep, Rethrow, NothingFound, FeedFails,
       ScanFails, PushFails, LeaveFeed, NextRequest, DeleteRequest, Destroy

(* What the scan is ahead of stays so.                                     *)
LEMMA NextKeepsAhead ==
  ASSUME CodeInv, ScanAhead, [Next]_vars
  PROVE  ScanAhead'
<1>1. ScanStart.phase = "request line"
  BY DEF ScanStart
<1>2. CASE scan' = ScanStart
  BY <1>1, <1>2 DEF ScanAhead
<1>3. CASE scan' = scan
  BY <1>3 DEF ScanAhead
<1>4. CASE Scan
  BY <1>4, StreamFacts, ScanIsNearer DEF Scan, CodeInv, BufferInv
<1>5. Scan \/ scan' = ScanStart \/ scan' = scan
  BY DEF Next, vars, Feed, FeedStep, Allocate, Rethrow, NothingFound, Push,
         FeedFails, ScanFails, PushFails, LeaveFeed, NextRequest,
         DeleteRequest, Destroy
<1> QED
  BY <1>2, <1>3, <1>4, <1>5

(* A step inside feed lowers the measure.                                  *)
LEMMA StepGetsOn ==
  ASSUME CodeInv, CodeInv', ScanAhead, Next, InFeed, InFeed'
  PROVE  StepsLeft' < StepsLeft /\ StepsLeft' >= 0
<1>1. BufferInv /\ BufferInv'
  BY DEF CodeInv
<1>2. Counted /\ Counted'
  BY <1>1, StepsAreCounted, StepsAreCountedAfter
<1> SUFFICES ASSUME NEW n, n = Size, NEW m, m = Size', NEW e, e = scan.lineEnd,
                    NEW f, f = scan'.lineEnd,
                    NEW before, before = StepsLeft, NEW after, after = StepsLeft'
             PROVE  after < before /\ after >= 0
  OBVIOUS
<1>3. n \in Nat /\ e \in 0..n /\ m \in Nat /\ f \in 0..m
  BY <1>2 DEF Counted
<1>4. CASE Scan
  <2>1. pc = "scanning" /\ pc' = "scanning" /\ m = n
    BY <1>4 DEF Scan, Size
  <2>2. Nearer
    BY <1>1, <1>4, StreamFacts, ScanIsNearer DEF Scan, BufferInv
  <2>3. /\ before = 2 * (n - e) + (IF scan.phase = "done" THEN 1
                                   ELSE IF scan.phase = "body" THEN 2 ELSE 3)
        /\ after = 2 * (n - f) + (IF scan'.phase = "done" THEN 1
                                  ELSE IF scan'.phase = "body" THEN 2 ELSE 3)
    BY <1>2, <2>1 DEF Counted
  <2>4. CASE scan.phase # "done" /\ scan'.phase = "done" /\ f = e
    BY <1>3, <2>1, <2>3, <2>4
  <2>5. CASE InLines /\ scan'.phase = "body" /\ f = e
    <3>1. scan.phase # "done" /\ scan.phase # "body"
      BY <2>5 DEF InLines
    <3> QED
      BY <1>3, <2>1, <2>3, <2>5, <3>1
  <2>6. CASE InLines /\ InLines' /\ e < f
    <3>1. /\ scan.phase # "done" /\ scan.phase # "body"
          /\ scan'.phase # "done" /\ scan'.phase # "body"
      BY <2>6 DEF InLines
    <3> QED
      BY <1>3, <2>1, <2>3, <2>6, <3>1
  <2> QED
    BY <2>2, <2>4, <2>5, <2>6 DEF Nearer
<1>5. CASE Allocate
  <2>1. /\ pc = "scanning" /\ pc' = "pushing" /\ m = n /\ f = e
        /\ scan.phase = "done"
    BY <1>5 DEF Allocate, Size
  <2>2. before = 2 * (n - e) + 1 /\ after = 2 * (n - e)
    BY <1>2, <2>1 DEF Counted
  <2> QED
    BY <1>3, <2>2
<1>6. CASE Push
  <2>1. /\ pc = "pushing" /\ pc' = "scanning" /\ scan' = ScanStart
        /\ buffer_' = SubSeq(buffer_, heap[Len(heap)].size + 1, Len(buffer_))
    BY <1>6 DEF Push
  <2>2. OnItsWay
    BY <2>1 DEF CodeInv, HeapInv
  <2>3. scan.phase = "done" /\ scan.result.outcome = "request"
    BY <2>2 DEF OnItsWay
  <2>4. heap[Len(heap)].size = scan.result.consumed
    BY <2>2 DEF OnItsWay, Parser!Object
  <2> SUFFICES ASSUME NEW c, c = scan.result.consumed
               PROVE  after < before /\ after >= 0
    OBVIOUS
  <2>5. c \in Nat /\ c <= n /\ e + 2 <= c
    BY <1>1, <2>1, <2>3, RequestFound DEF ScanAhead, Size
  <2>6. m = n - c
    <3>1. buffer_ \in Seq(Octet) /\ Len(buffer_) = n
      BY <1>1 DEF BufferInv, String, Size
    <3>2. Len(SubSeq(buffer_, c + 1, n)) = n - c
      BY <1>3, <2>5, <3>1
    <3> QED
      BY <2>1, <2>4, <3>1, <3>2 DEF Size
  <2>7. f = 0 /\ scan'.phase = "request line"
    BY <2>1 DEF ScanStart
  <2>8. before = 2 * (n - e)
    BY <1>2, <2>1 DEF Counted
  <2>9. after = 2 * (m - f) + 3
    BY <1>2, <2>1, <2>7 DEF Counted
  <2>10. after = 2 * ((n - c) - 0) + 3
    BY <2>6, <2>7, <2>9, Zenon
  <2>11. n \in Int /\ e \in Int /\ c \in Int
    BY <1>3, <2>5
  <2>12. 2 * ((n - c) - 0) + 3 < 2 * (n - e) /\ 2 * ((n - c) - 0) + 3 >= 0
    BY <2>5, <2>11
  <2> QED
    BY <2>8, <2>10, <2>12
<1> QED
  BY <1>4, <1>5, <1>6, StepsOfFeed

(* Each step of feed but its last lowers the number of steps that are      *)
(* left, at most two for each octet of the buffer and three: feed comes to *)
(* an end on every stream, and scans no octet twice on its way.            *)
THEOREM FeedAdvances == Spec => FeedGetsOn
<1>1. Init => ScanAhead
  <2> SUFFICES ASSUME Init PROVE ScanAhead
    OBVIOUS
  <2>1. scan = ScanStart
    BY DEF Init
  <2>2. ScanStart.phase = "request line"
    BY DEF ScanStart
  <2> QED
    BY <2>1, <2>2 DEF ScanAhead
<1>2. CodeInv /\ ScanAhead /\ [Next]_vars => ScanAhead'
  BY NextKeepsAhead
<1>3. CodeInv /\ CodeInv' /\ ScanAhead /\ [Next]_vars
        => [InFeed /\ InFeed' => StepsLeft' < StepsLeft /\ StepsLeft' >= 0]_vars
  BY StepGetsOn
<1> QED
  BY <1>1, <1>2, <1>3, CodeInvariant, PTL DEF Spec, FeedGetsOn

-----------------------------------------------------------------------------
(* The refinement.                                                         *)

(* The helpers of the parser's decoder are those of this one.              *)
LEMMA SameHelpers ==
  /\ \A v : Parser!Trim(v) = Trim(v)
  /\ \A v : Parser!ContentLength(v) = ContentLength(v)
  /\ \A lines : Parser!HeadersOf(lines) = HeadersOf(lines)
  /\ \A h, n : Parser!HeaderGet(h, n) = HeaderGet(h, n)
  /\ \A s : Parser!CRLFs(s) = CRLFs(s)
  /\ \A s, p : Parser!LineAt(s, p) = LineAt(s, p)
<1>1. ASSUME NEW v PROVE Parser!Trim(v) = Trim(v)

  BY DEF IsSpace, Parser!IsSpace, SP, Parser!SP, HT, Parser!HT, Ink,
         Parser!Ink, Min, Parser!Min, Max, Parser!Max, TrimLeft,
         Parser!TrimLeft, TrimRight, Parser!TrimRight, Trim, Parser!Trim
<1>2. ASSUME NEW v PROVE Parser!ContentLength(v) = ContentLength(v)
  BY DEF ContentLength, Parser!ContentLength, FoldLeft, Parser!FoldLeft,
         MapThenFoldSet, Parser!MapThenFoldSet, Numerals, Parser!Numerals,
         DigitValue, Parser!DigitValue, IsSpace, Parser!IsSpace, SP,
         Parser!SP, HT, Parser!HT, Ink, Parser!Ink, Min, Parser!Min, Max,
         Parser!Max, TrimLeft, Parser!TrimLeft, TrimRight,
         Parser!TrimRight, Trim, Parser!Trim
<1>3. ASSUME NEW lines PROVE Parser!HeadersOf(lines) = HeadersOf(lines)
  BY DEF HeadersOf, Parser!HeadersOf, MapThenFoldSet,
         Parser!MapThenFoldSet, AddHeaderLine, Parser!AddHeaderLine,
         EmptyHeaders, Parser!EmptyHeaders, HeaderSet, Parser!HeaderSet,
         Places, Parser!Places, ToLower, Parser!ToLower, Occurrences,
         Parser!Occurrences, COLON, Parser!COLON, IsSpace, Parser!IsSpace,
         SP, Parser!SP, HT, Parser!HT, Ink, Parser!Ink, Min, Parser!Min,
         Max, Parser!Max, TrimLeft, Parser!TrimLeft, TrimRight,
         Parser!TrimRight, Trim, Parser!Trim
<1>4. ASSUME NEW h, NEW n PROVE Parser!HeaderGet(h, n) = HeaderGet(h, n)
  BY DEF HeaderGet, Parser!HeaderGet, Places, Parser!Places, ToLower,
         Parser!ToLower, None, Parser!None, Some, Parser!Some
<1>5. ASSUME NEW s PROVE Parser!CRLFs(s) = CRLFs(s)
  BY DEF CRLFs, Parser!CRLFs, CR, Parser!CR, LF, Parser!LF
<1>6. ASSUME NEW s, NEW p PROVE Parser!LineAt(s, p) = LineAt(s, p)
  BY DEF LineAt, Parser!LineAt, LineStart, Parser!LineStart, Max,
         Parser!Max, CRLFs, Parser!CRLFs, CR, Parser!CR, LF, Parser!LF
<1> QED
  BY <1>1, <1>2, <1>3, <1>4, <1>5, <1>6

(* The codec under the mapping is the codec.                               *)
LEMMA SameVerdicts ==
  /\ \A l, b, h : Parser!RequestOf(l, b, h) = RequestOf(l, b, h)
  /\ \A line : Parser!BadRequestLine(line) <=> BadRequestLine(line)
  /\ \A line : Parser!BadHeaderLine(line) <=> BadHeaderLine(line)
  /\ \A v : Parser!BadContentLength(v) <=> BadContentLength(v)
  /\ \A s : Parser!HeadEnds(s) = HeadEnds(s)
  /\ \A s, p : Parser!IsRequestLine(s, p) <=> IsRequestLine(s, p)
  /\ \A s, p : Parser!IsBlankLine(s, p) <=> IsBlankLine(s, p)
  /\ \A s : Parser!HeadComplete(s) <=> HeadComplete(s)
  /\ \A s : Parser!HeadLines(s) = HeadLines(s)
<1>1. \A l, b, h : Parser!RequestOf(l, b, h) = RequestOf(l, b, h)
  BY DEF RequestOf, Parser!RequestOf, NewRequest, Parser!NewRequest, SP,
         Parser!SP, HTTP_1_0, Parser!HTTP_1_0, HTTP_1_1, Parser!HTTP_1_1,
         RequestVersion, Parser!RequestVersion, VersionName,
         Parser!VersionName, VersionToken, Parser!VersionToken, HttpMethod,
         Parser!HttpMethod, Http10Method, Parser!Http10Method, MethodToken,
         Parser!MethodToken, ParseHttpMethod, Parser!ParseHttpMethod,
         MethodPart, Parser!MethodPart, PathPart, Parser!PathPart,
         VersionPart, Parser!VersionPart, Occurrences, Parser!Occurrences,
         Min, Parser!Min, Max, Parser!Max
<1>2. \A line : Parser!BadRequestLine(line) <=> BadRequestLine(line)
  BY DEF BadRequestLine, Parser!BadRequestLine, Cardinality,
         Parser!Cardinality, SP, Parser!SP, HTTP_1_0, Parser!HTTP_1_0,
         HTTP_1_1, Parser!HTTP_1_1, RequestVersion, Parser!RequestVersion,
         VersionName, Parser!VersionName, VersionToken,
         Parser!VersionToken, HttpMethod, Parser!HttpMethod, Http10Method,
         Parser!Http10Method, MethodToken, Parser!MethodToken,
         ParseHttpMethod, Parser!ParseHttpMethod, MethodPart,
         Parser!MethodPart, PathPart, Parser!PathPart, VersionPart,
         Parser!VersionPart, Occurrences, Parser!Occurrences, Min,
         Parser!Min, Max, Parser!Max
<1>3. \A line : Parser!BadHeaderLine(line) <=> BadHeaderLine(line)
  BY DEF BadHeaderLine, Parser!BadHeaderLine, Occurrences,
         Parser!Occurrences, COLON, Parser!COLON, Min, Parser!Min
<1>4. \A v : Parser!BadContentLength(v) <=> BadContentLength(v)
  BY DEF BadContentLength, Parser!BadContentLength, Digit, Parser!Digit,
         Numerals, Parser!Numerals, IsSpace, Parser!IsSpace, SP, Parser!SP,
         HT, Parser!HT, Ink, Parser!Ink, Min, Parser!Min, Max, Parser!Max,
         TrimLeft, Parser!TrimLeft, TrimRight, Parser!TrimRight, Trim,
         Parser!Trim
<1>5. \A s : Parser!HeadEnds(s) = HeadEnds(s)
  BY DEF HeadEnds, Parser!HeadEnds, CRLFs, Parser!CRLFs, CR, Parser!CR, LF,
         Parser!LF, IsBlankLine, Parser!IsBlankLine
<1>6. /\ \A s, p : Parser!IsRequestLine(s, p) <=> IsRequestLine(s, p)
      /\ \A s, p : Parser!IsBlankLine(s, p) <=> IsBlankLine(s, p)
  BY DEF IsRequestLine, Parser!IsRequestLine, CRLFs, Parser!CRLFs, CR,
         Parser!CR, LF, Parser!LF, IsBlankLine, Parser!IsBlankLine
<1>7. \A s : Parser!HeadComplete(s) <=> HeadComplete(s)
  BY DEF HeadComplete, Parser!HeadComplete, HeadEnds, Parser!HeadEnds,
         CRLFs, Parser!CRLFs, CR, Parser!CR, LF, Parser!LF, IsBlankLine,
         Parser!IsBlankLine
<1>8. \A s : Parser!HeadLines(s) = HeadLines(s)
  BY DEF HeadLines, Parser!HeadLines, HeadEnds, Parser!HeadEnds, LineAt,
         Parser!LineAt, LineStart, Parser!LineStart, Max, Parser!Max,
         CRLFs, Parser!CRLFs, CR, Parser!CR, LF, Parser!LF, IsBlankLine,
         Parser!IsBlankLine
<1> QED
  BY <1>1, <1>2, <1>3, <1>4, <1>5, <1>6, <1>7, <1>8

(* The decoder of the parser is this one.                                  *)
LEMMA SameDecoder ==
  ASSUME NEW s
  PROVE  Parser!Decode(s) = Decode(s) /\ Parser!CRLFs(s) = CRLFs(s)
<1>1. /\ Parser!Incomplete = Incomplete
      /\ \A e : Parser!Throws(e) = Throws(e)
      /\ \A r, c : Parser!Parsed(r, c) = Parsed(r, c)
      /\ Parser!None = None
      /\ \A t, p, n : Parser!BodyAt(t, p, n) = BodyAt(t, p, n)
      /\ \A S : Parser!Max(S) = Max(S)
      /\ Parser!ContentLengthName = ContentLengthName
  BY DEF Incomplete, Parser!Incomplete, Throws, Parser!Throws, Parsed,
         Parser!Parsed, NoRequest, Parser!NoRequest, None, Parser!None,
         Some, Parser!Some, BodyAt, Parser!BodyAt, Max, Parser!Max,
         ContentLengthName, Parser!ContentLengthName
<1>2. ASSUME NEW l, NEW h, NEW p, NEW n
      PROVE  Parser!DecodeBody(s, l, h, p, n) = DecodeBody(s, l, h, p, n)
  BY <1>1, SameVerdicts DEF DecodeBody, Parser!DecodeBody
<1>3. ASSUME NEW l
      PROVE  Parser!DecodeHead(s, l) = DecodeHead(s, l)
  BY <1>1, <1>2, SameHelpers, SameVerdicts DEF DecodeHead, Parser!DecodeHead
<1>4. ASSUME NEW p
      PROVE  Parser!Malformed(s, p) <=> Malformed(s, p)
  BY SameHelpers, SameVerdicts DEF Malformed, Parser!Malformed
<1>5. Parser!Decode(s) = Decode(s)
  BY <1>1, <1>3, <1>4, SameVerdicts DEF Decode, Parser!Decode
<1> QED
  BY <1>5, SameHelpers

(* Taking the last element off again, and replacing it.                    *)
LEMMA Fronts ==
  ASSUME NEW S, NEW h \in Seq(S)
  PROVE  /\ \A x \in S : SubSeq(Append(h, x), 1, Len(Append(h, x)) - 1) = h
         /\ \A y \in S : h # <<>> =>
              /\ [h EXCEPT ![Len(h)] = y] = Append(SubSeq(h, 1, Len(h) - 1), y)
              /\ Len(SubSeq(h, 1, Len(h) - 1)) + 1 = Len(h)
<1>1. Len(h) \in Nat /\ h \in [1..Len(h) -> S]
  OBVIOUS
<1>2. ASSUME NEW x \in S
      PROVE  SubSeq(Append(h, x), 1, Len(Append(h, x)) - 1) = h
  <2> DEFINE g == Append(h, x)
             n == Len(h)
  <2>1. g \in Seq(S) /\ Len(g) = n + 1 /\ (\A i \in 1..n : g[i] = h[i])
        /\ n \in Nat
    BY <1>1, AppendProperties
  <2> HIDE DEF g
  <2>2. \A i \in 1..n : g[i] \in S
    BY <1>1, <2>1
  <2>3. Len(g) - 1 = n
    BY <2>1
  <2> HIDE DEF n
  <2>4. /\ SubSeq(g, 1, n) \in Seq(S)
        /\ Len(SubSeq(g, 1, n)) = IF 1 <= n THEN n - 1 + 1 ELSE 0
        /\ \A i \in 1..(n - 1 + 1) : SubSeq(g, 1, n)[i] = g[1 + i - 1]
    BY <2>1, <2>2, SubSeqProperties
  <2> DEFINE t == SubSeq(g, 1, n)
  <2> HIDE DEF t
  <2>5. t \in Seq(S) /\ Len(t) = n /\ \A i \in 1..n : t[i] = h[i]
    <3>1. n - 1 + 1 = n /\ (IF 1 <= n THEN n ELSE 0) = n
          /\ \A i \in 1..n : 1 + i - 1 = i
      BY <2>1
    <3> QED
      BY <2>1, <2>4, <3>1 DEF t
  <2>6. t \in [1..n -> S] /\ h \in [1..n -> S]
    BY <1>1, <2>5 DEF n
  <2>7. t = h
    BY <2>5, <2>6
  <2> QED
    BY <2>3, <2>7 DEF t, g
<1>3. ASSUME NEW y \in S, h # <<>>
      PROVE  /\ [h EXCEPT ![Len(h)] = y] = Append(SubSeq(h, 1, Len(h) - 1), y)
             /\ Len(SubSeq(h, 1, Len(h) - 1)) + 1 = Len(h)
  <2> DEFINE n == Len(h)
             m == n - 1
             t == SubSeq(h, 1, m)
             a == Append(t, y)
             g == [h EXCEPT ![n] = y]
  <2>1. n \in Nat \ {0} /\ m \in Nat /\ m + 1 = n
    BY <1>1, <1>3
  <2>2. h \in Seq(S) /\ \A i \in 1..m : h[i] \in S
    BY <1>1, <2>1
  <2> HIDE DEF m
  <2>3. /\ t \in Seq(S)
        /\ Len(t) = IF 1 <= m THEN m - 1 + 1 ELSE 0
        /\ \A i \in 1..(m - 1 + 1) : t[i] = h[1 + i - 1]
    BY <2>1, <2>2, SubSeqProperties
  <2> HIDE DEF t
  <2>4. Len(t) = m /\ \A i \in 1..m : t[i] = h[i]
    <3>1. m - 1 + 1 = m /\ (IF 1 <= m THEN m ELSE 0) = m
          /\ \A i \in 1..m : 1 + i - 1 = i
      BY <2>1
    <3> QED
      BY <2>3, <3>1
  <2>5. /\ a \in Seq(S) /\ Len(a) = n /\ a[n] = y
        /\ \A i \in 1..m : a[i] = t[i]
    BY <1>3, <2>1, <2>3, <2>4, AppendProperties
  <2> HIDE DEF a
  <2>6. g \in [1..n -> S] /\ g[n] = y /\ \A i \in 1..m : g[i] = h[i]
    <3>1. h \in [1..n -> S] /\ n \in 1..n
      BY <1>1, <2>1
    <3>2. \A i \in 1..m : i \in 1..n /\ i # n
      BY <2>1
    <3> HIDE DEF n
    <3> QED
      BY <1>3, <3>1, <3>2
  <2> HIDE DEF g
  <2>7. a \in [1..n -> S]
    BY <2>5
  <2>8. \A i \in 1..n : i \in 1..m \/ i = n
    BY <2>1
  <2>9. \A i \in 1..n : a[i] = g[i]
    BY <2>4, <2>5, <2>6, <2>8
  <2>10. a = g
    BY <2>6, <2>7, <2>9
  <2> QED
    BY <2>1, <2>4, <2>10 DEF a, g, t, m, n
<1> QED
  BY <1>2, <1>3

(* What the parser's heap and pc stand for.                                *)
Allocated == IF pc = "pushing" THEN SubSeq(heap, 1, Len(heap) - 1) ELSE heap
Stage == IF pc \in {"scanning", "pushing"} THEN "draining" ELSE pc

(* Outside of push_back the heap is the parser's.                          *)
LEMMA StageAndHeap ==
  /\ pc = "idle" => Stage = "idle"
  /\ pc = "destroyed" => Stage = "destroyed"
  /\ pc \in {"scanning", "pushing"} => Stage = "draining"
  /\ pc # "pushing" => Allocated = heap
BY DEF Stage, Allocated

(* The same after a step.                                                  *)
LEMMA StageAndHeapAfter ==
  /\ pc' = "idle" => Stage' = "idle"
  /\ pc' = "destroyed" => Stage' = "destroyed"
  /\ pc' \in {"scanning", "pushing"} => Stage' = "draining"
  /\ pc' # "pushing" => Allocated' = heap'
BY DEF Stage, Allocated

(* The same vector holds the same pointers.                                *)
LEMMA SamePointers == requests_' = requests_ => Pointers' = Pointers
BY DEF Pointers, Queue!Elements

(* A new parser is one of Http10Parser.                                    *)
LEMMA InitMaps == Init => Parser!Init
<1> SUFFICES ASSUME Init PROVE Parser!Init
  OBVIOUS
<1>1. Pointers = <<>>
  BY EmptyQueue DEF Init, Pointers
<1>2. Stage = "idle" /\ Allocated = heap
  BY StageAndHeap DEF Init
<1> QED
  BY <1>1, <1>2 DEF Init, Parser!Init, Stage, Allocated

(* Feed is Feed.                                                           *)
LEMMA FeedMaps ==
  ASSUME NEW n, Feed(n)
  PROVE  Parser!Feed(n)
<1>1. /\ pc = "idle" /\ pc' = "scanning" /\ fed' = fed + n
      /\ buffer_' = buffer_ \o SubSeq(wire, fed + 1, fed + n)
      /\ thrown' = "none"
      /\ UNCHANGED <<wire, faults, heap, parsed, log, requests_>>
  BY DEF Feed, objects
<1>2. /\ Stage = "idle" /\ Stage' = "draining"
      /\ Allocated' = Allocated /\ Pointers' = Pointers
  BY <1>1, StageAndHeap, StageAndHeapAfter, SamePointers
<1> QED
  BY <1>1, <1>2 DEF Parser!Feed, Stage, Allocated

(* A step of the scan is no step of the parser.                            *)
LEMMA ScanMaps ==
  ASSUME Scan \/ UNCHANGED vars
  PROVE  UNCHANGED Parser!vars
<1>1. UNCHANGED <<wire, fed, buffer_, requests_, heap, parsed, log, pc, thrown,
                  faults>>
  BY DEF Scan, vars, caller, objects
<1>2. Stage' = Stage /\ Allocated' = Allocated /\ Pointers' = Pointers
  BY <1>1, SamePointers DEF Stage, Allocated
<1> QED
  BY <1>1, <1>2 DEF Parser!vars, Stage, Allocated

(* Nor is the allocation of a request, which the mapping hides.            *)
LEMMA AllocateMaps ==
  ASSUME CodeInv, Allocate
  PROVE  UNCHANGED Parser!vars
<1> DEFINE object == Parser!Object(scan.result.request, parsed,
                                   scan.result.consumed, "drain")
<1>1. /\ pc = "scanning" /\ pc' = "pushing" /\ heap' = Append(heap, object)
      /\ UNCHANGED <<wire, fed, buffer_, requests_, parsed, log, thrown,
                     faults>>
  BY DEF Allocate, caller
<1>2. heap \in Seq(RequestObject) /\ heap' \in Seq(RequestObject)
  BY AllocateKeepsInv DEF CodeInv, HeapInv
<1> HIDE DEF object
<1>3. object \in RequestObject
  <2>1. Len(heap) + 1 \in DOMAIN heap' /\ heap'[Len(heap) + 1] = object
    BY <1>1, <1>2
  <2> QED
    BY <1>2, <2>1
<1>4. SubSeq(heap', 1, Len(heap') - 1) = heap
  BY <1>1, <1>2, <1>3, Fronts
<1>5. Allocated' = SubSeq(heap', 1, Len(heap') - 1) /\ Allocated = heap
  BY <1>1 DEF Allocated
<1>6. Stage' = Stage /\ Pointers' = Pointers
  BY <1>1, StageAndHeap, StageAndHeapAfter, SamePointers
<1>7. Allocated' = Allocated
  BY <1>4, <1>5
<1> QED
  BY <1>1, <1>6, <1>7 DEF Parser!vars, Stage, Allocated

(* The steps that leave feed.                                              *)
LEMMA LeaveMaps ==
  ASSUME NEW e, LeaveFeed(e), pc \in {"idle", "scanning"},
         UNCHANGED <<wire, fed, objects>>
  PROVE  /\ Stage = IF pc = "idle" THEN "idle" ELSE "draining"
         /\ Stage' = "idle" /\ thrown' = e /\ buffer_' = buffer_
         /\ UNCHANGED <<wire, fed, Pointers, Allocated, parsed, log>>
<1>1. /\ pc' = "idle" /\ thrown' = e /\ buffer_' = buffer_
      /\ UNCHANGED <<heap, parsed, log, requests_>>
  BY DEF LeaveFeed, objects
<1>2. /\ Stage = IF pc = "idle" THEN "idle" ELSE "draining"
      /\ Stage' = "idle" /\ Pointers' = Pointers
  BY <1>1, StageAndHeap, StageAndHeapAfter, SamePointers
<1>3. Allocated' = Allocated
  BY <1>1, StageAndHeap, StageAndHeapAfter
<1> QED
  BY <1>1, <1>2, <1>3

(* An exception of the scan is DrainThrows.                                *)
LEMMA RethrowMaps ==
  ASSUME CodeInv, Rethrow
  PROVE  Parser!DrainThrows
<1>1. /\ pc = "scanning" /\ scan.result.outcome \in Exceptions
      /\ LeaveFeed(scan.result.outcome)
      /\ UNCHANGED <<wire, fed, faults, objects>>
  BY DEF Rethrow, caller
<1>2. Parser!Decode(buffer_) = scan.result
  BY SameDecoder DEF CodeInv, BufferInv, ScanInv, Rethrow
<1>3. /\ Stage = "draining" /\ Stage' = "idle"
      /\ thrown' = scan.result.outcome /\ buffer_' = buffer_
      /\ UNCHANGED <<wire, fed, Pointers, Allocated, parsed, log>>
  BY <1>1, LeaveMaps
<1>4. scan.result.outcome \in Parser!Exceptions
  BY <1>1 DEF Exceptions, Parser!Exceptions
<1> QED
  BY <1>1, <1>2, <1>3, <1>4 DEF Parser!DrainThrows, Stage, Allocated

(* A scan that found no request is DrainDone.                              *)
LEMMA NothingFoundMaps ==
  ASSUME CodeInv, NothingFound
  PROVE  Parser!DrainDone
<1>1. /\ pc = "scanning" /\ scan.result.outcome = "incomplete"
      /\ LeaveFeed(thrown)
      /\ UNCHANGED <<wire, fed, faults, objects>>
  BY DEF NothingFound, caller
<1>2. Parser!Decode(buffer_) = scan.result
  BY SameDecoder DEF CodeInv, BufferInv, ScanInv, NothingFound
<1>3. /\ Stage = "draining" /\ Stage' = "idle"
      /\ thrown' = thrown /\ buffer_' = buffer_
      /\ UNCHANGED <<wire, fed, Pointers, Allocated, parsed, log>>
  BY <1>1, LeaveMaps
<1> QED
  BY <1>1, <1>2, <1>3 DEF Parser!DrainDone, Stage, Allocated

(* FeedFails is FeedFails.                                                 *)
LEMMA FeedFailsMaps ==
  ASSUME FeedFails
  PROVE  Parser!FeedFails
<1>1. /\ pc = "idle" /\ fed < Len(wire) /\ LeaveFeed("bad_alloc")
      /\ faults < MaxFaults[wire] /\ faults' = faults + 1
      /\ UNCHANGED <<wire, fed, objects>>
  BY DEF FeedFails, Fail
<1>2. /\ Stage = "idle" /\ Stage' = "idle"
      /\ thrown' = "bad_alloc" /\ buffer_' = buffer_
      /\ UNCHANGED <<wire, fed, Pointers, Allocated, parsed, log>>
  BY <1>1, LeaveMaps
<1> QED
  BY <1>1, <1>2 DEF Parser!FeedFails, Stage, Allocated

(* Decoding allocates only once it has met a line end.                     *)
LEMMA ScanFailsMaps ==
  ASSUME CodeInv, ScanFails
  PROVE  Parser!DecodeFails
<1>1. /\ pc = "scanning" /\ (AtLineEnd \/ scan.phase = "body")
      /\ LeaveFeed("bad_alloc")
      /\ faults < MaxFaults[wire] /\ faults' = faults + 1
      /\ UNCHANGED <<wire, fed, objects>>
  BY DEF ScanFails, Fail
<1>2. /\ Stage = "draining" /\ Stage' = "idle"
      /\ thrown' = "bad_alloc" /\ buffer_' = buffer_
      /\ UNCHANGED <<wire, fed, Pointers, Allocated, parsed, log>>
  BY <1>1, LeaveMaps
<1>3. ScanInv(buffer_, scan) /\ buffer_ \in String
  BY DEF CodeInv, BufferInv
<1>4. CRLFs(buffer_) # {}
  <2>1. CASE AtLineEnd
    <3>1. ScanTypes(buffer_, scan)
      BY <1>3, Zenon DEF ScanInv
    <3>2. InLines /\ OctetsLeft
      BY <2>1 DEF AtLineEnd
    <3> QED
      BY <1>3, <2>1, <3>1, <3>2, LineEndsHere
  <2>2. CASE scan.phase = "body"
    <3>1. scan.position - 1 \in CRLFs(buffer_)
      BY <1>3, <2>2, Zenon DEF ScanInv
    <3> QED
      BY <3>1
  <2> QED
    BY <1>1, <2>1, <2>2
<1>5. Parser!CRLFs(buffer_) # {}
  BY <1>4, SameDecoder
<1> QED
  BY <1>1, <1>2, <1>5 DEF Parser!DecodeFails, Stage, Allocated

(* The object that leaves the drain loop, for the queue or for nobody.     *)
LEMMA ObjectLeaves ==
  ASSUME CodeInv, pc = "pushing", NEW o \in Parser!Owners,
         heap' = [heap EXCEPT ![Len(heap)].owner = o], pc' # "pushing"
  PROVE  LET next == Parser!Decode(buffer_)
         IN  /\ next.outcome = "request"
             /\ next.consumed = heap[Len(heap)].size
             /\ Allocated' = Append(Allocated,
                               Parser!Object(next.request, parsed,
                                             next.consumed, o))
             /\ Len(Allocated) + 1 = Len(heap)
<1> DEFINE next == Parser!Decode(buffer_)
           n == Len(heap)
           object == Parser!Object(next.request, parsed, next.consumed, o)
<1>1. /\ heap \in Seq(RequestObject) /\ OnItsWay
      /\ ScanInv(buffer_, scan)
  BY DEF CodeInv, HeapInv, BufferInv
<1>2. next = scan.result
  <2>1. scan.result = Decode(buffer_)
    BY <1>1, Zenon DEF ScanInv, OnItsWay
  <2> QED
    BY <2>1, SameDecoder
<1>3. /\ next.outcome = "request" /\ heap # <<>>
      /\ heap[n] = Parser!Object(next.request, parsed, next.consumed, "drain")
  BY <1>1, <1>2 DEF OnItsWay
<1>4. n \in DOMAIN heap
  BY <1>1, <1>3
<1>5. [heap[n] EXCEPT !.owner = o] = object
  BY <1>3 DEF Parser!Object
<1>6. heap[n].size = next.consumed
  BY <1>3 DEF Parser!Object
<1> HIDE DEF next, object
<1>7. heap' = [heap EXCEPT ![n] = object]
  BY <1>4, <1>5
<1>8. object \in RequestObject
  <2>1. heap[n] \in RequestObject
    BY <1>1, <1>4
  <2>2. [heap[n] EXCEPT !.owner = o] \in RequestObject
    BY <2>1 DEF RequestObject
  <2> QED
    BY <1>5, <2>2
<1>9. /\ heap' = Append(SubSeq(heap, 1, n - 1), object)
      /\ Len(SubSeq(heap, 1, n - 1)) + 1 = n
  BY <1>1, <1>3, <1>7, <1>8, Fronts
<1>10. Allocated = SubSeq(heap, 1, n - 1) /\ Allocated' = heap'
  BY StageAndHeapAfter DEF Allocated
<1> QED
  BY <1>3, <1>6, <1>9, <1>10 DEF next, object

(* A push is DrainRequest.                                                 *)
LEMMA PushMaps ==
  ASSUME CodeInv, Push
  PROVE  Parser!DrainRequest
<1> DEFINE new == Len(heap)
           size == heap[new].size
           next == Parser!Decode(buffer_)
<1>1. /\ pc = "pushing" /\ pc' = "scanning"
      /\ requests_' = Queue!Placed(Queue!WithRoom(requests_), new)
      /\ heap' = [heap EXCEPT ![new].owner = "queue"]
      /\ log' = Append(log, new)
      /\ buffer_' = SubSeq(buffer_, size + 1, Len(buffer_))
      /\ parsed' = parsed + size
      /\ UNCHANGED <<wire, fed, faults, thrown>>
  BY DEF Push, caller
<1>2. Pointers' = Append(Pointers, new)
  BY PushKeepsInv
<1>3. /\ next.outcome = "request" /\ next.consumed = size
      /\ Allocated' = Append(Allocated, Parser!Object(next.request, parsed,
                                                      next.consumed, "queue"))
      /\ Len(Allocated) + 1 = new
  BY <1>1, ObjectLeaves DEF Parser!Owners
<1>4. Stage = "draining" /\ Stage' = "draining"
  BY <1>1, StageAndHeap, StageAndHeapAfter
<1>5. buffer_' = Parser!Erased(next.consumed)
  BY <1>1, <1>3 DEF Parser!Erased
<1> HIDE DEF new, size, next
<1>6. /\ log' = Append(log, Len(Allocated) + 1)
      /\ Pointers' = Append(Pointers, Len(Allocated) + 1)
      /\ parsed' = parsed + next.consumed
  BY <1>1, <1>2, <1>3
<1> QED
  BY <1>1, <1>3, <1>4, <1>5, <1>6
     DEF Parser!DrainRequest, Stage, Allocated, next

(* A push that fails is PushFails.                                         *)
LEMMA PushFailsMaps ==
  ASSUME CodeInv, PushFails
  PROVE  Parser!PushFails
<1> DEFINE next == Parser!Decode(buffer_)
<1>1. /\ pc = "pushing" /\ pc' = "idle" /\ thrown' = "bad_alloc"
      /\ heap' = [heap EXCEPT ![Len(heap)].owner = "leaked"]
      /\ faults < MaxFaults[wire] /\ faults' = faults + 1
      /\ UNCHANGED <<wire, fed, buffer_, parsed, log, requests_>>
  BY DEF PushFails, Fail, LeaveFeed
<1>2. /\ next.outcome = "request"
      /\ Allocated' = Append(Allocated, Parser!Object(next.request, parsed,
                                                      next.consumed, "leaked"))
  BY <1>1, ObjectLeaves DEF Parser!Owners
<1>3. Stage = "draining" /\ Stage' = "idle" /\ Pointers' = Pointers
  BY <1>1, StageAndHeap, StageAndHeapAfter, SamePointers
<1> HIDE DEF next
<1> QED
  BY <1>1, <1>2, <1>3 DEF Parser!PushFails, Stage, Allocated, next

(* NextRequest is NextRequest.                                             *)
LEMMA NextRequestMaps ==
  ASSUME CodeInv, NextRequest
  PROVE  Parser!NextRequest
<1>1. /\ pc = "idle" /\ pc' = pc /\ requests_.size > 0
      /\ requests_' = Queue!Popped(requests_)
      /\ heap' = [heap EXCEPT ![Pointers[1]].owner = "caller"]
      /\ UNCHANGED <<wire, fed, faults, buffer_, parsed, log, peak, thrown>>
  BY DEF NextRequest, caller
<1>2. Pointers # <<>> /\ Pointers' = Tail(Pointers)
  BY <1>1, PoppedQueue DEF CodeInv
<1>3. /\ Stage = "idle" /\ Stage' = "idle"
      /\ Allocated = heap /\ Allocated' = heap'
  BY <1>1, StageAndHeap, StageAndHeapAfter
<1>4. Allocated' = [Allocated EXCEPT ![Head(Pointers)].owner = "caller"]
  <2>1. Head(Pointers) = Pointers[1]
    BY <1>2
  <2> QED
    BY <1>1, <1>3, <2>1
<1> QED
  BY <1>1, <1>2, <1>3, <1>4
     DEF Parser!NextRequest, Parser!Popped, Stage, Allocated

(* DeleteRequest is DeleteRequest.                                         *)
LEMMA DeleteMaps ==
  ASSUME NEW i \in Held, DeleteRequest(i)
  PROVE  \E j \in DOMAIN Allocated : Parser!DeleteRequest(j)
<1>1. /\ pc \in {"idle", "destroyed"} /\ pc' = pc
      /\ heap' = [heap EXCEPT ![i].owner = "deleted"]
      /\ i \in DOMAIN heap /\ heap[i].owner = "caller"
      /\ UNCHANGED <<wire, fed, faults, buffer_, parsed, log, requests_, thrown>>
  BY DEF DeleteRequest, Held, caller
<1>2. /\ Stage # "draining" /\ Stage' = Stage /\ Pointers' = Pointers
      /\ Allocated = heap /\ Allocated' = heap'
  BY <1>1, StageAndHeap, StageAndHeapAfter, SamePointers
<1>3. /\ Allocated[i].owner = "caller"
      /\ Allocated' = [Allocated EXCEPT ![i].owner = "deleted"]
      /\ i \in DOMAIN Allocated
  BY <1>1, <1>2
<1>4. Parser!DeleteRequest(i)
  BY <1>1, <1>2, <1>3 DEF Parser!DeleteRequest, Stage, Allocated
<1> QED
  BY <1>3, <1>4

(* Destroy is Destroy.                                                     *)
LEMMA DestroyMaps ==
  ASSUME Destroy
  PROVE  Parser!Destroy
<1>1. /\ pc = "idle" /\ pc' = "destroyed"
      /\ heap' = [i \in DOMAIN heap |->
                    IF \E k \in DOMAIN Pointers : Pointers[k] = i
                    THEN [heap[i] EXCEPT !.owner = "deleted"] ELSE heap[i]]
      /\ requests_' = Queue!EmptyVec /\ buffer_' = <<>>
      /\ UNCHANGED <<wire, fed, faults, parsed, log, thrown>>
  BY DEF Destroy, caller
<1>2. Pointers' = <<>>
  BY <1>1, EmptyQueue DEF Pointers, Queue!Elements
<1>3. /\ Stage = "idle" /\ Stage' = "destroyed"
      /\ Allocated = heap /\ Allocated' = heap'
  BY <1>1, StageAndHeap, StageAndHeapAfter
<1>4. Allocated' = [i \in DOMAIN Allocated |->
                      IF \E k \in DOMAIN Pointers : Pointers[k] = i
                      THEN [Allocated[i] EXCEPT !.owner = "deleted"]
                      ELSE Allocated[i]]
  BY <1>1, <1>3
<1> QED
  BY <1>1, <1>2, <1>3, <1>4
     DEF Parser!Destroy, Parser!Cleared, Parser!Queued, Stage, Allocated

(* Every step of the code is a step of the parser or none.                 *)
LEMMA StepMaps ==
  ASSUME CodeInv, [Next]_vars
  PROVE  [Parser!Next]_(Parser!vars)
<1>1. CASE UNCHANGED vars
  BY <1>1, ScanMaps
<1>2. ASSUME NEW n \in 1..(Len(wire) - fed), Feed(n) PROVE Parser!Next
  BY <1>2, FeedMaps DEF Parser!Next
<1>3. CASE Scan
  BY <1>3, ScanMaps
<1>4. CASE Allocate
  BY <1>4, AllocateMaps
<1>5. CASE Rethrow
  BY <1>5, RethrowMaps DEF Parser!Next, Parser!Drain
<1>6. CASE NothingFound
  BY <1>6, NothingFoundMaps DEF Parser!Next, Parser!Drain
<1>7. CASE Push
  BY <1>7, PushMaps DEF Parser!Next, Parser!Drain
<1>8. CASE FeedFails
  BY <1>8, FeedFailsMaps DEF Parser!Next
<1>9. CASE ScanFails
  BY <1>9, ScanFailsMaps DEF Parser!Next
<1>10. CASE PushFails
  BY <1>10, PushFailsMaps DEF Parser!Next
<1>11. CASE NextRequest
  BY <1>11, NextRequestMaps DEF Parser!Next
<1>12. ASSUME NEW i \in Held, DeleteRequest(i) PROVE Parser!Next
  BY <1>12, DeleteMaps DEF Parser!Next, Allocated
<1>13. CASE Destroy
  BY <1>13, DestroyMaps DEF Parser!Next
<1> QED
  BY <1>1, <1>2, <1>3, <1>4, <1>5, <1>6, <1>7, <1>8, <1>9, <1>10, <1>11,
     <1>12, <1>13 DEF Next, FeedStep

(* The code does only what Http10Parser does: the scan and the allocation  *)
(* of a request are no steps of the parser, each push_back is one, and     *)
(* feed fails, and the queue hands over, where the parser's do.            *)
THEOREM CodeIsAParser == Spec => Parser!Init /\ [][Parser!Next]_(Parser!vars)
<1>1. Init => Parser!Init
  BY InitMaps
<1>2. CodeInv /\ [Next]_vars => [Parser!Next]_(Parser!vars)
  BY StepMaps
<1> QED
  BY <1>1, <1>2, CodeInvariant, PTL DEF Spec

=============================================================================

----------------------------- MODULE Http10Scan -----------------------------
(***************************************************************************)
(* decodeHttp10Request as the loop it is: one pass over the buffer, octet  *)
(* by octet, that takes a line whenever it meets a CRLF pair.  Its result  *)
(* is to be that of Decode, which names the same lines all at once.        *)
(*                                                                         *)
(* Positions count from 0, as in the code.                                 *)
(***************************************************************************)
EXTENDS Http10Request

VARIABLES
  buffer_,    \* the octets to decode
  scan        \* the local variables of decodeHttp10Request

Size == Len(buffer_)

(* The loop is in the request line, in the header lines, at the body, or   *)
(* over.  lineEnd is also the headerEnd of the code.                       *)
Phases == {"request line", "headers", "body", "done"}

ScanStart ==
  [phase |-> "request line", lineEnd |-> 0, position |-> 0,
   method |-> None, path |-> <<>>, headers |-> EmptyHeaders,
   result |-> Incomplete]

InLines == scan.phase \in {"request line", "headers"}

(* The end of the buffer; the variant stops an octet early.                *)
OctetsLeftButOne == scan.lineEnd + 2 < Size
OctetsLeft == scan.lineEnd + 1 < Size

AtLineEnd ==
  /\ InLines
  /\ OctetsLeft
  /\ buffer_[scan.lineEnd + 1] = CR
  /\ buffer_[scan.lineEnd + 2] = LF

ScannedLine == SubSeq(buffer_, scan.position + 1, scan.lineEnd)

(* Behind the CRLF pair; the variants go an octet too far, and nowhere.    *)
SameLine == scan.position
NextLineButOne == scan.lineEnd + 3
NextLine == scan.lineEnd + 2

Return(result) ==
  scan' = [scan EXCEPT !.phase = "done", !.result = result]

-----------------------------------------------------------------------------

SkipOctet ==
  /\ InLines /\ OctetsLeft /\ ~AtLineEnd
  /\ scan' = [scan EXCEPT !.lineEnd = @ + 1]

(* The buffer ends before a CRLF pair is found: NULL.                      *)
RunOut ==
  /\ InLines /\ ~OctetsLeft
  /\ Return(Incomplete)

(* Three tokens, a version that is supported, and a method it knows.       *)
TakeRequestLine ==
  /\ AtLineEnd /\ scan.phase = "request line"
  /\ IF BadRequestLine(ScannedLine)
     THEN Return(Throws("invalid_argument"))
     ELSE \E m \in ParseHttpMethod(MethodPart(ScannedLine), RequestVersion) :
            scan' = [scan EXCEPT !.phase = "headers", !.method = Some(m),
                                 !.path = PathPart(ScannedLine),
                                 !.position = NextLine, !.lineEnd = NextLine]

TakeHeaderLine ==
  /\ AtLineEnd /\ scan.phase = "headers" /\ scan.lineEnd # scan.position
  /\ IF BadHeaderLine(ScannedLine)
     THEN Return(Throws("invalid_argument"))
     ELSE scan' = [scan EXCEPT !.headers = AddHeaderLine(ScannedLine, @),
                               !.position = NextLine, !.lineEnd = NextLine]

TakeBlankLine ==
  /\ AtLineEnd /\ scan.phase = "headers" /\ scan.lineEnd = scan.position
  /\ scan' = [scan EXCEPT !.phase = "body", !.position = NextLine]

(* The comparison with the size of the buffer sees a sum that has wrapped; *)
(* the body is copied from position on.                                    *)
ReturnRequest(body, length) ==
  LET end == (scan.position + length) % SizeMod
      request == NewRequest(scan.method[1], scan.path, RequestVersion, body,
                            scan.headers)
  IN  IF Size < end THEN Return(Incomplete)
      ELSE IF length > MaxString THEN Return(Throws("length_error"))
      ELSE Return(Parsed(request, end))

TakeBody ==
  LET declared == HeaderGet(scan.headers, ContentLengthName)
      length == ContentLength(declared[1])
  IN  /\ scan.phase = "body"
      /\ IF declared = None THEN ReturnRequest(None, 0)
         ELSE IF BadContentLength(declared[1])
         THEN Return(Throws("invalid_argument"))
         ELSE ReturnRequest(BodyAt(buffer_, scan.position, length), length)

ScanStep ==
  \/ SkipOctet \/ RunOut
  \/ TakeRequestLine \/ TakeHeaderLine \/ TakeBlankLine \/ TakeBody

-----------------------------------------------------------------------------

(* The scan stays inside the buffer: it never reads an octet behind its    *)
(* end, not even that of a line that is cut between CR and LF.             *)
ScanInBounds ==
  /\ scan.phase \in Phases
  /\ scan.position \in 0..Size
  /\ scan.lineEnd \in 0..Size
  /\ InLines => scan.position <= scan.lineEnd

(* When the scan is over, its result is the verdict of Decode: the lines   *)
(* found one after the other are those Decode names at once, the first bad *)
(* one decides, and a body that is not there is not taken.                 *)
ScanAgrees == scan.phase = "done" => scan.result = Decode(buffer_)

=============================================================================

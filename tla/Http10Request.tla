--------------------------- MODULE Http10Request ---------------------------
(***************************************************************************)
(* The HTTP/1.0 codec of Http10Parser.cpp: what decodeHttp10Request makes  *)
(* of a buffer, and what BasicHttp10Request::encode writes.                *)
(*                                                                         *)
(* The code scans the buffer line by line; here the same lines are named   *)
(* by the positions of the CRLF pairs that end them, and the first line    *)
(* the code would stumble over decides the outcome.                        *)
(***************************************************************************)
EXTENDS HttpRequest, SequencesExt

CONSTANTS
  SizeMod,    \* 2^w: std::size_t arithmetic is modulo this
  MaxString   \* std::string::max_size()

ASSUME SizeAssumption ==
  /\ SizeMod \in Nat /\ MaxString \in Nat \ {0}
  /\ 2 * MaxString < SizeMod

-----------------------------------------------------------------------------
(* Lines.                                                                  *)

(* The positions at which a CRLF pair begins.  Pairs never overlap.  The   *)
(* variant takes a CR that ends the buffer for a line end.                 *)
EagerCRLFs(s) == {p \in DOMAIN s : /\ s[p] = CR
                                   /\ p < Len(s) => s[p + 1] = LF}
CRLFs(s) == {p \in 1..(Len(s) - 1) : s[p] = CR /\ s[p + 1] = LF}

(* A line that is empty and is not the first one ends the head.            *)
IsBlankLine(s, p) == p - 2 \in CRLFs(s)

(* The ends of the lines the decoder looks at: those up to and including   *)
(* the first blank line, or all of them while there is none.               *)
HeadEnds(s) ==
  {p \in CRLFs(s) : \A q \in CRLFs(s) : q < p => ~IsBlankLine(s, q)}

LineStart(s, p) == Max({1} \cup {q + 2 : q \in {r \in CRLFs(s) : r < p}})
LineAt(s, p) == SubSeq(s, LineStart(s, p), p - 1)
HeadLines(s) == [p \in HeadEnds(s) |-> LineAt(s, p)]

IsRequestLine(s, p) == \A q \in CRLFs(s) : p <= q
HeadComplete(s) == \E p \in HeadEnds(s) : IsBlankLine(s, p)

-----------------------------------------------------------------------------
(* What a line says.                                                       *)

RequestVersion == HTTP_1_0

(* method SP path SP version                                               *)
MethodPart(line) == SubSeq(line, 1, Min(Occurrences(SP, line)) - 1)
PathPart(line) == SubSeq(line, Min(Occurrences(SP, line)) + 1,
                               Max(Occurrences(SP, line)) - 1)
VersionPart(line) == SubSeq(line, Max(Occurrences(SP, line)) + 1, Len(line))

BadRequestLine(line) ==
  \/ Cardinality(Occurrences(SP, line)) # 2
  \/ VersionPart(line) # VersionToken(RequestVersion)
  \/ ParseHttpMethod(MethodPart(line), RequestVersion) = {}

BadHeaderLine(line) ==
  \/ Occurrences(COLON, line) = {}
  \/ Min(Occurrences(COLON, line)) = 1

AddHeaderLine(line, headers) ==
  LET colon == Min(Occurrences(COLON, line))
  IN  HeaderSet(headers, Trim(SubSeq(line, 1, colon - 1)),
                         TrimLeft(SubSeq(line, colon + 1, Len(line))))

(* Line by line, in stream order, between the request line and the blank   *)
(* line: a repeated name keeps the last value.                             *)
HeadersOf(lines) ==
  MapThenFoldSet(AddHeaderLine, EmptyHeaders, LAMBDA p : lines[p], Max,
                 DOMAIN lines \ {Min(DOMAIN lines), Max(DOMAIN lines)})

-----------------------------------------------------------------------------
(* The body.                                                               *)

ContentLengthName == <<"Content-Length">>

BadContentLength(value) ==
  \/ Trim(value) = <<>>
  \/ \E i \in DOMAIN Trim(value) : Trim(value)[i] \notin Digit

(* The digits are accumulated in a std::size_t, which wraps silently.      *)
ContentLength(value) ==
  FoldLeft(LAMBDA length, digit :
             (length * 10 + DigitValue(digit)) % SizeMod, 0, Trim(value))

-----------------------------------------------------------------------------
(* Outcomes of decodeHttp10Request: NULL, an exception, or a request and   *)
(* the number of octets it took.                                           *)

NoRequest == <<>>
Incomplete == [outcome |-> "incomplete", request |-> NoRequest, consumed |-> 0]
Throws(e) == [outcome |-> e, request |-> NoRequest, consumed |-> 0]
Parsed(request, consumed) ==
  [outcome |-> "request", request |-> request, consumed |-> consumed]

Exceptions == {"invalid_argument", "length_error"}

RequestOf(lines, body, headers) ==
  LET line == lines[Min(DOMAIN lines)]
      method == CHOOSE m \in HttpMethod :
                  m \in ParseHttpMethod(MethodPart(line), RequestVersion)
  IN  NewRequest(method, PathPart(line), RequestVersion, body, headers)

(* A body of length octets from position on; the variant drops a body that *)
(* is empty.                                                               *)
BodyUnlessEmpty(s, position, length) ==
  IF length = 0 THEN None ELSE Some(SubSeq(s, position + 1, position + length))
BodyAt(s, position, length) == Some(SubSeq(s, position + 1, position + length))

(* The head of lines takes position octets of s and names a body of        *)
(* length octets.  The sum wraps like the code's, and a body no            *)
(* std::string can hold makes the constructor of the body throw.           *)
DecodeBody(s, lines, headers, position, length) ==
  LET end == (position + length) % SizeMod
  IN  IF end \notin 0..Len(s) THEN Incomplete
      ELSE IF length \notin 0..MaxString THEN Throws("length_error")
      ELSE Parsed(RequestOf(lines, BodyAt(s, position, length), headers),
                  position + length)

(* lines is a complete head, whose blank line ends it.                     *)
DecodeHead(s, lines) ==
  LET headers == HeadersOf(lines)
      position == Max(DOMAIN lines) + 1
      declared == HeaderGet(headers, ContentLengthName)
  IN  IF declared = None
      THEN Parsed(RequestOf(lines, None, headers), position)
      ELSE IF BadContentLength(declared[1])
      THEN Throws("invalid_argument")
      ELSE DecodeBody(s, lines, headers, position, ContentLength(declared[1]))

Malformed(s, p) ==
  \/ IsRequestLine(s, p) /\ BadRequestLine(LineAt(s, p))
  \/ /\ ~IsRequestLine(s, p)
     /\ ~IsBlankLine(s, p)
     /\ BadHeaderLine(LineAt(s, p))

Decode(s) ==
  IF \E p \in HeadEnds(s) : Malformed(s, p) THEN Throws("invalid_argument")
  ELSE IF HeadComplete(s) THEN DecodeHead(s, HeadLines(s))
  ELSE Incomplete

-----------------------------------------------------------------------------
(* BasicHttp10Request, the request object itself.                          *)

(* decode, which wants the whole of s to be one request.                   *)
DecodeExactly(s) ==
  LET decoded == Decode(s)
  IN  IF \/ decoded.outcome = "incomplete"
         \/ decoded.outcome = "request" /\ decoded.consumed # Len(s)
      THEN Throws("runtime_error")
      ELSE decoded

EncodeHeader(h) == h.name \o <<COLON, SP>> \o h.value \o <<CR, LF>>

Encode(request) ==
  MethodToken(request.method) \o <<SP>> \o request.path \o <<SP>>
    \o VersionToken(request.version) \o <<CR, LF>>
    \o FlattenSeq([i \in DOMAIN request.headers |->
                     EncodeHeader(request.headers[i])])
    \o <<CR, LF>>
    \o (IF request.body = None THEN <<>> ELSE request.body[1])

=============================================================================

----------------------------- MODULE MCMessages -----------------------------
(***************************************************************************)
(* The messages from which the wires of the small instances are made.      *)
(***************************************************************************)
EXTENDS Octets

(* Words and their lower-case forms.                                       *)
MCOctet ==
  {CR, LF, SP, HT, COLON} \cup Digit \cup
  {"GET", "POST", "PUT", "BOGUS", "/", "HTTP/1.0", "HTTP/1.1",
   "Content-Length", "content-length", "Host", "host", "x", "y"}

MCLowerCase ==
  [o \in MCOctet |-> CASE o = "Content-Length" -> "content-length"
                       [] o = "Host" -> "host"
                       [] OTHER -> o]

Eol == <<CR, LF>>
Start(method, version) == <<method, SP, "/", SP, version>> \o Eol
Length(value) == <<"Content-Length", COLON>> \o value \o Eol

Get == Start("GET", "HTTP/1.0") \o Eol
Post == Start("POST", "HTTP/1.0")

(* Well-formed requests.                                                   *)
GetWithHeaders ==
  Start("GET", "HTTP/1.0") \o <<"Host", SP, COLON, HT, "x", SP>> \o Eol
    \o <<"host", COLON, "y", CR>> \o Eol \o Eol
EmptyPath == <<"GET", SP, SP, "HTTP/1.0">> \o Eol \o Eol
PostTwo == Post \o Length(<<SP, "0", "2", SP>>) \o Eol \o Eol
PostZero == Post \o Length(<<"0">>) \o Eol
PostNested == Post \o Length(<<"9">>) \o Eol \o Get
PostTwice == Post \o Length(<<"x">>) \o <<"content-length", COLON, "1">>
               \o Eol \o Eol \o <<CR>>
WellFormed ==
  {Get, GetWithHeaders, EmptyPath, PostTwo, PostZero, PostNested, PostTwice}

(* Requests that decodeHttp10Request refuses, one per check it makes.      *)
Broken ==
  {Eol,
   <<"GET", SP, "HTTP/1.0">> \o Eol,
   <<"GET", SP, "/", SP, "HTTP/1.0", SP>> \o Eol,
   Start("BOGUS", "HTTP/1.0"), Start("PUT", "HTTP/1.0"),
   Start("GET", "HTTP/1.1"),
   Start("GET", "HTTP/1.0") \o <<"Host", SP, "x">> \o Eol,
   Start("GET", "HTTP/1.0") \o <<COLON, "x">> \o Eol,
   Post \o Length(<<"x">>) \o Eol,
   Post \o Length(<<SP, HT>>) \o Eol}

(* The beginning of a request whose rest never comes.                      *)
CutShort ==
  {<<"GET", SP, "/", CR>>, Post \o Length(<<"2">>) \o Eol \o <<"x">>}

(* A Content-Length that only fits by wrapping around, one that wraps the  *)
(* end of the body around, and one no buffer can ever hold.                *)
PostWraps == Post \o Length(<<"1", "2", "8">>) \o Eol
PostOverruns == Post \o Length(<<"1", "2", "7">>) \o Eol
PostHuge == Post \o Length(<<"9", "0">>) \o Eol

(* A header line whose name is blank but not empty.                        *)
NamelessHeader ==
  Start("GET", "HTTP/1.0") \o <<SP, COLON, "x">> \o Eol \o Eol

=============================================================================

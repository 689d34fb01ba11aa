---------------------------- MODULE HttpRequest ----------------------------
(***************************************************************************)
(* The request value shared by parsers and serializers: methods, versions  *)
(* and the fields of a request.  A method or version token on the wire is  *)
(* one word, spelled exactly as the code spells it.                        *)
(***************************************************************************)
EXTENDS HeaderList

HTTP_1_0 == 0
HTTP_1_1 == 1
HTTP_2_0 == 2
HTTP_3_0 == 3
HttpVersion == HTTP_1_0..HTTP_3_0

VersionName == <<"HTTP/1.0", "HTTP/1.1", "HTTP/2.0", "HTTP/3.0">>

(* to_string: the token of a version.                                      *)
VersionToken(version) == <<VersionName[version + 1]>>

HttpMethod == {"GET", "POST", "PUT", "DELETE", "HEAD", "OPTIONS", "PATCH"}

(* The methods HTTP/1.0 already had; the others need HTTP/1.1 or later.    *)
Http10Method == {"GET", "POST", "HEAD"}

MethodToken(method) == <<method>>

(* The methods that a token denotes under a version: none when             *)
(* parseHttpMethod throws std::invalid_argument, otherwise exactly one.    *)
ParseHttpMethod(token, version) ==
  {m \in HttpMethod : /\ token = MethodToken(m)
                      /\ m \in Http10Method \/ version >= HTTP_1_1}

(* The three constructors of HttpRequest differ only in the fields they    *)
(* leave absent or empty.                                                  *)
NewRequest(method, path, version, body, headers) ==
  [method |-> method, path |-> path, version |-> version,
   body |-> body, headers |-> headers]

=============================================================================

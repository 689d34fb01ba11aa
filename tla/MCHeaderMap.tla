---------------------------- MODULE MCHeaderMap ----------------------------
(***************************************************************************)
(* Small instances of HeaderMap: four names, two of which collide in every *)
(* table, in tables of two, four and eight buckets.                        *)
(***************************************************************************)
EXTENDS HeaderMap

MCOctet == {CR, LF, SP, HT, COLON, "Host", "host", "date", "etag", "from"}
MCLowerCase == [o \in MCOctet |-> IF o = "Host" THEN "host" ELSE o]

MCName == {<<"Host">>, <<"host">>, <<"date">>, <<"etag">>, <<"from">>}
MCValue == {"x", "y"}
MCHash(name) == CASE name = <<"host">> -> 0 [] name = <<"date">> -> 8
                  [] name = <<"etag">> -> 4 [] name = <<"from">> -> 3

Header(name, value) == [name |-> <<name>>, value |-> value]
MCOthers == {<<>>, <<Header("etag", "x"), Header("host", "y"), Header("date", "x")>>}

=============================================================================

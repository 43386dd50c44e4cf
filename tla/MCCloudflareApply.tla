-------------------------- MODULE MCCloudflareApply --------------------------
(* Two owners: www is managed here, mail by somebody else. *)
EXTENDS CloudflareApply, TLC

WwwA     == <<"www", "A">>
WwwCname == <<"www", "CNAME">>
MailA    == <<"mail", "A">>

MCRRsets  == {WwwA, WwwCname, MailA}
MCForeign == {MailA}

Rec(id, k, content, ttl, comment) ==
  [id |-> id, key |-> k, content |-> content, ttl |-> ttl, comment |-> comment]

(* One zone with another writer's record, and one where the records at www *)
(* do not agree on their comment: none is inherited, so that a change of   *)
(* the TTL empties the first one's.                                        *)
MCZones ==
  {{Rec(1, WwwA, "x", 60, "c"), Rec(2, MailA, "x", 60, "none")},
   {Rec(1, WwwA, "x", 60, "c"), Rec(2, WwwA, "y", 60, "none")}}

Set(contents, ttl) == [contents |-> contents, ttl |-> ttl, comment |-> None,
                       padded |-> FALSE]
Remove == Set({}, 60)

(* A TTL, two values with a comment, another type, with spaces around it,  *)
(* and a conflict.                                                         *)
MCRequests ==
  {WwwA :> Set({"x"}, 300),
   WwwA :> [Set({"x", "y"}, 60) EXCEPT !.comment = "d"],
   WwwA :> Remove @@ WwwCname :> [Set({"y"}, 60) EXCEPT !.padded = TRUE],
   WwwCname :> Set({"x"}, 60)}
=============================================================================

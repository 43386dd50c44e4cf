---------------------------- MODULE MCReconcile ----------------------------
(* An instance of Reconcile for TLC: a forward zone f with three hosts, of *)
(* which PTRs may name two, a reverse zone r with two addresses, and an    *)
(* address a3 outside of it.                                               *)
EXTENDS Reconcile

Names == [z \in {"f", "r"} |->
            IF z = "f" THEN {"f", "h1", "h2", "h3"} ELSE {"r", "i1", "i2"}]

RR(name, type, ttl, value) ==
  [name |-> name, type |-> type, ttl |-> ttl, value |-> value]

Upsert(name, type, ttl, values) ==
  [action |-> "upsert", name |-> name, type |-> type, ttl |-> ttl,
   records |-> SetToBag(values)]

Drop(name, type) ==
  [action |-> "delete", name |-> name, type |-> type, ttl |-> 0,
   records |-> EmptyBag]

(* A plain zone, one with other name servers and an RRset of two TTLs, and *)
(* one without a name server.                                              *)
ZoneTexts == [z \in {"f", "r"} |->
  LET soa   == RR(z, "SOA", 1, "ns")
      plain == {soa, RR(z, "NS", 1, "ns")}
  IN  IF z = "f"
      THEN {plain, {soa},
            {RR(z, "SOA", 1, "ns2"), RR(z, "NS", 1, "ns2"),
             RR("h1", "A", 1, "a1"), RR("h1", "A", 2, "a2")}}
      ELSE {plain, plain \cup {RR("i2", "CNAME", 1, "x")}}]

Singles == [z \in {"f", "r"} |->
  IF z = "f"
  THEN {Upsert("h1", "A", 1, {"a1"}), Upsert("h1", "A", 1, {"a1", "a2"}),
        Upsert("h1", "A", 2, {"a1"}), Upsert("h2", "A", 1, {"a1"}),
        Upsert("h2", "A", 1, {"a2"}), Upsert("h1", "CNAME", 1, {"h2"}),
        Upsert("h2", "A", 1, {"a3"}), Drop("h1", "A"), Drop("f", "NS"),
        Upsert("h3", "A", 1, {"a1"})}
  ELSE {Upsert("i1", "PTR", 1, {"h1"}), Upsert("i1", "PTR", 1, {"h1", "h2"}),
        Upsert("i2", "PTR", 1, {"h2"}), Upsert("i1", "PTR", 1, {"h3"}),
        Drop("i2", "CNAME")}]

(* Those that a request of two may combine. *)
Halves == [z \in {"f", "r"} |->
  IF z = "f"
  THEN {Upsert("h1", "A", 1, {"a1"}), Upsert("h2", "A", 1, {"a2"}),
        Upsert("h1", "CNAME", 1, {"h2"}), Drop("h1", "A"), Drop("f", "NS")}
  ELSE {Upsert("i1", "PTR", 1, {"h1"}), Upsert("i2", "PTR", 1, {"h2"}),
        Drop("i2", "CNAME")}]

(* Besides, a list that names a record twice, an SOA and a foreign name.   *)
SomeRequests == [z \in {"f", "r"} |->
  {<<c>> : c \in Singles[z]}
  \cup {<<c, d>> : c, d \in Halves[z]}
  \cup {<<[Upsert("h2", "A", 1, {}) EXCEPT !.records = [v \in {"a1"} |-> 2]]>>,
        <<Upsert(z, "SOA", 1, {"ns"})>>, <<Upsert("elsewhere", "A", 1, {"a1"})>>}]

Addresses == [name \in {"i1", "i2"} |-> IF name = "i1" THEN "a1" ELSE "a2"]
=============================================================================

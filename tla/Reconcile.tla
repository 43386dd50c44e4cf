------------------------------ MODULE Reconcile ------------------------------
(***************************************************************************)
(* rill-reconcile (cmd/rill-reconcile): it compares the A records of the   *)
(* forward zones with the PTR records of a reverse zone and reports        *)
(* proposals and findings.  It changes nothing itself: the operations are  *)
(* those of Records, and a proposal is a change that an operator may send  *)
(* to the zone store.  Names and addresses are what parseZone, reverseIPv4 *)
(* and the lower-casing make of the files.                                 *)
(***************************************************************************)
EXTENDS Records

CONSTANTS
  Forward,    \* the forward zones
  ReverseZone,    \* the reverse zone
  Address,    \* Address[name]: the address that a reverse name stands for
  Subnet,     \* the addresses to reconcile
  Permitted   \* names that Policy.allowed lets a PTR point to

ASSUME ReconcileAssumption ==
  /\ Forward \subseteq Zones /\ ReverseZone \in Zones \ Forward
  /\ DOMAIN Address \subseteq Owners[ReverseZone]
  /\ IsFiniteSet(Subnet)

-----------------------------------------------------------------------------
(* The maps                                                                *)

Readable(zones) == \A z \in Forward \cup {ReverseZone} : zones[z] # None

(* forwardByIP, forwardIPs and ptrByIP *)
ForwardByIP(zones, ip) ==
  {r.name : r \in {r \in UNION {zones[z] : z \in Forward} :
                     r.type = "A" /\ r.value = ip}}

ForwardIPs(zones, name) == {ip \in Subnet : name \in ForwardByIP(zones, ip)}

PtrByIP(zones, ip) ==
  {r.value : r \in {r \in zones[ReverseZone] :
                      /\ r.type = "PTR" /\ r.name \in DOMAIN Address
                      /\ Address[r.name] = ip}}

Confirmed(zones, ip, ptr) == ip \in ForwardIPs(zones, ptr)

-----------------------------------------------------------------------------
(* The report                                                              *)

(* Faulty: the policy is not asked. *)
EligibleAll(names) == names

(* Policy.filter *)
Eligible(names) == names \cap Permitted

(* What an address without a PTR gets: a proposal when one name is         *)
(* eligible and that name has no other address, and a finding otherwise.   *)
MissingPtr(zones, ip) ==
  LET names    == ForwardByIP(zones, ip)
      eligible == Eligible(names)  IN
  IF eligible = {} THEN "missing_ptr_no_allowed_name"
  ELSE IF Cardinality(eligible) > 1 THEN "missing_ptr_ambiguous"
  ELSE IF \E name \in eligible : ForwardIPs(zones, name) # {ip}
    THEN "missing_ptr_shared_name"
  ELSE "upsert_ptr"

(* What a PTR of an address that has a name gets, if anything. *)
PtrKind(zones, ip, ptr) ==
  IF ptr \notin Permitted THEN "disallowed_ptr_target"
  ELSE IF Confirmed(zones, ip, ptr) THEN "aligned"
  ELSE IF ForwardIPs(zones, ptr) # {} THEN "ptr_a_mismatch"
  ELSE "ptr_without_a"

Named(zones) == {ip \in Subnet : ForwardByIP(zones, ip) # {}}

Proposals(zones) ==
  {[ip |-> ip, name |-> CHOOSE n \in Eligible(ForwardByIP(zones, ip)) : TRUE]
     : ip \in {ip \in Named(zones) : /\ PtrByIP(zones, ip) = {}
                                     /\ MissingPtr(zones, ip) = "upsert_ptr"}}

Aligned(zones) ==
  {ip \in Named(zones) : \E ptr \in PtrByIP(zones, ip) :
                            PtrKind(zones, ip, ptr) = "aligned"}

(* Faulty: further PTRs beside one that is aligned are not looked at. *)
FindingsUnlessAligned(zones, ip) ==
  LET names == ForwardByIP(zones, ip)
      ptrs  == PtrByIP(zones, ip)  IN
  IF ip \in Aligned(zones) THEN {}
  ELSE {PtrKind(zones, ip, ptr) : ptr \in ptrs}
       \cup (IF names # {} /\ ptrs = {} THEN {MissingPtr(zones, ip)} ELSE {})

(* The kinds of the findings about an address. *)
Findings(zones, ip) ==
  LET names == ForwardByIP(zones, ip)
      ptrs  == PtrByIP(zones, ip)
      found == IF names = {} /\ ptrs = {} THEN {}
               ELSE IF ptrs = {} THEN {MissingPtr(zones, ip)}
               ELSE IF names = {} THEN
                 {IF \E ptr \in ptrs : ForwardIPs(zones, ptr) # {}
                  THEN "ptr_a_mismatch" ELSE "ptr_without_forward_address"}
               ELSE {PtrKind(zones, ip, ptr) : ptr \in ptrs}
                      \cup (IF Cardinality(ptrs) > 1 THEN {"multiple_ptr"} ELSE {})
  IN  found \ {"upsert_ptr", "aligned"}

-----------------------------------------------------------------------------
(* Properties                                                              *)

ReverseName(ip) == CHOOSE name \in DOMAIN Address : Address[name] = ip

(* -reverse need not cover -subnet: the reverse name of a proposal may lie *)
(* in another zone.                                                        *)
Covered(ip) == \E name \in DOMAIN Address : Address[name] = ip

(* Another type stands at the reverse name, as with RFC 2317 delegations.  *)
Delegated(zones, ip) ==
  \E r \in zones[ReverseZone] : r.name = ReverseName(ip) /\ r.type = "CNAME"

(* The proposals that the reverse zone can take. *)
Acceptable(zones) ==
  {p \in Proposals(zones) : Covered(p.ip) /\ ~Delegated(zones, p.ip)}

(* The request that carries them out, with some TTL. *)
Accepting(zones) ==
  SetToSeq({[action |-> "upsert", name |-> ReverseName(p.ip), type |-> "PTR",
             ttl |-> 1, records |-> SetToBag({p.name})] : p \in Acceptable(zones)})

(* "Conservative, reviewable change proposals": the zone store accepts     *)
(* those whose reverse name lies in the reverse zone with no CNAME in its  *)
(* place, and rill-reconcile is then content with what it proposed: it     *)
(* counts the addresses as aligned, repeats the other proposals only and   *)
(* has nothing new to find (reconcile, Apply).                             *)
ProposalsSettle ==
  LET changes == Accepting(file)
      after   == [file EXCEPT ![ReverseZone] = BagToSet(Edited(@, changes))]
      ips     == {p.ip : p \in Acceptable(file)}  IN
  Readable(file) /\ ips # {} =>
    /\ Publishable(ReverseZone, file[ReverseZone], changes)
    /\ Proposals(after) = Proposals(file) \ Acceptable(file)
    /\ Aligned(after) = Aligned(file) \cup ips
    /\ \A ip \in Subnet : Findings(after, ip) = Findings(file, ip)

(* A report that says nothing of an address means that its forward and     *)
(* reverse records confirm each other: it has none at all, or exactly one  *)
(* PTR, to a permitted name that has the address; and of every other       *)
(* address it says something (the early continues of reconcile).           *)
SilenceIsConfirmed ==
  Readable(file) =>
    \A ip \in Subnet :
      LET ptrs == PtrByIP(file, ip)
      IN  (Findings(file, ip) = {} /\ \A p \in Proposals(file) : p.ip # ip)
            <=> \/ ForwardByIP(file, ip) = {} /\ ptrs = {}
                \/ \E name \in Permitted : /\ ptrs = {name}
                                           /\ name \in ForwardByIP(file, ip)
=============================================================================

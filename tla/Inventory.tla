----------------------------- MODULE Inventory -----------------------------
(***************************************************************************)
(* Organisations and what they keep beside their scans: members, the       *)
(* assets an agent has found with the edits users make to them, and the    *)
(* certificates of hosts.  src/orchestrator/api/handlers: orgs.go,         *)
(* assets.go, tls.go and orgctx.go, and their statements in db.go.  A      *)
(* request looks whether its user is a member of the organisation it       *)
(* names, and then works statement by statement.  A statement that fails   *)
(* with nothing done before it is as if the request had not been made.     *)
(***************************************************************************)
EXTENDS Integers, FiniteSets

CONSTANTS
  Org,        \* organisations
  User,
  Founder,    \* the user who has an organisation at the start
  Ip,         \* addresses of assets
  Edit,       \* what users write about assets
  MaxRows,    \* bound: asset rows ever inserted
  MaxErrors   \* bound: statements that fail

ASSUME InventoryAssumption ==
  /\ Org # {} /\ Founder \in User
  /\ "none" \notin Edit
  /\ MaxRows \in Nat /\ MaxErrors \in Nat

NoRow == [id |-> 0, edit |-> "blank"]

VARIABLES
  member,      \* pairs of an organisation and a user
  created,     \* the organisations there are
  asset,       \* the row of an organisation and an address
  rows,        \* the rows inserted so far, whose ids are 1..rows
  cert,        \* whether an organisation has a row for the host's certificate
  req,         \* the request of a user that is under way
  errors,      \* statements that have failed
  confirmed    \* the edits answered with "updated", by row; a history variable

inventoryVars == <<member, created, asset, rows, cert, req, errors, confirmed>>

NoReq == [pc |-> "idle"]

InventoryInit ==
  /\ created = {CHOOSE o \in Org : TRUE}
  /\ member = created \X {Founder}
  /\ asset = [p \in Org \X Ip |-> NoRow]
  /\ rows = 0
  /\ cert = [o \in Org |-> FALSE]
  /\ req = [u \in User |-> NoReq]
  /\ errors = 0
  /\ confirmed = [i \in 1..MaxRows |-> "none"]

Fails == errors < MaxErrors /\ errors' = errors + 1
Done(u) == req' = [req EXCEPT ![u] = NoReq]

---------------------------------------------------------------------------
(* Organisations                                                           *)

(* CreateOrg: the organisation, and in a second statement its first member.*)
CreateOrg(u) ==
  /\ req[u].pc = "idle"
  /\ \E o \in Org \ created :
       /\ created' = created \cup {o}
       /\ req' = [req EXCEPT ![u] = [pc |-> "found", org |-> o]]
  /\ UNCHANGED <<member, asset, rows, cert, errors, confirmed>>

CreateOrgMember(u) ==
  /\ req[u].pc = "found"
  /\ \/ member' = member \cup {<<req[u].org, u>>} /\ UNCHANGED errors
     \/ Fails /\ UNCHANGED member
  /\ Done(u)
  /\ UNCHANGED <<created, asset, rows, cert, confirmed>>

(* Mutant: it is enough that the organisation exists.                      *)
IsOrgMemberExists(u, o) == o \in created

IsOrgMember(u, o) == <<o, u>> \in member

(* requireOrg, resolveOrg and AddMember: an organisation the header or the *)
(* path names, of which the user must be a member.                         *)
OrgRequest(o) ==
  [pc : {"import"}, org : {o}, ips : SUBSET Ip \ {{}}]
    \cup [pc : {"update"}, org : {o}, id : 1..rows, edit : Edit]
    \cup [pc : {"clear", "probe", "delete"}, org : {o}]
    \cup [pc : {"add"}, org : {o}, user : User]

Promised == {p \in User \X Ip : req[p[1]].pc = "import" /\ p[2] \in req[p[1]].ips}

RequireOrg(u) ==
  /\ req[u].pc = "idle"
  /\ \E o \in Org : \E r \in OrgRequest(o) :
       /\ IsOrgMember(u, o)
       /\ r.pc = "import" => rows + Cardinality(Promised) + Cardinality(r.ips) <= MaxRows
       /\ req' = [req EXCEPT ![u] = r]
  /\ UNCHANGED <<member, created, asset, rows, cert, errors, confirmed>>

AddOrgMemberByEmail(u) ==
  /\ req[u].pc = "add"
  /\ member' = member \cup {<<req[u].org, req[u].user>>}
  /\ Done(u)
  /\ UNCHANGED <<created, asset, rows, cert, errors, confirmed>>

---------------------------------------------------------------------------
(* Assets                                                                  *)

(* The row an upsert leaves: a new one, or the old one with its edits.     *)
UpsertedForgets(row) == [id |-> IF row = NoRow THEN rows + 1 ELSE row.id, edit |-> "blank"]    \* mutant

Upserted(row) == IF row = NoRow THEN [id |-> rows + 1, edit |-> "blank"] ELSE row

(* Import stores host after host.                                          *)
UpsertAsset(u) ==
  /\ req[u].pc = "import"
  /\ \E ip \in req[u].ips :
       LET p == <<req[u].org, ip>> IN
       /\ asset[p] = NoRow => rows < MaxRows
       /\ rows' = IF asset[p] = NoRow THEN rows + 1 ELSE rows
       /\ asset' = [asset EXCEPT ![p] = Upserted(@)]
       /\ IF req[u].ips = {ip} THEN Done(u) ELSE req' = [req EXCEPT ![u].ips = @ \ {ip}]
  /\ UNCHANGED <<member, created, cert, errors, confirmed>>

(* One that fails ends the import; the hosts before it stay.               *)
UpsertAssetFails(u) ==
  /\ req[u].pc = "import"
  /\ Fails
  /\ Done(u)
  /\ UNCHANGED <<member, created, asset, rows, cert, confirmed>>

(* Nobody looks whether there was a row to update: "updated" in any case.  *)
UpdateAssetCMDB(u) ==
  /\ req[u].pc = "update"
  /\ asset' = [p \in Org \X Ip |->
       IF asset[p].id = req[u].id /\ p[1] = req[u].org
       THEN [asset[p] EXCEPT !.edit = req[u].edit] ELSE asset[p]]
  /\ confirmed' = IF asset' = asset THEN confirmed
                  ELSE [confirmed EXCEPT ![req[u].id] = req[u].edit]
  /\ Done(u)
  /\ UNCHANGED <<member, created, rows, cert, errors>>

ClearAssets(u) ==
  /\ req[u].pc = "clear"
  /\ asset' = [p \in Org \X Ip |-> IF p[1] = req[u].org THEN NoRow ELSE asset[p]]
  /\ Done(u)
  /\ UNCHANGED <<member, created, rows, cert, errors, confirmed>>

---------------------------------------------------------------------------
(* Certificates                                                            *)

(* Check: what the host presents.  The row of a host that does not answer, *)
(* or whose certificate names no host, has no names, and the column that   *)
(* keeps them admits no NULL: nothing is stored.                           *)
ProbeTLS(u) ==
  /\ req[u].pc = "probe"
  /\ \E c \in BOOLEAN : req' = [req EXCEPT ![u] = [pc |-> "save", org |-> req[u].org, read |-> c]]
  /\ UNCHANGED <<member, created, asset, rows, cert, errors, confirmed>>

UpsertCertificate(u) ==
  /\ req[u].pc = "save"
  /\ cert' = IF req[u].read THEN [cert EXCEPT ![req[u].org] = TRUE] ELSE cert
  /\ Done(u)
  /\ UNCHANGED <<member, created, asset, rows, errors, confirmed>>

DeleteCertificate(u) ==
  /\ req[u].pc = "delete"
  /\ cert' = [cert EXCEPT ![req[u].org] = FALSE]
  /\ Done(u)
  /\ UNCHANGED <<member, created, asset, rows, errors, confirmed>>

---------------------------------------------------------------------------

InventoryNext ==
  \E u \in User :
       \/ CreateOrg(u) \/ CreateOrgMember(u) \/ RequireOrg(u) \/ AddOrgMemberByEmail(u)
       \/ UpsertAsset(u) \/ UpsertAssetFails(u) \/ UpdateAssetCMDB(u) \/ ClearAssets(u)
       \/ ProbeTLS(u) \/ UpsertCertificate(u) \/ DeleteCertificate(u)

InventorySpec == InventoryInit /\ [][InventoryNext]_inventoryVars

---------------------------------------------------------------------------
(* Properties                                                              *)

(* "preserving any existing CMDB edits on re-import", db.go:688: the edit  *)
(* that was last confirmed of an asset is on it for as long as it exists,  *)
(* whatever imports of whatever users run meanwhile; and an asset nobody   *)
(* has edited has none, one that was cleared and found again included.     *)
EditsSurvive ==
  \A p \in Org \X Ip :
    LET row == asset[p] IN
    row # NoRow => row.edit = IF confirmed[row.id] = "none" THEN "blank" ELSE confirmed[row.id]

Kept(o) == <<cert[o], [ip \in Ip |-> asset[<<o, ip>>]], {u \in User : <<o, u>> \in member}>>

(* What an organisation keeps only changes by a request of its members, and*)
(* one whose creation failed half-way (db.go:598) has no member for ever   *)
(* and never keeps anything: nobody can join it.                           *)
OrgSealed ==
  [][\A o \in created :
       Kept(o)' # Kept(o) =>
         \E u \in User : /\ req[u].pc # "idle" /\ req[u].org = o
                         /\ <<o, u>> \in member \/ req[u].pc = "found"]_inventoryVars
=============================================================================

-------------------------- MODULE Inventory_proofs --------------------------
(***************************************************************************)
(* EditsSurvive and OrgSealed for any organisations, users, addresses and  *)
(* edits.  The first rests on ids: a row has an id of its own, which is    *)
(* never given again, and what was confirmed is kept by id.  The second    *)
(* rests on memberships, which end for nobody: whoever was let in when a   *)
(* request began is still a member at its last statement.                  *)
(***************************************************************************)
EXTENDS Inventory, TLAPS

Place == Org \X Ip
Row == [id : 0..MaxRows, edit : Edit \cup {"blank"}]

RowShapes ==
  /\ rows \in 0..MaxRows
  /\ asset \in [Place -> Row]
  /\ confirmed \in [1..MaxRows -> Edit \cup {"none"}]

(* Ids are those given so far, one row has each, and no row has id 0.      *)
OwnId ==
  /\ \A p \in Place : asset[p].id <= rows /\ (asset[p].id = 0 => asset[p] = NoRow)
  /\ \A p, q \in Place : asset[p].id = asset[q].id => p = q \/ asset[p].id = 0

Unconfirmed == \A i \in 1..MaxRows : i > rows => confirmed[i] = "none"

EditsInv == RowShapes /\ OwnId /\ Unconfirmed /\ EditsSurvive

Import == [pc : {"import"}, org : Org, ips : SUBSET Ip]

(* What a request still uses.                                              *)
ReqShapes ==
  /\ DOMAIN req = User
  /\ \A u \in User : req[u].pc = "import" => req[u] \in Import
  /\ \A u \in User : req[u].pc = "update" => req[u].id \in 1..rows /\ req[u].edit \in Edit

Admitted == \A u \in User : req[u].pc \notin {"idle", "found"} => <<req[u].org, u>> \in member

Orgs == created \subseteq Org /\ DOMAIN cert = Org

InventoryInv == EditsInv /\ ReqShapes /\ Admitted /\ Orgs

---------------------------------------------------------------------------
(* At the start there are no rows and no requests.                         *)
LEMMA InventoryInvInit ==
  ASSUME InventoryInit
  PROVE  InventoryInv
  <1>1. RowShapes
    <2>1. NoRow \in Row /\ 0 \in 0..MaxRows
      BY InventoryAssumption DEF InventoryAssumption, NoRow, Row
    <2>2. asset \in [Place -> Row]
      BY <2>1 DEF InventoryInit, Place
    <2> QED
      BY <2>1, <2>2 DEF InventoryInit, RowShapes
  <1>2. OwnId /\ Unconfirmed
    <2>1. NoRow.id = 0
      BY DEF NoRow
    <2>2. (\A p \in Place : asset[p] = NoRow) /\ rows = 0
      BY DEF InventoryInit, Place
    <2>3. OwnId
      BY <2>1, <2>2 DEF OwnId
    <2> QED
      BY <2>3 DEF InventoryInit, Unconfirmed
  <1>3. EditsSurvive
    BY DEF InventoryInit, EditsSurvive
  <1>4. ReqShapes /\ Admitted
    BY DEF InventoryInit, ReqShapes, Admitted, NoReq
  <1>5. Orgs
    BY InventoryAssumption DEF InventoryAssumption, InventoryInit, Orgs
  <1> QED
    BY <1>1, <1>3, <1>4, <1>2, <1>5 DEF InventoryInv, EditsInv

(* Only three actions touch the rows of assets.                            *)
LEMMA EditsFrame ==
  ASSUME EditsInv, UNCHANGED <<asset, rows, confirmed>>
  PROVE  EditsInv'
  BY DEF EditsInv, RowShapes, OwnId, Unconfirmed, EditsSurvive

(* An import leaves rows that are there and inserts others unedited.       *)
LEMMA ImportKeepsEdits ==
  ASSUME EditsInv, ReqShapes, NEW u \in User, UpsertAsset(u)
  PROVE  EditsInv'
  <1>1. req[u] \in Import
    BY DEF ReqShapes, UpsertAsset
  <1>2. PICK ip \in req[u].ips :
          LET p == <<req[u].org, ip>> IN
          /\ asset[p] = NoRow => rows < MaxRows
          /\ rows' = IF asset[p] = NoRow THEN rows + 1 ELSE rows
          /\ asset' = [asset EXCEPT ![p] = Upserted(asset[p])]
    BY DEF UpsertAsset
  <1> DEFINE p == <<req[u].org, ip>>
  <1>3. p \in Place
    BY <1>1, <1>2 DEF Import, Place
  <1>4. RowShapes /\ OwnId /\ Unconfirmed /\ EditsSurvive /\ confirmed' = confirmed
    BY DEF EditsInv, UpsertAsset
  <1>5. rows \in Nat /\ MaxRows \in Nat /\ rows <= MaxRows
    BY <1>4, InventoryAssumption DEF RowShapes, InventoryAssumption
  <1> HIDE DEF p
  <1>6. CASE asset[p] # NoRow
    <2>1. asset' = asset /\ rows' = rows
      BY <1>2, <1>3, <1>4, <1>6 DEF p, Upserted, RowShapes
    <2> QED
      BY <1>4, <2>1, EditsFrame
  <1>7. CASE asset[p] = NoRow
    <2> DEFINE new == [id |-> rows + 1, edit |-> "blank"]
    <2>1. rows < MaxRows /\ rows' = rows + 1 /\ asset' = [asset EXCEPT ![p] = new]
      BY <1>2, <1>7 DEF p, Upserted
    <2>2. rows + 1 \in 1..MaxRows /\ rows + 1 \in 0..MaxRows
      BY <1>5, <2>1
    <2>3. new \in Row /\ new.id = rows + 1 /\ new.edit = "blank" /\ new # NoRow
      BY <1>5, <2>2 DEF Row, NoRow
    <2> HIDE DEF new
    <2>4. \A q \in Place : asset'[q] = IF q = p THEN new ELSE asset[q]
      BY <1>4, <2>1 DEF RowShapes
    <2>5. RowShapes'
      <3>1. asset' \in [Place -> Row]
        BY <1>3, <1>4, <2>1, <2>3 DEF RowShapes
      <3> QED
        BY <1>4, <2>1, <2>2, <3>1 DEF RowShapes
    <2>6. \A q \in Place : asset[q].id \in Nat /\ asset[q].id <= rows
      BY <1>4 DEF RowShapes, Row, OwnId
    <2>7. OwnId'
      <3>1. \A q \in Place : asset'[q].id <= rows' /\ (asset'[q].id = 0 => asset'[q] = NoRow)
        BY <1>4, <1>5, <2>1, <2>3, <2>4, <2>6 DEF OwnId
      <3>2. \A q, x \in Place : asset'[q].id = asset'[x].id => q = x \/ asset'[q].id = 0
        BY <1>4, <1>5, <2>3, <2>4, <2>6 DEF OwnId
      <3> QED
        BY <3>1, <3>2 DEF OwnId
    <2>8. Unconfirmed'
      BY <1>4, <1>5, <2>1 DEF Unconfirmed
    <2>9. EditsSurvive'
      <3>1. confirmed[rows + 1] = "none"
        BY <1>4, <1>5, <2>2 DEF Unconfirmed
      <3> QED
        BY <1>4, <2>3, <2>4, <3>1 DEF EditsSurvive, Place
    <2> QED
      BY <2>5, <2>7, <2>8, <2>9 DEF EditsInv
  <1> QED
    BY <1>6, <1>7

(* An edit reaches at most the one row with its id.                        *)
LEMMA UpdateKeepsEdits ==
  ASSUME EditsInv, ReqShapes, NEW u \in User, UpdateAssetCMDB(u)
  PROVE  EditsInv'
  <1> DEFINE i == req[u].id  e == req[u].edit
             hit(p) == asset[p].id = i /\ p[1] = req[u].org
  <1>1. /\ RowShapes /\ OwnId /\ Unconfirmed /\ EditsSurvive
        /\ i \in 1..rows /\ e \in Edit /\ rows' = rows
    BY DEF EditsInv, ReqShapes, UpdateAssetCMDB
  <1>2. /\ asset' = [p \in Place |-> IF hit(p) THEN [asset[p] EXCEPT !.edit = e] ELSE asset[p]]
        /\ confirmed' = IF asset' = asset THEN confirmed ELSE [confirmed EXCEPT ![i] = e]
    BY DEF UpdateAssetCMDB, Place
  <1>3. /\ rows \in Nat /\ MaxRows \in Nat /\ rows <= MaxRows /\ i \in 1..MaxRows
        /\ i # 0
    BY <1>1, InventoryAssumption DEF RowShapes, InventoryAssumption
  <1>4. e # "none"
    BY <1>1, InventoryAssumption DEF InventoryAssumption
  <1> HIDE DEF i, e
  <1>5. CASE asset' = asset
    <2>1. confirmed' = confirmed
      BY <1>2, <1>5
    <2> QED
      BY <1>1, <1>5, <2>1, EditsFrame
  <1>6. CASE asset' # asset
    <2>1. confirmed' = [confirmed EXCEPT ![i] = e]
      BY <1>2, <1>6
    <2>2. PICK h \in Place : hit(h)
      <3>1. asset = [p \in Place |-> asset[p]]
        BY <1>1 DEF RowShapes
      <3>2. (\A p \in Place : ~hit(p)) => asset' = asset
        BY <1>2, <3>1
      <3> QED
        BY <1>6, <3>2
    <2>3. asset[h].id = i
      BY <2>2
    <2>4. \A p \in Place : hit(p) <=> p = h
      BY <1>1, <1>3, <2>2 DEF OwnId
    <2>5. \A p \in Place : asset[p] \in Row
      BY <1>1 DEF RowShapes
    <2>6. \A p \in Place : asset'[p] = IF p = h THEN [asset[p] EXCEPT !.edit = e] ELSE asset[p]
      BY <1>2, <2>4
    <2>7. /\ asset'[h] \in Row /\ asset'[h].id = i /\ asset'[h].edit = e
          /\ \A p \in Place \ {h} : asset'[p] = asset[p]
      BY <1>1, <2>3, <2>5, <2>6 DEF Row
    <2>8. \A j \in 1..MaxRows : confirmed'[j] = IF j = i THEN e ELSE confirmed[j]
      BY <1>1, <1>3, <2>1 DEF RowShapes
    <2>9. RowShapes'
      <3>1. asset' = [p \in Place |-> asset'[p]]
        BY <1>2
      <3>2. asset' \in [Place -> Row]
        BY <2>5, <2>7, <3>1
      <3>3. confirmed' \in [1..MaxRows -> Edit \cup {"none"}]
        BY <1>1, <1>3, <2>1 DEF RowShapes
      <3> QED
        BY <1>1, <3>2, <3>3 DEF RowShapes
    <2>10. OwnId'
      <3>1. \A p \in Place : asset'[p].id = asset[p].id
        BY <2>3, <2>7
      <3>2. \A p \in Place : asset'[p].id = 0 => asset'[p] = NoRow
        BY <1>1, <1>3, <2>7 DEF OwnId
      <3> QED
        BY <1>1, <3>1, <3>2 DEF OwnId
    <2>11. Unconfirmed'
      BY <1>1, <1>3, <2>8 DEF Unconfirmed
    <2>12. EditsSurvive'
      <3> SUFFICES ASSUME NEW p \in Place, asset'[p] # NoRow
                   PROVE  asset'[p].edit = IF confirmed'[asset'[p].id] = "none" THEN "blank"
                                           ELSE confirmed'[asset'[p].id]
        BY DEF EditsSurvive, Place
      <3>1. CASE p = h
        BY <1>3, <1>4, <2>7, <2>8, <3>1
      <3>2. CASE p # h
        <4>1. asset'[p] = asset[p] /\ asset[p].id # i
          BY <1>1, <1>3, <2>3, <2>7, <3>2 DEF OwnId
        <4>2. asset[p].id # 0
          BY <1>1, <4>1 DEF OwnId
        <4>3. asset[p].id \in 1..MaxRows
          BY <1>3, <2>5, <4>2 DEF Row
        <4> QED
          BY <1>1, <2>8, <4>1, <4>3 DEF EditsSurvive, Place
      <3> QED
        BY <3>1, <3>2
    <2> QED
      BY <2>9, <2>10, <2>11, <2>12 DEF EditsInv
  <1> QED
    BY <1>5, <1>6

(* What is cleared has no row; the others keep theirs.                     *)
LEMMA ClearKeepsEdits ==
  ASSUME EditsInv, NEW u \in User, ClearAssets(u)
  PROVE  EditsInv'
  <1>1. /\ RowShapes /\ OwnId /\ Unconfirmed /\ EditsSurvive
        /\ UNCHANGED <<rows, confirmed>>
        /\ asset' = [p \in Place |-> IF p[1] = req[u].org THEN NoRow ELSE asset[p]]
    BY DEF EditsInv, ClearAssets, Place
  <1>2. \A p \in Place : asset'[p] = asset[p] \/ asset'[p] = NoRow
    BY <1>1
  <1>3. NoRow \in Row /\ NoRow.id = 0
    BY InventoryAssumption DEF InventoryAssumption, NoRow, Row
  <1>4. RowShapes'
    BY <1>1, <1>3 DEF RowShapes
  <1>5. OwnId'
    BY <1>1, <1>2, <1>3 DEF OwnId, RowShapes
  <1>6. Unconfirmed' /\ EditsSurvive'
    BY <1>1, <1>2 DEF Unconfirmed, EditsSurvive, Place
  <1> QED
    BY <1>4, <1>5, <1>6 DEF EditsInv

---------------------------------------------------------------------------
(* A member is let in, and the fields of a request fit its kind.           *)
LEMMA RequestEnters ==
  ASSUME InventoryInv, NEW u \in User, RequireOrg(u)
  PROVE  ReqShapes' /\ Admitted'
  <1>1. ReqShapes /\ Admitted
    BY DEF InventoryInv
  <1>2. PICK o \in Org : \E r \in OrgRequest(o) :
          <<o, u>> \in member /\ req' = [req EXCEPT ![u] = r]
    BY DEF RequireOrg, IsOrgMember
  <1>3. PICK r \in OrgRequest(o) : <<o, u>> \in member /\ req' = [req EXCEPT ![u] = r]
    BY <1>2
  <1>4. UNCHANGED <<member, rows>>
    BY DEF RequireOrg
  <1>5. /\ r.org = o
        /\ r.pc = "import" => r \in Import
        /\ r.pc = "update" => r.id \in 1..rows /\ r.edit \in Edit
    BY DEF OrgRequest, Import
  <1>6. DOMAIN req' = User /\ \A v \in User : req'[v] = IF v = u THEN r ELSE req[v]
    BY <1>1, <1>3 DEF ReqShapes
  <1> QED
    BY <1>1, <1>3, <1>4, <1>5, <1>6 DEF ReqShapes, Admitted

(* A request that ends, and one that goes on, for the same organisation    *)
(* and with what it had.                                                   *)
LEMMA RequestGoesOn ==
  ASSUME InventoryInv, NEW u \in User,
         DOMAIN req' = User, \A v \in User \ {u} : req'[v] = req[v],
         member \subseteq member', rows' \in Nat, rows <= rows',
         \/ req'[u].pc \in {"idle", "found"}
         \/ req'[u].pc = "import" /\ req'[u] \in Import /\ req'[u].org = req[u].org
              /\ req[u].pc = "import"
         \/ req'[u].pc = "save" /\ req'[u].org = req[u].org /\ req[u].pc = "probe"
  PROVE  ReqShapes' /\ Admitted'
  <1>1. ReqShapes /\ Admitted /\ rows \in Nat
    BY InventoryAssumption DEF InventoryInv, EditsInv, RowShapes, InventoryAssumption
  <1>2. 1..rows \subseteq 1..rows'
    BY <1>1
  <1>3. ReqShapes'
    BY <1>1, <1>2 DEF ReqShapes
  <1>4. Admitted'
    BY <1>1 DEF Admitted
  <1> QED
    BY <1>3, <1>4

(* A request that has been answered.                                       *)
LEMMA RequestEnds ==
  ASSUME InventoryInv, NEW u \in User, Done(u), member \subseteq member', rows' = rows
  PROVE  ReqShapes' /\ Admitted'
  <1>1. ReqShapes /\ rows \in Nat
    BY InventoryAssumption DEF InventoryInv, EditsInv, RowShapes, InventoryAssumption
  <1>2. /\ DOMAIN req' = User /\ req'[u].pc = "idle"
        /\ \A v \in User \ {u} : req'[v] = req[v]
    BY <1>1 DEF ReqShapes, Done, NoReq
  <1> QED
    BY <1>1, <1>2, RequestGoesOn

(* What a step of a request does: the rows keep their edits, the requests  *)
(* their shape, and only the request's own organisation is touched.        *)
LEMMA InventoryStep ==
  ASSUME InventoryInv, NEW u \in User,
         \/ CreateOrg(u) \/ CreateOrgMember(u) \/ RequireOrg(u) \/ AddOrgMemberByEmail(u)
         \/ UpsertAsset(u) \/ UpsertAssetFails(u) \/ UpdateAssetCMDB(u) \/ ClearAssets(u)
         \/ ProbeTLS(u) \/ UpsertCertificate(u) \/ DeleteCertificate(u)
  PROVE  InventoryInv'
  <1>1. EditsInv /\ ReqShapes /\ Admitted /\ rows \in Nat /\ RowShapes
    BY InventoryAssumption DEF InventoryInv, EditsInv, RowShapes, InventoryAssumption
  <1>2. Orgs'
    BY DEF InventoryInv, Orgs, CreateOrg, CreateOrgMember, RequireOrg, AddOrgMemberByEmail,
           UpsertAsset, UpsertAssetFails, UpdateAssetCMDB, ClearAssets, ProbeTLS,
           UpsertCertificate, DeleteCertificate
  <1>3. CASE CreateOrg(u)
    <2>1. PICK o \in Org : req' = [req EXCEPT ![u] = [pc |-> "found", org |-> o]]
      BY <1>3 DEF CreateOrg
    <2>2. /\ DOMAIN req' = User /\ req'[u].pc = "found"
          /\ \A v \in User \ {u} : req'[v] = req[v]
      BY <1>1, <2>1 DEF ReqShapes
    <2>3. UNCHANGED <<member, rows, asset, confirmed>>
      BY <1>3 DEF CreateOrg
    <2>4. ReqShapes' /\ Admitted'
      BY <1>1, <2>2, <2>3, RequestGoesOn
    <2> QED
      BY <1>1, <1>2, <2>3, <2>4, EditsFrame DEF InventoryInv
  <1>4. CASE CreateOrgMember(u) \/ AddOrgMemberByEmail(u)
    <2>1. Done(u) /\ member \subseteq member' /\ UNCHANGED <<rows, asset, confirmed>>
      BY <1>4 DEF CreateOrgMember, AddOrgMemberByEmail
    <2> QED
      BY <1>1, <1>2, <2>1, RequestEnds, EditsFrame DEF InventoryInv
  <1>5. CASE RequireOrg(u)
    <2>1. UNCHANGED <<rows, asset, confirmed>>
      BY <1>5 DEF RequireOrg
    <2> QED
      BY <1>1, <1>5, <1>2, <2>1, RequestEnters, EditsFrame DEF InventoryInv
  <1>6. CASE UpsertAsset(u)
    <2>1. req[u] \in Import /\ req[u].pc = "import"
      BY <1>1, <1>6 DEF ReqShapes, UpsertAsset
    <2>2. PICK ip \in req[u].ips :
            \/ req' = [req EXCEPT ![u] = NoReq]
            \/ req' = [req EXCEPT ![u].ips = req[u].ips \ {ip}]
      BY <1>6 DEF UpsertAsset, Done
    <2>3. DOMAIN req' = User /\ \A v \in User \ {u} : req'[v] = req[v]
      BY <1>1, <2>2 DEF ReqShapes
    <2>4. rows' \in Nat /\ rows <= rows' /\ member' = member
      BY <1>1, <1>6 DEF UpsertAsset
    <2>5. \/ req'[u].pc = "idle"
          \/ req'[u] = [req[u] EXCEPT !.ips = req[u].ips \ {ip}]
      BY <1>1, <2>2 DEF ReqShapes, NoReq
    <2>6. \/ req'[u].pc = "idle"
          \/ req'[u].pc = "import" /\ req'[u] \in Import /\ req'[u].org = req[u].org
      BY <2>1, <2>5 DEF Import
    <2>7. ReqShapes' /\ Admitted'
      BY <2>1, <2>3, <2>4, <2>6, RequestGoesOn
    <2> QED
      BY <1>1, <1>6, <1>2, <2>7, ImportKeepsEdits DEF InventoryInv
  <1>7. CASE UpdateAssetCMDB(u)
    <2>1. Done(u) /\ UNCHANGED <<member, rows>>
      BY <1>7 DEF UpdateAssetCMDB
    <2> QED
      BY <1>1, <1>7, <1>2, <2>1, RequestEnds, UpdateKeepsEdits DEF InventoryInv
  <1>8. CASE ClearAssets(u)
    <2>1. Done(u) /\ UNCHANGED <<member, rows>>
      BY <1>8 DEF ClearAssets
    <2> QED
      BY <1>1, <1>8, <1>2, <2>1, RequestEnds, ClearKeepsEdits DEF InventoryInv
  <1>9. CASE UpsertAssetFails(u) \/ UpsertCertificate(u) \/ DeleteCertificate(u)
    <2>1. Done(u) /\ UNCHANGED <<member, rows, asset, confirmed>>
      BY <1>9 DEF UpsertAssetFails, UpsertCertificate, DeleteCertificate
    <2> QED
      BY <1>1, <1>2, <2>1, RequestEnds, EditsFrame DEF InventoryInv
  <1>10. CASE ProbeTLS(u)
    <2>1. PICK c \in BOOLEAN :
            req' = [req EXCEPT ![u] = [pc |-> "save", org |-> req[u].org, read |-> c]]
      BY <1>10 DEF ProbeTLS
    <2>2. /\ DOMAIN req' = User /\ req'[u].pc = "save" /\ req'[u].org = req[u].org
          /\ \A v \in User \ {u} : req'[v] = req[v]
      BY <1>1, <2>1 DEF ReqShapes
    <2>3. UNCHANGED <<member, rows, asset, confirmed>> /\ req[u].pc = "probe"
      BY <1>10 DEF ProbeTLS
    <2>4. ReqShapes' /\ Admitted'
      BY <1>1, <2>2, <2>3, RequestGoesOn
    <2> QED
      BY <1>1, <1>2, <2>3, <2>4, EditsFrame DEF InventoryInv
  <1> QED
    BY <1>3, <1>4, <1>5, <1>6, <1>7, <1>8, <1>9, <1>10

(* The invariant holds of every reachable state.                           *)
LEMMA InventoryInvHolds == InventorySpec => []InventoryInv
  <1>1. InventoryInv /\ [InventoryNext]_inventoryVars => InventoryInv'
    <2> SUFFICES ASSUME InventoryInv, [InventoryNext]_inventoryVars
                 PROVE  InventoryInv'
      OBVIOUS
    <2>1. CASE InventoryNext
      BY <2>1, InventoryStep DEF InventoryNext
    <2>2. CASE UNCHANGED inventoryVars
      BY <2>2 DEF inventoryVars, InventoryInv, EditsInv, RowShapes, OwnId, Unconfirmed,
                  EditsSurvive, ReqShapes, Admitted, Orgs
    <2> QED
      BY <2>1, <2>2
  <1> QED
    BY InventoryInvInit, <1>1, PTL DEF InventorySpec

(* The edit that was last confirmed of an asset is on it for as long as it *)
(* exists: "preserving any existing CMDB edits on re-import", db.go:688,   *)
(* for any number of organisations, users, imports and edits.              *)
THEOREM EditsAlwaysSurvive == InventorySpec => []EditsSurvive
  <1>1. InventoryInv => EditsSurvive
    BY DEF InventoryInv, EditsInv
  <1> QED
    BY InventoryInvHolds, <1>1, PTL

(* What an organisation keeps changes only by a request of its members (or *)
(* of who has just created it), whatever requests of others are under way: *)
(* requireOrg, orgctx.go, and the statements of assets.go, tls.go, orgs.go.*)
THEOREM OrgStaysSealed == InventorySpec => OrgSealed
  <1> DEFINE Allowed(o) == \E u \in User : /\ req[u].pc # "idle" /\ req[u].org = o
                                           /\ <<o, u>> \in member \/ req[u].pc = "found"
             Seal == \A o \in created : Kept(o)' # Kept(o) => Allowed(o)
  <1>1. ASSUME InventoryInv, [InventoryNext]_inventoryVars
        PROVE  [Seal]_inventoryVars
    <2>1. CASE UNCHANGED inventoryVars
      BY <2>1
    <2>2. ASSUME NEW u \in User, NEW o \in created, Kept(o)' # Kept(o),
                 \/ CreateOrg(u) \/ CreateOrgMember(u) \/ RequireOrg(u) \/ AddOrgMemberByEmail(u)
                 \/ UpsertAsset(u) \/ UpsertAssetFails(u) \/ UpdateAssetCMDB(u) \/ ClearAssets(u)
                 \/ ProbeTLS(u) \/ UpsertCertificate(u) \/ DeleteCertificate(u)
          PROVE  Allowed(o)
      <3>1. ~(UNCHANGED <<asset, cert, member>>)
        BY <2>2 DEF Kept
      <3>2. /\ CreateOrgMember(u) \/ AddOrgMemberByEmail(u) \/ UpsertAsset(u)
               \/ UpdateAssetCMDB(u) \/ ClearAssets(u) \/ UpsertCertificate(u)
               \/ DeleteCertificate(u)
        BY <2>2, <3>1 DEF CreateOrg, RequireOrg, UpsertAssetFails, ProbeTLS
      <3>3. req[u].pc # "idle" /\ (req[u].pc = "found" \/ <<req[u].org, u>> \in member)
        BY <1>1, <3>2 DEF InventoryInv, Admitted, CreateOrgMember, AddOrgMemberByEmail,
             UpsertAsset, UpdateAssetCMDB, ClearAssets, UpsertCertificate, DeleteCertificate
      <3>4. ASSUME req[u].org # o
            PROVE  FALSE
        <4>1. asset \in [Place -> Row] /\ DOMAIN cert = Org /\ o \in Org
          BY <1>1, <2>2 DEF InventoryInv, EditsInv, RowShapes, Orgs
        <4>2. \A ip \in Ip : asset'[<<o, ip>>] = asset[<<o, ip>>]
          <5> SUFFICES ASSUME NEW ip \in Ip
                       PROVE  asset'[<<o, ip>>] = asset[<<o, ip>>]
            OBVIOUS
          <5>1. <<o, ip>> \in Place /\ <<o, ip>>[1] = o
            BY <4>1 DEF Place
          <5>2. CASE UpsertAsset(u)
            BY <3>4, <4>1, <5>1, <5>2 DEF UpsertAsset
          <5>3. CASE UpdateAssetCMDB(u) \/ ClearAssets(u)
            BY <3>4, <4>1, <5>1, <5>3 DEF UpdateAssetCMDB, ClearAssets, Place
          <5>4. CASE UNCHANGED asset
            BY <5>4
          <5> QED
            BY <3>2, <5>2, <5>3, <5>4
               DEF CreateOrgMember, AddOrgMemberByEmail, UpsertCertificate, DeleteCertificate
        <4>3. cert'[o] = cert[o]
          BY <3>2, <3>4, <4>1
             DEF CreateOrgMember, AddOrgMemberByEmail, UpsertAsset, UpdateAssetCMDB, ClearAssets,
                 UpsertCertificate, DeleteCertificate
        <4>4. \A v \in User : <<o, v>> \in member' <=> <<o, v>> \in member
          BY <3>2, <3>4
             DEF CreateOrgMember, AddOrgMemberByEmail, UpsertAsset, UpdateAssetCMDB, ClearAssets,
                 UpsertCertificate, DeleteCertificate
        <4> QED
          BY <2>2, <4>2, <4>3, <4>4 DEF Kept
      <3> QED
        BY <3>3, <3>4
    <2> QED
      BY <1>1, <2>1, <2>2 DEF InventoryNext
  <1> QED
    BY InventoryInvHolds, <1>1, PTL DEF InventorySpec, OrgSealed
=============================================================================

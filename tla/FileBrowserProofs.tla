------------------------- MODULE FileBrowserProofs -------------------------
(***************************************************************************)
(* Theorems about FileBrowser, for any finite set of names, any directory  *)
(* to begin with, and any number of commands and requests.                 *)
(***************************************************************************)
EXTENDS FileBrowser, FiniteSetTheorems, TLAPS

-----------------------------------------------------------------------------
(* The inductive invariant, in parts *)

\* A request either ends in a new list, or is that of one entry.
Reloading == {"list", "file", "createdir", "notebook"}
OfEntry == {"rename", "delete", "listdir", "createin"}

Request == [at : {"sent", "answered"}, asks : Reloading \cup OfEntry, id : Nat,
            from : Name \cup {NoName}, to : Name \cup {NoName}, seen : Nat,
            got : SUBSET Item, inside : SUBSET Child, old : BOOLEAN]

RequestType(r, next) ==
  /\ r \in Request /\ IsFiniteSet(r.got)
  /\ r.asks \in OfEntry => r.from \in Name /\ r.id \in 1..next - 1
  /\ r.asks \in Reloading => r.id = 0
  /\ r.asks = "rename" => r.to \in Name

DiskInv ==
  /\ disk \in [Name -> {"none", "file", "directory"}]
  /\ inside \in [Name -> SUBSET Child]
  /\ \A n \in Name : inside[n] # {} => disk[n] = "directory"

ItemsInv ==
  /\ nextId \in Nat \ {0}
  /\ items = [id \in DOMAIN items |-> items[id]]
  /\ \A id \in DOMAIN items : id \in 1..nextId - 1 /\ items[id] \in Item

OpsInv ==
  /\ begun \in 1..MaxOps /\ reloadCount \in Nat
  /\ ops = [o \in UnderWay |-> ops[o]] /\ UnderWay \subseteq 1..begun
  /\ \A o \in UnderWay : RequestType(ops[o], nextId)

\* An answer that is not old says what the directory holds.
Listing == {Listed(n) : n \in Existing}

CurrentInv ==
  \A o \in UnderWay : ops[o].at = "answered" /\ ~ops[o].old =>
    /\ ops[o].asks = "list" => ops[o].got = Listing
    /\ ops[o].asks = "listdir" => ops[o].inside = inside[ops[o].from]

BaseInv == DiskInv /\ ItemsInv /\ OpsInv /\ CurrentInv

\* The names on the disk of the entries: an entry learns its own from the
\* answer to its renaming.
Names ==
  [id \in DOMAIN items |->
     IF \E o \in UnderWay : /\ ops[o].at = "answered" /\ ops[o].id = id
                            /\ ops[o].asks = "rename"
       THEN CHOOSE n \in Name :
              \E o \in UnderWay : /\ ops[o].at = "answered" /\ ops[o].id = id
                                  /\ ops[o].asks = "rename" /\ ops[o].to = n
       ELSE items[id].name]

\* The entries that stand for something on the disk: not those that were
\* deleted, whether they know it or not.
Live == {id \in DOMAIN items :
           /\ Shown(id)
           /\ \A o \in UnderWay : ~(/\ ops[o].at = "answered" /\ ops[o].id = id
                                    /\ ops[o].asks = "delete")}

\* The directories whose content is on its way.
Waiting == {id \in DOMAIN items : \E o \in UnderWay :
              ops[o].id = id /\ ops[o].asks \in {"listdir", "createin"}}

\* The list is that of the directory, but for what is under way.
Faithful ==
  /\ \A id \in Live : disk[Names[id]] = items[id].kind
  /\ \A n \in Existing : \E id \in Live : Names[id] = n
  /\ \A i, j \in Live : Names[i] = Names[j] => i = j
  /\ \A id \in Live : items[id].fetched /\ id \notin Waiting =>
       items[id].content = inside[Names[id]]

\* Every request was made by an entry that is there, by its name, and an entry
\* that is renamed or deleted has only that request.
Orderly ==
  /\ \A o \in UnderWay : /\ ops[o].id \in DOMAIN items /\ Shown(ops[o].id)
                         /\ ops[o].from = items[ops[o].id].name
  /\ \A o, p \in UnderWay :
       ops[o].id = ops[p].id /\ ops[o].asks \in {"rename", "delete"} => o = p

\* A new list is still to come, or an answer nobody will take, which is a slip.
ToReload == \E o \in UnderWay : ops[o].asks \in Reloading
Doomed == \E o \in UnderWay : /\ ops[o].asks \in OfEntry
                              /\ ops[o].id \notin DOMAIN items

ListInv == slips = {} => ToReload \/ Doomed \/ (Orderly /\ Faithful)

IInv == BaseInv /\ ListInv

-----------------------------------------------------------------------------
(* Requests *)

\* A request as it is sent.
LEMMA RequestedType ==
  ASSUME NEW asks \in Reloading \cup OfEntry, NEW id \in Nat,
         NEW from \in Name \cup {NoName}, NEW to \in Name \cup {NoName},
         NEW seen \in Nat, NEW next \in Nat,
         asks \in OfEntry => from \in Name /\ id \in 1..next - 1,
         asks \in Reloading => id = 0, asks = "rename" => to \in Name
  PROVE  LET r == Requested(asks, id, from, to, seen)
         IN /\ RequestType(r, next)
            /\ r.at = "sent" /\ r.asks = asks /\ r.id = id /\ r.from = from
            /\ r.to = to
<1>1. IsFiniteSet({})
  BY FS_EmptySet
<1> QED
  BY <1>1 DEF RequestType, Requested, Request

\* Types do not depend on how many ids were drawn since.
LEMMA RequestTypeLater ==
  ASSUME NEW r, NEW next \in Nat, NEW later \in Nat, later >= next,
         RequestType(r, next)
  PROVE  RequestType(r, later)
BY DEF RequestType

\* The requests after another one was sent on top of those in os.
LEMMA SentOps ==
  ASSUME begun \in 1..MaxOps, NEW os, os = [o \in DOMAIN os |-> os[o]],
         DOMAIN os \subseteq 1..begun, NEW r, Send(os, r)
  PROVE  /\ begun + 1 \notin DOMAIN os /\ begun' = begun + 1
         /\ begun' \in 1..MaxOps
         /\ UnderWay' = DOMAIN os \cup {begun + 1} /\ UnderWay' \subseteq 1..begun'
         /\ ops'[begun + 1] = r /\ \A o \in DOMAIN os : ops'[o] = os[o]
         /\ ops' = [o \in UnderWay' |-> ops'[o]]
<1>1. begun + 1 \notin DOMAIN os /\ begun' = begun + 1 /\ begun' \in 1..MaxOps
  BY BrowserAssumption DEF Send
<1>2. ops' = [o \in DOMAIN os \cup {begun + 1} |->
                IF o = begun + 1 THEN r ELSE os[o]]
  BY DEF Send
<1>3. DOMAIN ops' = DOMAIN os \cup {begun + 1}
  BY <1>2
<1>4. UnderWay' \subseteq 1..begun'
  BY <1>1, <1>3 DEF UnderWay
<1>5. ops' = [o \in UnderWay' |-> ops'[o]]
  BY <1>2, <1>3 DEF UnderWay
<1> QED
  BY <1>1, <1>2, <1>3, <1>4, <1>5 DEF UnderWay

\* The requests without one that has ended.
LEMMA EndedOps ==
  ASSUME OpsInv, NEW o \in UnderWay
  PROVE  /\ DOMAIN Ended(o) = UnderWay \ {o}
         /\ \A p \in UnderWay \ {o} : Ended(o)[p] = ops[p]
         /\ Ended(o) = [p \in DOMAIN Ended(o) |-> Ended(o)[p]]
         /\ DOMAIN Ended(o) \subseteq 1..begun
BY DEF Ended, OpsInv

\* A step that leaves the disk alone, and the requests but for some that end
\* and one that is sent, keeps what is known of them.
LEMMA OpsStep ==
  ASSUME BaseInv, UNCHANGED diskVars, nextId' \in Nat, nextId' >= nextId,
         begun' \in 1..MaxOps, reloadCount' \in Nat,
         ops' = [o \in UnderWay' |-> ops'[o]], UnderWay' \subseteq 1..begun',
         \A o \in UnderWay' :
           \/ o \in UnderWay /\ ops'[o] = ops[o]
           \/ ops'[o].at = "sent" /\ RequestType(ops'[o], nextId')
  PROVE  DiskInv' /\ OpsInv' /\ CurrentInv'
<1>1. /\ Listing' = Listing /\ inside' = inside /\ disk' = disk
      /\ nextId \in Nat
  BY DEF diskVars, Listing, Listed, Existing, BaseInv, ItemsInv
<1>2. DiskInv'
  BY <1>1 DEF DiskInv, BaseInv
<1>3. \A o \in UnderWay' : RequestType(ops'[o], nextId')
  BY <1>1, RequestTypeLater DEF BaseInv, OpsInv
<1>4. OpsInv'
  BY <1>3 DEF OpsInv
<1>5. CurrentInv'
  BY <1>1 DEF BaseInv, CurrentInv
<1> QED
  BY <1>2, <1>4, <1>5

\* The cases of it: nothing sent, one request ended, one sent, one replaced by
\* another.
LEMMA OpsSame ==
  ASSUME BaseInv, UNCHANGED <<diskVars, ops, begun, reloadCount>>,
         nextId' \in Nat, nextId' >= nextId
  PROVE  DiskInv' /\ OpsInv' /\ CurrentInv'
<1>1. UnderWay' = UnderWay
  BY DEF UnderWay
<1> QED
  BY <1>1, OpsStep DEF BaseInv, OpsInv

LEMMA OpsEnd ==
  ASSUME BaseInv, UNCHANGED <<diskVars, begun>>, reloadCount' \in Nat,
         nextId' \in Nat, nextId' >= nextId, NEW o \in UnderWay,
         ops' = Ended(o)
  PROVE  DiskInv' /\ OpsInv' /\ CurrentInv'
<1>1. OpsInv
  BY DEF BaseInv
<1>2. UnderWay' = DOMAIN Ended(o)
  BY DEF UnderWay
<1> QED
  BY <1>1, <1>2, EndedOps, OpsStep DEF OpsInv

LEMMA OpsSend ==
  ASSUME BaseInv, UNCHANGED <<diskVars, nextId>>, reloadCount' \in Nat,
         NEW r, RequestType(r, nextId), r.at = "sent", Send(ops, r)
  PROVE  DiskInv' /\ OpsInv' /\ CurrentInv'
<1>1. /\ begun \in 1..MaxOps /\ ops = [o \in DOMAIN ops |-> ops[o]]
      /\ DOMAIN ops \subseteq 1..begun /\ UnderWay = DOMAIN ops
      /\ nextId \in Nat
  BY DEF BaseInv, OpsInv, ItemsInv, UnderWay
<1>2. /\ begun + 1 \notin DOMAIN ops /\ begun' = begun + 1
      /\ begun' \in 1..MaxOps
      /\ UnderWay' = DOMAIN ops \cup {begun + 1} /\ UnderWay' \subseteq 1..begun'
      /\ ops'[begun + 1] = r /\ \A o \in DOMAIN ops : ops'[o] = ops[o]
      /\ ops' = [o \in UnderWay' |-> ops'[o]]
  BY <1>1, SentOps
<1> QED
  BY <1>1, <1>2, OpsStep

LEMMA OpsReplace ==
  ASSUME BaseInv, UNCHANGED <<diskVars, nextId>>, reloadCount' \in Nat,
         NEW o \in UnderWay, NEW r, RequestType(r, nextId), r.at = "sent",
         Send(Ended(o), r)
  PROVE  DiskInv' /\ OpsInv' /\ CurrentInv'
<1>1. begun \in 1..MaxOps /\ nextId \in Nat /\ OpsInv
  BY DEF BaseInv, OpsInv, ItemsInv
<1>2. /\ DOMAIN Ended(o) = UnderWay \ {o}
      /\ \A p \in UnderWay \ {o} : Ended(o)[p] = ops[p]
      /\ Ended(o) = [p \in DOMAIN Ended(o) |-> Ended(o)[p]]
      /\ DOMAIN Ended(o) \subseteq 1..begun
  BY <1>1, EndedOps
<1>3. /\ begun' = begun + 1 /\ begun' \in 1..MaxOps
      /\ UnderWay' = DOMAIN Ended(o) \cup {begun + 1}
      /\ UnderWay' \subseteq 1..begun' /\ ops'[begun + 1] = r
      /\ \A p \in DOMAIN Ended(o) : ops'[p] = Ended(o)[p]
      /\ ops' = [p \in UnderWay' |-> ops'[p]]
  BY <1>1, <1>2, SentOps
<1> QED
  BY <1>1, <1>2, <1>3, OpsStep

-----------------------------------------------------------------------------
(* The server *)

LEMMA ListingFinite ==
  ASSUME DiskInv
  PROVE  IsFiniteSet(Listing) /\ Listing \subseteq Item
<1> DEFINE listed == [n \in Existing |-> Listed(n)]
<1>1. IsFiniteSet(Existing)
  BY BrowserAssumption, FS_Subset DEF Existing
<1>2. listed \in Surjection(Existing, Listing)
  <2>1. listed \in [Existing -> Listing]
    BY DEF Listing
  <2>2. \A m \in Listing : \E n \in Existing : listed[n] = m
    BY DEF Listing
  <2> QED
    BY <2>1, <2>2 DEF Surjection
<1>3. Listing \subseteq Item
  <2>1. ASSUME NEW n \in Existing
        PROVE  Listed(n) \in Item
    <3>1. n \in Name /\ disk[n] \in {"file", "directory"}
      BY DEF Existing, DiskInv
    <3> QED
      BY <3>1 DEF Listed, Item
  <2> QED
    BY <2>1 DEF Listing
<1> QED
  BY <1>1, <1>2, <1>3, FS_Surjection

\* A request that another one's answer made old, or not.
Kept(p, b) ==
  /\ ops'[p] = [ops[p] EXCEPT !.old = b]
  /\ ops'[p].asks = ops[p].asks /\ ops'[p].id = ops[p].id
  /\ ops'[p].from = ops[p].from /\ ops'[p].to = ops[p].to
  /\ ops'[p].at = ops[p].at /\ ops'[p].got = ops[p].got
  /\ ops'[p].inside = ops[p].inside /\ ops'[p].old = b
  /\ ops[p].at = "answered" /\ ~b => ~ops[p].old /\ UNCHANGED diskVars

\* The requests after the server answered o.
LEMMA ServedOps ==
  ASSUME OpsInv, NEW o \in UnderWay, NEW got, NEW in, Served(o, got, in)
  PROVE  /\ UnderWay' = UnderWay /\ ops' = [p \in UnderWay' |-> ops'[p]]
         /\ ops'[o] = [ops[o] EXCEPT !.at = "answered", !.got = got,
                                     !.inside = in]
         /\ ops'[o].at = "answered" /\ ops'[o].got = got /\ ops'[o].inside = in
         /\ \A p \in UnderWay :
              /\ ops'[p].asks = ops[p].asks /\ ops'[p].id = ops[p].id
              /\ ops'[p].from = ops[p].from /\ ops'[p].to = ops[p].to
         /\ \A p \in UnderWay \ {o} : \E b \in BOOLEAN : Kept(p, b)
<1>1. \A p \in UnderWay : ops[p] \in Request
  BY DEF OpsInv, RequestType
<1>2. UnderWay' = UnderWay /\ ops' = [p \in UnderWay' |-> ops'[p]]
  BY DEF Served, UnderWay
<1>3. ops'[o] = [ops[o] EXCEPT !.at = "answered", !.got = got, !.inside = in]
  BY DEF Served, UnderWay
<1>4. /\ ops'[o].at = "answered" /\ ops'[o].got = got /\ ops'[o].inside = in
      /\ ops'[o].asks = ops[o].asks /\ ops'[o].id = ops[o].id
      /\ ops'[o].from = ops[o].from /\ ops'[o].to = ops[o].to
  BY <1>1, <1>3 DEF Request
<1>5. ASSUME NEW p \in UnderWay \ {o}
      PROVE  \E b \in BOOLEAN : Kept(p, b)
  <2> DEFINE b == ops[p].old \/ (ops[p].at = "answered"
                                 /\ <<disk, inside>>' # <<disk, inside>>)
  <2>1. ops'[p] = [ops[p] EXCEPT !.old = b]
    BY DEF Served, UnderWay
  <2>2. b \in BOOLEAN
    BY <1>1 DEF Request
  <2>3. ops[p].at = "answered" /\ ~b => ~ops[p].old /\ UNCHANGED diskVars
    BY DEF diskVars
  <2> HIDE DEF b
  <2>4. ops[p] \in Request
    BY <1>1
  <2>5. /\ ops'[p].asks = ops[p].asks /\ ops'[p].id = ops[p].id
        /\ ops'[p].from = ops[p].from /\ ops'[p].to = ops[p].to
        /\ ops'[p].at = ops[p].at /\ ops'[p].got = ops[p].got
        /\ ops'[p].inside = ops[p].inside /\ ops'[p].old = b
    BY <2>1, <2>4 DEF Request
  <2>6. Kept(p, b)
    BY <2>1, <2>3, <2>5 DEF Kept
  <2> QED
    BY <2>2, <2>6
<1>6. \A p \in UnderWay :
        /\ ops'[p].asks = ops[p].asks /\ ops'[p].id = ops[p].id
        /\ ops'[p].from = ops[p].from /\ ops'[p].to = ops[p].to
  BY <1>4, <1>5 DEF Kept
<1> QED
  BY <1>2, <1>3, <1>4, <1>5, <1>6

\* What the server answers is what the directory holds now.
LEMMA ServedBase ==
  ASSUME BaseInv, DiskInv', NEW o \in UnderWay, ops[o].at = "sent",
         NEW got \in SUBSET Item, IsFiniteSet(got), NEW in \in SUBSET Child,
         ops[o].asks = "list" => got = Listing',
         ops[o].asks = "listdir" => in = inside'[ops[o].from],
         Served(o, got, in), UNCHANGED <<items, nextId, reloadCount, begun>>
  PROVE  BaseInv'
<1>1. OpsInv
  BY DEF BaseInv
<1>2. /\ UnderWay' = UnderWay /\ ops' = [p \in UnderWay' |-> ops'[p]]
      /\ ops'[o] = [ops[o] EXCEPT !.at = "answered", !.got = got, !.inside = in]
      /\ ops'[o].at = "answered" /\ ops'[o].got = got /\ ops'[o].inside = in
      /\ \A p \in UnderWay :
           /\ ops'[p].asks = ops[p].asks /\ ops'[p].id = ops[p].id
           /\ ops'[p].from = ops[p].from /\ ops'[p].to = ops[p].to
      /\ \A p \in UnderWay \ {o} : \E b \in BOOLEAN : Kept(p, b)
  BY <1>1, ServedOps
<1>3. \A p \in UnderWay : RequestType(ops[p], nextId)
  BY <1>1 DEF OpsInv
<1>4. RequestType(ops'[o], nextId)
  <2>1. ops'[o] \in Request
    BY <1>2, <1>3 DEF RequestType, Request
  <2> QED
    BY <1>2, <1>3, <2>1 DEF RequestType
<1>5. \A p \in UnderWay \ {o} : RequestType(ops'[p], nextId)
  <2> SUFFICES ASSUME NEW p \in UnderWay \ {o}
               PROVE  RequestType(ops'[p], nextId)
    OBVIOUS
  <2>1. PICK b \in BOOLEAN : ops'[p] = [ops[p] EXCEPT !.old = b]
    BY <1>2 DEF Kept
  <2> QED
    BY <1>3, <2>1 DEF RequestType, Request
<1>6. OpsInv'
  <2>1. \A p \in UnderWay' : RequestType(ops'[p], nextId')
    BY <1>2, <1>4, <1>5
  <2> QED
    BY <1>1, <1>2, <2>1 DEF OpsInv
<1>7. CurrentInv'
  <2>1. ASSUME UNCHANGED diskVars
        PROVE  Listing' = Listing /\ inside' = inside
    BY <2>1 DEF diskVars, Listing, Listed, Existing
  <2>2. CurrentInv
    BY DEF BaseInv
  <2> SUFFICES ASSUME NEW p \in UnderWay, (ops[p].at = "answered")',
                      (~ops[p].old)'
               PROVE  (/\ ops[p].asks = "list" => ops[p].got = Listing
                       /\ ops[p].asks = "listdir" =>
                            ops[p].inside = inside[ops[p].from])'
    BY <1>2 DEF CurrentInv
  <2>3. CASE p = o
    BY <1>2, <2>3
  <2>4. CASE p # o
    <3>1. PICK b \in BOOLEAN : Kept(p, b)
      BY <1>2, <2>4
    <3> QED
      BY <2>1, <2>2, <3>1 DEF CurrentInv, Kept
  <2> QED
    BY <2>3, <2>4
<1>8. ItemsInv'
  BY DEF BaseInv, ItemsInv
<1> QED
  BY <1>6, <1>7, <1>8 DEF BaseInv

LEMMA ServerBase ==
  ASSUME BaseInv, ServerStep
  PROVE  BaseInv'
<1>1. /\ DiskInv /\ OpsInv
      /\ UNCHANGED <<items, nextId, reloadCount, begun>>
  BY DEF BaseInv, ServerStep
<1>2. \A o \in UnderWay :
        /\ ops[o].asks \in OfEntry => ops[o].from \in Name
        /\ ops[o].asks = "rename" => ops[o].to \in Name
  BY <1>1 DEF OpsInv, RequestType
<1>3. PICK o \in UnderWay :
        \/ ServerLists(o) \/ ServerListsDirectory(o)
        \/ \E n \in Name : ServerCreates(o, n)
        \/ \E c \in Child : ServerCreatesIn(o, c)
        \/ ServerRenames(o) \/ ServerDeletes(o)
  BY DEF ServerStep
<1>4. ops[o].at = "sent"
  BY <1>3 DEF ServerLists, ServerListsDirectory, ServerCreates,
              ServerCreatesIn, ServerRenames, ServerDeletes
\* What the other steps answer does not matter.
<1>5. ASSUME DiskInv', ops[o].asks \notin {"list", "listdir"}, Served(o, {}, {})
      PROVE  BaseInv'
  <2>1. IsFiniteSet({})
    BY FS_EmptySet
  <2> QED
    BY <1>1, <1>4, <1>5, <2>1, ServedBase
<1>6. CASE ServerLists(o)
  <2>1. disk' = disk /\ inside' = inside /\ Served(o, Listing, {})
    BY <1>6 DEF ServerLists, diskVars, Listing
  <2>2. Listing' = Listing /\ DiskInv'
    BY <1>1, <2>1 DEF Listing, Existing, Listed, DiskInv
  <2>3. IsFiniteSet(Listing) /\ Listing \in SUBSET Item
    BY <1>1, ListingFinite
  <2>4. ops[o].asks = "list"
    BY <1>6 DEF ServerLists
  <2> QED
    BY <1>1, <1>4, <2>1, <2>2, <2>3, <2>4, ServedBase
<1>7. CASE ServerListsDirectory(o)
  <2>1. /\ disk' = disk /\ inside' = inside /\ ops[o].asks = "listdir"
        /\ Served(o, {}, inside[ops[o].from])
    BY <1>7 DEF ServerListsDirectory, diskVars
  <2>2. DiskInv'
    BY <1>1, <2>1 DEF DiskInv
  <2>3. inside[ops[o].from] \in SUBSET Child
    BY <1>1, <1>2, <2>1 DEF DiskInv, OfEntry
  <2>4. IsFiniteSet({})
    BY FS_EmptySet
  <2> QED
    BY <1>1, <1>4, <2>1, <2>2, <2>3, <2>4, ServedBase
<1>8. ASSUME NEW n \in Name, ServerCreates(o, n)
      PROVE  BaseInv'
  <2>1. /\ ops[o].asks \notin {"list", "listdir"} /\ inside' = inside
        /\ disk[n] = "none" /\ Served(o, {}, {})
        /\ \E k \in {"file", "directory"} : disk' = [disk EXCEPT ![n] = k]
    BY <1>8 DEF ServerCreates
  <2>2. DiskInv'
    BY <1>1, <2>1 DEF DiskInv
  <2> QED
    BY <1>5, <2>1, <2>2
<1>9. ASSUME NEW c \in Child, ServerCreatesIn(o, c)
      PROVE  BaseInv'
  <2>1. ops[o].asks = "createin" /\ Served(o, {}, {}) /\ disk' = disk
    BY <1>9 DEF ServerCreatesIn
  <2>2. \/ inside' = inside
        \/ /\ disk[ops[o].from] = "directory"
           /\ inside' = [inside EXCEPT ![ops[o].from] = @ \cup {c}]
    BY <1>9 DEF ServerCreatesIn
  <2>3. ops[o].from \in Name
    BY <1>2, <2>1 DEF OfEntry
  <2>4. DiskInv'
    BY <1>1, <2>1, <2>2, <2>3 DEF DiskInv
  <2> QED
    BY <1>5, <2>1, <2>4
<1>10. CASE ServerRenames(o)
  <2> DEFINE from == ops[o].from
             to   == ops[o].to
  <2>1. ops[o].asks = "rename" /\ Served(o, {}, {})
    BY <1>10 DEF ServerRenames
  <2>2. from \in Name /\ to \in Name
    BY <1>2, <2>1 DEF OfEntry
  <2>3. \/ disk' = disk /\ inside' = inside
        \/ /\ CanRename(from, to)
           /\ disk' = [disk EXCEPT ![to] = disk[from], ![from] = "none"]
           /\ inside' = [inside EXCEPT ![to] = inside[from], ![from] = {}]
    BY <1>10 DEF ServerRenames, diskVars
  <2> HIDE DEF from, to
  <2>4. DiskInv'
    BY <1>1, <2>2, <2>3 DEF DiskInv, CanRename
  <2> QED
    BY <1>5, <2>1, <2>4
<1>11. CASE ServerDeletes(o)
  <2>1. ops[o].asks = "delete" /\ Served(o, {}, {}) /\ inside' = inside
    BY <1>11 DEF ServerDeletes
  <2>2. \/ disk' = disk
        \/ /\ inside[ops[o].from] = {}
           /\ disk' = [disk EXCEPT ![ops[o].from] = "none"]
    BY <1>11 DEF ServerDeletes
  <2>3. DiskInv'
    BY <1>1, <2>1, <2>2 DEF DiskInv
  <2> QED
    BY <1>5, <2>1, <2>3
<1> QED
  BY <1>3, <1>6, <1>7, <1>8, <1>9, <1>10, <1>11

-----------------------------------------------------------------------------
(* The answers *)

\* The new list shows each answer once, under ids not drawn before.
LEMMA NewList ==
  ASSUME BaseInv, NEW o \in UnderWay, ListAnswered(o)
  PROVE  /\ Cardinality(ops[o].got) \in Nat
         /\ nextId' = nextId + Cardinality(ops[o].got)
         /\ items' \in Bijection(nextId..nextId' - 1, ops[o].got)
<1> DEFINE got == ops[o].got
           n   == Cardinality(got)
           ids == nextId..nextId + n - 1
           All(l) == \A m \in got : \E id \in DOMAIN l : l[id] = m
<1>1. IsFiniteSet(got) /\ nextId \in Nat
  BY DEF BaseInv, OpsInv, ItemsInv, RequestType
<1>2. n \in Nat /\ \E f : f \in Bijection(1..n, got)
  BY <1>1, FS_CardinalityType DEF ExistsBijection
<1>3. /\ items' = CHOOSE l \in [ids -> got] : All(l)
      /\ nextId' = nextId + n
  BY DEF ListAnswered
<1> HIDE DEF n, got
<1>4. \E l \in [ids -> got] : All(l)
  <2>1. PICK f : f \in Bijection(1..n, got)
    BY <1>2
  <2>2. f \in [1..n -> got] /\ \A m \in got : \E i \in 1..n : f[i] = m
    BY <2>1 DEF Bijection, Surjection
  <2> DEFINE l == [id \in ids |-> f[id - nextId + 1]]
  <2>3. \A id \in ids : id - nextId + 1 \in 1..n
    BY <1>1, <1>2
  <2>4. l \in [ids -> got]
    BY <2>2, <2>3
  <2>5. ASSUME NEW m \in got
        PROVE  \E id \in DOMAIN l : l[id] = m
    <3>1. PICK i \in 1..n : f[i] = m
      BY <2>2
    <3>2. nextId + i - 1 \in ids /\ (nextId + i - 1) - nextId + 1 = i
      BY <1>1, <1>2
    <3> QED
      BY <3>1, <3>2
  <2> QED
    BY <2>4, <2>5
<1>5. items' \in [ids -> got] /\ All(items')
  BY <1>3, <1>4
<1>6. items' \in Surjection(ids, got)
  BY <1>5 DEF Surjection
<1>7. IsFiniteSet(ids) /\ Cardinality(ids) = n
  <2> DEFINE last == nextId + n - 1
  <2>1. nextId \in Int /\ last \in Int
    BY <1>1, <1>2
  <2>2. (IF nextId > last THEN 0 ELSE last - nextId + 1) = n
    BY <1>1, <1>2
  <2> HIDE DEF last
  <2>3. /\ IsFiniteSet(nextId..last)
        /\ Cardinality(nextId..last) =
             IF nextId > last THEN 0 ELSE last - nextId + 1
    BY <2>1, FS_Interval
  <2> QED
    BY <2>2, <2>3 DEF last
<1>8. items' \in Injection(ids, got)
  BY <1>1, <1>6, <1>7, FS_SurjSameCardinalityImpliesInj DEF n
<1> QED
  BY <1>1, <1>2, <1>3, <1>6, <1>8 DEF Bijection, n, got

LEMMA AnswerBase ==
  ASSUME BaseInv, Answer
  PROVE  BaseInv'
<1>1. /\ ItemsInv /\ OpsInv /\ nextId \in Nat \ {0} /\ reloadCount \in Nat
      /\ \A id \in DOMAIN items : id \in 1..nextId - 1 /\ items[id] \in Item
  BY DEF BaseInv, ItemsInv, OpsInv
<1>2. PICK o \in UnderWay :
        \/ ListAnswered(o) \/ CreateAnswered(o) \/ NotebookAnswered(o)
        \/ RenameAnswered(o) \/ DeleteAnswered(o)
        \/ CreateInAnswered(o) \/ DirectoryAnswered(o)
        \/ Lost(o)
  BY DEF Answer
<1>3. RequestType(ops[o], nextId)
  BY <1>1 DEF OpsInv
<1>4. ASSUME ops' = Ended(o), UNCHANGED <<diskVars, begun, nextId>>,
             reloadCount' \in Nat
      PROVE  DiskInv' /\ OpsInv' /\ CurrentInv'
  BY <1>1, <1>4, OpsEnd
<1>5. ASSUME NEW r, RequestType(r, nextId), r.at = "sent",
             Send(Ended(o), r), UNCHANGED <<diskVars, nextId>>,
             reloadCount' \in Nat
      PROVE  DiskInv' /\ OpsInv' /\ CurrentInv'
  BY <1>1, <1>5, OpsReplace
<1> DEFINE fetch == FetchDirectory(ops[o].id, ops[o].from)
<1>15. RequestType(FetchData, nextId) /\ FetchData.at = "sent"
  BY FS_EmptySet DEF FetchData, Requested, RequestType, Request, Reloading, OfEntry
<1>16. ASSUME ops[o].asks \in OfEntry
       PROVE  RequestType(fetch, nextId) /\ fetch.at = "sent"
  <2>1. ops[o].from \in Name /\ ops[o].id \in 1..nextId - 1 /\ ops[o].id \in Nat
    BY <1>1, <1>3, <1>16 DEF RequestType
  <2> QED
    BY <2>1, FS_EmptySet DEF FetchDirectory, Requested, RequestType, Request,
                             Reloading, OfEntry
<1> HIDE DEF fetch
<1>6. ASSUME NEW id, NEW item \in Item, UNCHANGED nextId,
             items' = [items EXCEPT ![id] = item]
      PROVE  ItemsInv'
  BY <1>1, <1>6 DEF ItemsInv
<1>7. ASSUME UNCHANGED <<items, nextId>>
      PROVE  ItemsInv'
  BY <1>1, <1>7 DEF ItemsInv
<1>8. CASE ListAnswered(o)
  <2>1. /\ Cardinality(ops[o].got) \in Nat
        /\ nextId' = nextId + Cardinality(ops[o].got)
        /\ items' \in [nextId..nextId' - 1 -> ops[o].got]
    BY <1>8, NewList DEF Bijection, Injection
  <2>2. ops[o].got \subseteq Item
    BY <1>3 DEF RequestType, Request
  <2>3. nextId' \in Nat \ {0} /\ nextId' >= nextId
    BY <1>1, <2>1
  <2>4. ItemsInv'
    BY <1>1, <2>1, <2>2, <2>3 DEF ItemsInv
  <2>5. DiskInv' /\ OpsInv' /\ CurrentInv'
    BY <1>1, <1>8, <2>3, OpsEnd DEF ListAnswered
  <2> QED
    BY <2>4, <2>5 DEF BaseInv
<1>9. CASE CreateAnswered(o)
  <2>1. /\ Send(Ended(o), FetchData)
        /\ UNCHANGED <<diskVars, items, nextId, reloadCount>>
    BY <1>9 DEF CreateAnswered
  <2>2. DiskInv' /\ OpsInv' /\ CurrentInv'
    BY <1>1, <1>5, <1>15, <2>1
  <2> QED
    BY <1>7, <2>1, <2>2 DEF BaseInv
<1>10. CASE NotebookAnswered(o)
  <2>1. /\ reloadCount' \in Nat /\ UNCHANGED <<diskVars, items, nextId>>
        /\ \/ Send(Ended(o), FetchData)
           \/ ops' = Ended(o) /\ UNCHANGED begun
    <3>1. ops[o] \in Request
      BY <1>3 DEF RequestType
    <3>2. ops[o].seen \in Nat
      BY <3>1 DEF Request
    <3>3. reloadCount' = ops[o].seen + 1
      BY <1>10 DEF NotebookAnswered
    <3>4. reloadCount' \in Nat
      BY <3>2, <3>3
    <3> QED
      BY <1>10, <3>4 DEF NotebookAnswered
  <2>2. DiskInv' /\ OpsInv' /\ CurrentInv'
    BY <1>4, <1>5, <1>15, <2>1
  <2> QED
    BY <1>7, <2>1, <2>2 DEF BaseInv
<1>11. CASE RenameAnswered(o) \/ DeleteAnswered(o)
  <2>1. /\ ops' = Ended(o) /\ UNCHANGED <<diskVars, begun, nextId, reloadCount>>
    BY <1>11 DEF RenameAnswered, DeleteAnswered
  <2>2. DiskInv' /\ OpsInv' /\ CurrentInv'
    BY <1>1, <1>4, <2>1
  <2>3. CASE items' = items
    BY <1>7, <2>1, <2>2, <2>3 DEF BaseInv
  <2>4. CASE items' # items
    <3> DEFINE id == ops[o].id
    <3>1. id \in DOMAIN items /\ items[id] \in Item
      BY <1>1, <1>11, <2>4 DEF RenameAnswered, DeleteAnswered, ToEntry
    <3>2. \E item \in Item : items' = [items EXCEPT ![id] = item]
      <4>1. CASE RenameAnswered(o)
        <5>1. items' = [items EXCEPT ![id] = [items[id] EXCEPT
                          !.name = ops[o].to, !.editing = FALSE]]
          BY <3>1, <4>1 DEF RenameAnswered, ToEntry
        <5>2. ops[o].to \in Name
          BY <1>3, <4>1 DEF RenameAnswered, RequestType
        <5>3. [items[id] EXCEPT !.name = ops[o].to, !.editing = FALSE] \in Item
          BY <3>1, <5>2 DEF Item
        <5> QED
          BY <5>1, <5>3
      <4>2. CASE DeleteAnswered(o)
        <5>1. items' = [items EXCEPT ![id] = [items[id] EXCEPT !.deleted = TRUE]]
          BY <3>1, <4>2 DEF DeleteAnswered, ToEntry
        <5>2. [items[id] EXCEPT !.deleted = TRUE] \in Item
          BY <3>1 DEF Item
        <5> QED
          BY <5>1, <5>2
      <4> QED
        BY <1>11, <4>1, <4>2
    <3>3. ItemsInv'
      BY <1>6, <2>1, <3>2
    <3> QED
      BY <2>2, <3>3 DEF BaseInv
  <2> QED
    BY <2>3, <2>4
<1>12. CASE CreateInAnswered(o)
  <2>1. /\ Send(Ended(o), fetch) /\ ops[o].asks \in OfEntry
        /\ UNCHANGED <<diskVars, items, nextId, reloadCount>>
    BY <1>12 DEF CreateInAnswered, OfEntry, fetch
  <2>2. DiskInv' /\ OpsInv' /\ CurrentInv'
    BY <1>1, <1>5, <1>16, <2>1
  <2> QED
    BY <1>7, <2>1, <2>2 DEF BaseInv
<1>13. CASE DirectoryAnswered(o)
  <2>1. ops' = Ended(o) /\ UNCHANGED <<diskVars, begun, nextId, reloadCount>>
    BY <1>13 DEF DirectoryAnswered
  <2>2. DiskInv' /\ OpsInv' /\ CurrentInv'
    BY <1>1, <1>4, <2>1
  <2> DEFINE id == ops[o].id
  <2>3. CASE id \in DOMAIN items
    <3>1. items[id] \in Item /\ ops[o].inside \in SUBSET Child
      BY <1>1, <1>3, <2>3 DEF RequestType, Request
    <3>2. items' = [items EXCEPT ![id].content = ops[o].inside,
                                 ![id].fetched = TRUE]
      BY <1>13, <2>3 DEF DirectoryAnswered
    <3>3. /\ DOMAIN items' = DOMAIN items
          /\ items' = [i \in DOMAIN items |->
               IF i = id THEN [items[id] EXCEPT !.content = ops[o].inside,
                                                !.fetched = TRUE]
               ELSE items[i]]
      BY <1>1, <2>3, <3>2 DEF ItemsInv
    <3>4. [items[id] EXCEPT !.content = ops[o].inside, !.fetched = TRUE] \in Item
      BY <3>1 DEF Item
    <3>5. ItemsInv'
      BY <1>1, <2>1, <3>3, <3>4 DEF ItemsInv
    <3> QED
      BY <2>2, <3>5 DEF BaseInv
  <2>4. CASE id \notin DOMAIN items
    <3>1. items' = items
      BY <1>13, <2>4 DEF DirectoryAnswered
    <3> QED
      BY <1>7, <2>1, <2>2, <3>1 DEF BaseInv
  <2> QED
    BY <2>3, <2>4
<1>14. CASE Lost(o)
  BY <1>1, <1>4, <1>7, <1>14 DEF Lost, BaseInv
<1> QED
  BY <1>2, <1>8, <1>9, <1>10, <1>11, <1>12, <1>13, <1>14

-----------------------------------------------------------------------------
(* The user *)

LEMMA CommandBase ==
  ASSUME BaseInv, Command
  PROVE  BaseInv'
<1>1. /\ ItemsInv /\ OpsInv /\ nextId \in Nat \ {0} /\ reloadCount \in Nat
      /\ \A id \in DOMAIN items : id \in 1..nextId - 1 /\ items[id] \in Item
      /\ UNCHANGED <<diskVars, nextId>>
  BY DEF BaseInv, ItemsInv, OpsInv, Command
\* What an entry sends.
<1>2. ASSUME NEW id \in DOMAIN items, NEW asks \in OfEntry, NEW from \in Name,
             NEW to \in Name \cup {NoName}, asks = "rename" => to \in Name,
             Send(ops, Requested(asks, id, from, to, 0)), UNCHANGED reloadCount
      PROVE  DiskInv' /\ OpsInv' /\ CurrentInv'
  <2> DEFINE r == Requested(asks, id, from, to, 0)
  <2>1. id \in 1..nextId - 1 /\ id \in Nat
    BY <1>1
  <2>2. RequestType(r, nextId) /\ r.at = "sent"
    BY <1>2, <2>1, FS_EmptySet
    DEF Requested, RequestType, Request, Reloading, OfEntry
  <2> HIDE DEF r
  <2>3. Send(ops, r)
    BY <1>2 DEF r
  <2> QED
    BY <1>1, <1>2, <2>2, <2>3, OpsSend
<1>3. ASSUME NEW id \in DOMAIN items, NEW item \in Item,
             items' = [items EXCEPT ![id] = item]
      PROVE  ItemsInv'
  BY <1>1, <1>3 DEF ItemsInv
<1>4. ASSUME UNCHANGED items
      PROVE  ItemsInv'
  BY <1>1, <1>4 DEF ItemsInv
<1>5. ASSUME NEW id \in DOMAIN items
      PROVE  /\ items[id].name \in Name /\ items[id].text \in Name
             /\ items[id].path \in Name
  BY <1>1 DEF Item
<1>6. ASSUME NEW asks \in {"file", "createdir", "notebook"}, Create(asks)
      PROVE  BaseInv'
  <2> DEFINE r == Requested(asks, 0, NoName, NoName, reloadCount)
  <2>1. RequestType(r, nextId) /\ r.at = "sent"
    BY <1>1, FS_EmptySet
    DEF Requested, RequestType, Request, Reloading, OfEntry
  <2>2. Send(ops, r) /\ UNCHANGED <<items, reloadCount>>
    BY <1>6 DEF Create
  <2> HIDE DEF r
  <2>3. DiskInv' /\ OpsInv' /\ CurrentInv'
    BY <1>1, <2>1, <2>2, OpsSend
  <2> QED
    BY <1>4, <2>2, <2>3 DEF BaseInv
<1>7. ASSUME NEW id \in DOMAIN items, NEW text \in Name,
             StartEditing(id) \/ OnBlur(id) \/ EditText(id, text)
      PROVE  BaseInv'
  <2>1. UNCHANGED <<ops, begun, reloadCount>>
    BY <1>7 DEF StartEditing, OnBlur, EditText
  <2>2. DiskInv' /\ OpsInv' /\ CurrentInv'
    BY <1>1, <2>1, OpsSame
  <2>3. \E item : /\ items' = [items EXCEPT ![id] = item]
                  /\ \/ \E e \in BOOLEAN : item = [items[id] EXCEPT !.editing = e]
                     \/ item = [items[id] EXCEPT !.text = text]
    BY <1>7 DEF StartEditing, OnBlur, EditText
  <2>4. \E item \in Item : items' = [items EXCEPT ![id] = item]
    <3>1. items[id] \in Item
      BY <1>1
    <3> QED
      BY <2>3, <3>1 DEF Item
  <2> QED
    BY <1>3, <2>2, <2>4 DEF BaseInv
<1>8. ASSUME NEW id \in DOMAIN items, RenameContent(id)
      PROVE  BaseInv'
  <2>1. /\ Send(ops, Requested("rename", id, items[id].name, items[id].text, 0))
        /\ UNCHANGED <<items, reloadCount>>
    BY <1>8 DEF RenameContent, ByName
  <2>2. "rename" \in OfEntry /\ items[id].name \in Name /\ items[id].text \in Name
    BY <1>5 DEF OfEntry
  <2>3. DiskInv' /\ OpsInv' /\ CurrentInv'
    BY <1>2, <2>1, <2>2
  <2> QED
    BY <1>4, <2>1, <2>3 DEF BaseInv
<1>9. ASSUME NEW id \in DOMAIN items, DeleteContent(id)
      PROVE  BaseInv'
  <2>1. PICK from \in {items[id].text, items[id].path} :
          /\ Send(ops, Requested("delete", id, from, NoName, 0))
          /\ UNCHANGED <<items, reloadCount>>
    BY <1>9 DEF DeleteContent, ByName
  <2>2. "delete" \in OfEntry /\ from \in Name
    BY <1>5 DEF OfEntry
  <2>3. DiskInv' /\ OpsInv' /\ CurrentInv'
    BY <1>2, <2>1, <2>2
  <2> QED
    BY <1>4, <2>1, <2>3 DEF BaseInv
<1>10. ASSUME NEW id \in DOMAIN items, HandleDirectoryClick(id)
       PROVE  BaseInv'
  <2>1. /\ Send(ops, Requested("listdir", id, items[id].path, NoName, 0))
        /\ UNCHANGED reloadCount
    BY <1>10 DEF HandleDirectoryClick, ByName, FetchDirectory
  <2>2. "listdir" \in OfEntry /\ items[id].path \in Name
    BY <1>5 DEF OfEntry
  <2>3. DiskInv' /\ OpsInv' /\ CurrentInv'
    BY <1>2, <2>1, <2>2
  <2>4. /\ items' = [items EXCEPT ![id] =
                       [items[id] EXCEPT !.open = ~items[id].open]]
        /\ items[id] \in Item
    BY <1>1, <1>10 DEF HandleDirectoryClick
  <2>5. [items[id] EXCEPT !.open = ~items[id].open] \in Item
    BY <2>4 DEF Item
  <2>6. ItemsInv'
    BY <1>3, <2>4, <2>5
  <2> QED
    BY <2>3, <2>6 DEF BaseInv
<1>11. ASSUME NEW id \in DOMAIN items, CreateIn(id)
       PROVE  BaseInv'
  <2>1. /\ Send(ops, Requested("createin", id, items[id].path, NoName, 0))
        /\ UNCHANGED <<items, reloadCount>>
    BY <1>11 DEF CreateIn, ByName
  <2>2. "createin" \in OfEntry /\ items[id].path \in Name
    BY <1>5 DEF OfEntry
  <2>3. DiskInv' /\ OpsInv' /\ CurrentInv'
    BY <1>2, <2>1, <2>2
  <2> QED
    BY <1>4, <2>1, <2>3 DEF BaseInv
<1>12. CASE \E asks \in {"file", "createdir", "notebook"} : Create(asks)
  BY <1>6, <1>12
<1>13. ASSUME NEW id \in DOMAIN items,
              \/ StartEditing(id) \/ OnBlur(id)
              \/ \E text \in Name : EditText(id, text)
              \/ RenameContent(id) \/ DeleteContent(id)
              \/ HandleDirectoryClick(id) \/ CreateIn(id)
       PROVE  BaseInv'
  <2>1. CASE StartEditing(id) \/ OnBlur(id)
    BY <1>5, <1>7, <2>1
  <2>2. CASE \E text \in Name : EditText(id, text)
    BY <1>7, <2>2
  <2> QED
    BY <1>8, <1>9, <1>10, <1>11, <1>13, <2>1, <2>2
<1> QED
  BY <1>12, <1>13 DEF Command

LEMMA BaseStep ==
  ASSUME BaseInv, [Next]_vars
  PROVE  BaseInv'
<1>1. CASE UNCHANGED vars
  <2>1. UNCHANGED <<disk, inside, items, nextId, reloadCount, ops, begun>>
    BY <1>1 DEF vars, diskVars
  <2>2. DiskInv' /\ ItemsInv'
    BY <2>1 DEF BaseInv, DiskInv, ItemsInv
  <2>3. OpsInv' /\ CurrentInv'
    BY <2>1, OpsSame DEF BaseInv, ItemsInv, diskVars
  <2> QED
    BY <2>2, <2>3 DEF BaseInv
<1> QED
  BY <1>1, ServerBase, AnswerBase, CommandBase DEF Next

LEMMA BaseInit ==
  ASSUME Init
  PROVE  BaseInv
<1>1. DiskInv /\ ItemsInv
  BY BrowserAssumption DEF Init, DiskInv, ItemsInv
<1>2. ops = [o \in {1} |-> FetchData] /\ UnderWay = {1}
  BY DEF Init, UnderWay
<1>3. RequestType(FetchData, 1)
  BY FS_EmptySet
  DEF FetchData, Requested, RequestType, Request, Reloading, OfEntry
<1>4. OpsInv
  BY <1>2, <1>3, BrowserAssumption DEF Init, OpsInv
<1>5. CurrentInv
  BY <1>2 DEF CurrentInv, FetchData, Requested
<1> QED
  BY <1>1, <1>4, <1>5 DEF BaseInv

\* Ids are unique, and no directory that holds something is removed or
\* replaced.
THEOREM TypeCorrect == Spec => []TypeOK
<1>1. BaseInv => TypeOK
  BY DEF BaseInv, DiskInv, ItemsInv, OpsInv, TypeOK
<1> QED
  BY <1>1, BaseInit, BaseStep, PTL DEF Spec

-----------------------------------------------------------------------------
(* What is to come: a new list, or a slip *)

\* What went wrong is not forgotten.
LEMMA SlipsStay ==
  ASSUME Next
  PROVE  slips \subseteq slips'
<1>1. CASE Command
  BY <1>1 DEF Command, Create, StartEditing, OnBlur, EditText, RenameContent,
              DeleteContent, HandleDirectoryClick, CreateIn, ByName, NoSlip
<1>2. CASE ServerStep
  <2>1. PICK o \in UnderWay :
          \/ ServerLists(o) \/ ServerListsDirectory(o)
          \/ \E n \in Name : ServerCreates(o, n)
          \/ \E c \in Child : ServerCreatesIn(o, c)
          \/ ServerRenames(o) \/ ServerDeletes(o)
    BY <1>2 DEF ServerStep
  <2>2. ASSUME ServerRenames(o)
        PROVE  NoSlip \/ Slip("refused") \/ Slip("replaced")
    BY <2>2 DEF ServerRenames
  <2>3. ASSUME ~ServerRenames(o)
        PROVE  NoSlip \/ Slip("refused")
    BY <2>1, <2>3 DEF ServerLists, ServerListsDirectory, ServerCreates,
                      ServerCreatesIn, ServerDeletes
  <2> QED
    BY <2>2, <2>3 DEF Slip, NoSlip
<1>3. CASE Answer
  BY <1>3 DEF Answer, ListAnswered, CreateAnswered, NotebookAnswered,
              RenameAnswered, DeleteAnswered, CreateInAnswered,
              DirectoryAnswered, ToEntry, Lost, Slip, NoSlip
<1> QED
  BY <1>1, <1>2, <1>3 DEF Next

\* After the step a request of the same sort is under way, for the same entry
\* unless a list is to follow.
Follows(o) ==
  \E p \in UnderWay' :
    \/ ops[o].asks \in Reloading /\ ops'[p].asks \in Reloading
    \/ /\ ops[o].asks \in OfEntry /\ ops'[p].asks \in OfEntry
       /\ ops'[p].id = ops[o].id

LEMMA SameFollows ==
  ASSUME OpsInv, NEW o \in UnderWay, NEW p \in UnderWay',
         ops'[p].asks = ops[o].asks, ops'[p].id = ops[o].id
  PROVE  Follows(o)
<1>1. ops[o].asks \in Reloading \cup OfEntry
  BY DEF OpsInv, RequestType, Request
<1> QED
  BY <1>1 DEF Follows

\* An answer is followed by a request of its sort, or taken by its entry.
LEMMA AnswerFollows ==
  ASSUME BaseInv, NEW o \in UnderWay, slips' = {},
         \/ CreateAnswered(o) \/ NotebookAnswered(o)
         \/ RenameAnswered(o) \/ DeleteAnswered(o)
         \/ CreateInAnswered(o) \/ DirectoryAnswered(o)
         \/ Lost(o)
  PROVE  /\ DOMAIN items' = DOMAIN items
         /\ \A p \in UnderWay \ {o} :
              p \in UnderWay' /\ ops'[p] = ops[p]
         /\ Follows(o) \/ (ops[o].asks \in OfEntry /\ ops[o].id \in DOMAIN items)
<1>1. /\ OpsInv /\ begun \in 1..MaxOps
      /\ items = [id \in DOMAIN items |-> items[id]]
  BY DEF BaseInv, ItemsInv, OpsInv
<1>2. /\ DOMAIN Ended(o) = UnderWay \ {o}
      /\ \A p \in UnderWay \ {o} : Ended(o)[p] = ops[p]
      /\ Ended(o) = [p \in DOMAIN Ended(o) |-> Ended(o)[p]]
      /\ DOMAIN Ended(o) \subseteq 1..begun
  BY <1>1, EndedOps
<1>3. ASSUME ops' = Ended(o)
      PROVE  \A p \in UnderWay \ {o} : p \in UnderWay' /\ ops'[p] = ops[p]
  BY <1>2, <1>3 DEF UnderWay
<1>4. ASSUME NEW r, Send(Ended(o), r)
      PROVE  /\ \A p \in UnderWay \ {o} : p \in UnderWay' /\ ops'[p] = ops[p]
             /\ begun + 1 \in UnderWay' /\ ops'[begun + 1] = r
  <2>1. /\ UnderWay' = DOMAIN Ended(o) \cup {begun + 1}
        /\ ops'[begun + 1] = r
        /\ \A p \in DOMAIN Ended(o) : ops'[p] = Ended(o)[p]
    BY <1>1, <1>2, <1>4, SentOps
  <2> QED
    BY <1>2, <2>1
<1>5. \A what : ~Slip(what)
  BY DEF Slip
<1>6. FetchData.asks \in Reloading
  BY DEF FetchData, Requested, Reloading
<1>7. CASE CreateAnswered(o)
  <2>1. /\ Send(Ended(o), FetchData) /\ items' = items
        /\ ops[o].asks \in Reloading
    BY <1>7 DEF CreateAnswered, Reloading
  <2> QED
    BY <1>4, <1>6, <2>1 DEF Follows
<1>8. CASE NotebookAnswered(o)
  <2>1. /\ Send(Ended(o), FetchData) /\ items' = items
        /\ ops[o].asks \in Reloading
    BY <1>5, <1>8 DEF NotebookAnswered, Reloading
  <2> QED
    BY <1>4, <1>6, <2>1 DEF Follows
<1>9. CASE RenameAnswered(o) \/ DeleteAnswered(o)
  <2>1. /\ ops[o].id \in DOMAIN items /\ ops[o].asks \in OfEntry
        /\ ops' = Ended(o)
    BY <1>5, <1>9 DEF RenameAnswered, DeleteAnswered, ToEntry, OfEntry
  <2>2. \E item : items' = [items EXCEPT ![ops[o].id] = item]
    BY <1>9, <2>1 DEF RenameAnswered, DeleteAnswered, ToEntry
  <2>3. DOMAIN items' = DOMAIN items
    BY <2>2
  <2> QED
    BY <1>3, <2>1, <2>3
<1>10. CASE CreateInAnswered(o)
  <2> DEFINE r == FetchDirectory(ops[o].id, ops[o].from)
  <2>1. Send(Ended(o), r) /\ items' = items /\ ops[o].asks \in OfEntry
    BY <1>10 DEF CreateInAnswered, OfEntry
  <2>2. r.asks \in OfEntry /\ r.id = ops[o].id
    BY DEF FetchDirectory, Requested, OfEntry
  <2> HIDE DEF r
  <2> QED
    BY <1>4, <2>1, <2>2 DEF Follows
<1>11. CASE DirectoryAnswered(o)
  <2>1. /\ ops[o].id \in DOMAIN items /\ ops[o].asks \in OfEntry
        /\ ops' = Ended(o)
    BY <1>5, <1>11 DEF DirectoryAnswered, OfEntry
  <2>2. DOMAIN items' = DOMAIN items
    BY <1>11, <2>1 DEF DirectoryAnswered
  <2> QED
    BY <1>3, <2>1, <2>2
<1>12. CASE Lost(o)
  BY <1>5, <1>12 DEF Lost
<1> QED
  BY <1>7, <1>8, <1>9, <1>10, <1>11, <1>12

LEMMA ServerKeeps ==
  ASSUME BaseInv, ServerStep
  PROVE  /\ UnderWay' = UnderWay /\ items' = items
         /\ \A p \in UnderWay :
              /\ ops'[p].asks = ops[p].asks /\ ops'[p].id = ops[p].id
              /\ ops'[p].from = ops[p].from /\ ops'[p].to = ops[p].to
<1>1. OpsInv
  BY DEF BaseInv
<1>2. PICK o \in UnderWay : \E got, in : Served(o, got, in)
  BY DEF ServerStep, ServerLists, ServerListsDirectory, ServerCreates,
         ServerCreatesIn, ServerRenames, ServerDeletes
<1>3. PICK got, in : Served(o, got, in)
  BY <1>2
<1>4. items' = items
  BY DEF ServerStep
<1> QED
  BY <1>1, <1>3, <1>4, ServedOps

\* The user's request, if any, comes on top of the others.
LEMMA CommandKeeps ==
  ASSUME BaseInv, Command
  PROVE  /\ DOMAIN items' = DOMAIN items
         /\ \A p \in UnderWay : p \in UnderWay' /\ ops'[p] = ops[p]
         /\ (\E asks \in {"file", "createdir", "notebook"} : Create(asks)) =>
              ToReload'
<1>1. /\ begun \in 1..MaxOps /\ ops = [o \in DOMAIN ops |-> ops[o]]
      /\ DOMAIN ops \subseteq 1..begun /\ UnderWay = DOMAIN ops
  BY DEF BaseInv, OpsInv, UnderWay
<1>2. ASSUME NEW r, Send(ops, r)
      PROVE  /\ \A p \in UnderWay : p \in UnderWay' /\ ops'[p] = ops[p]
             /\ begun + 1 \in UnderWay' /\ ops'[begun + 1] = r
  <2>1. /\ UnderWay' = DOMAIN ops \cup {begun + 1}
        /\ ops'[begun + 1] = r
        /\ \A p \in DOMAIN ops : ops'[p] = ops[p]
    BY <1>1, <1>2, SentOps
  <2> QED
    BY <1>1, <2>1
<1>3. ASSUME UNCHANGED ops
      PROVE  \A p \in UnderWay : p \in UnderWay' /\ ops'[p] = ops[p]
  BY <1>3 DEF UnderWay
<1>4. DOMAIN items' = DOMAIN items
  BY DEF Command, Create, StartEditing, EditText, OnBlur, RenameContent,
         DeleteContent, HandleDirectoryClick, CreateIn, BaseInv, ItemsInv
<1>5. ASSUME NEW asks \in {"file", "createdir", "notebook"}, Create(asks)
      PROVE  ToReload'
  <2> DEFINE r == Requested(asks, 0, NoName, NoName, reloadCount)
  <2>1. Send(ops, r) /\ r.asks \in Reloading
    BY <1>5 DEF Create, Requested, Reloading
  <2> HIDE DEF r
  <2> QED
    BY <1>2, <2>1 DEF ToReload
<1>6. UNCHANGED ops \/ \E r : Send(ops, r)
  BY DEF Command, Create, StartEditing, EditText, OnBlur, RenameContent,
         DeleteContent, HandleDirectoryClick, CreateIn, ByName
<1> QED
  BY <1>2, <1>3, <1>4, <1>5, <1>6

\* But for a new list, what is to come stays to come.
LEMMA ToComeStays ==
  ASSUME BaseInv, Next, slips' = {}, \A o \in UnderWay : ~ListAnswered(o)
  PROVE  (ToReload => ToReload') /\ (Doomed => Doomed')
<1>1. OpsInv
  BY DEF BaseInv
<1>2. /\ DOMAIN items' = DOMAIN items
      /\ \A p \in UnderWay :
           Follows(p) \/ (ops[p].asks \in OfEntry /\ ops[p].id \in DOMAIN items)
  <2>1. CASE Command
    BY <1>1, <2>1, CommandKeeps, SameFollows
  <2>2. CASE ServerStep
    BY <1>1, <2>2, ServerKeeps, SameFollows
  <2>3. CASE Answer
    <3>1. PICK o \in UnderWay :
            \/ CreateAnswered(o) \/ NotebookAnswered(o)
            \/ RenameAnswered(o) \/ DeleteAnswered(o)
            \/ CreateInAnswered(o) \/ DirectoryAnswered(o)
            \/ Lost(o)
      BY <2>3 DEF Answer
    <3>2. /\ DOMAIN items' = DOMAIN items
          /\ \A p \in UnderWay \ {o} :
               p \in UnderWay' /\ ops'[p] = ops[p]
          /\ Follows(o) \/ (ops[o].asks \in OfEntry /\ ops[o].id \in DOMAIN items)
      BY <3>1, AnswerFollows
    <3>3. \A p \in UnderWay \ {o} : Follows(p)
      BY <1>1, <3>2, SameFollows
    <3> QED
      BY <3>2, <3>3
  <2> QED
    BY <2>1, <2>2, <2>3 DEF Next
<1>3. ASSUME ToReload
      PROVE  ToReload'
  <2>1. PICK p \in UnderWay : ops[p].asks \in Reloading
    BY <1>3 DEF ToReload
  <2>2. ops[p].asks \notin OfEntry
    BY <2>1 DEF Reloading, OfEntry
  <2> QED
    BY <1>2, <2>1, <2>2 DEF Follows, ToReload
<1>4. ASSUME Doomed
      PROVE  Doomed'
  <2>1. PICK p \in UnderWay : ops[p].asks \in OfEntry /\ ops[p].id \notin DOMAIN items
    BY <1>4 DEF Doomed
  <2>2. ops[p].asks \notin Reloading
    BY <2>1 DEF Reloading, OfEntry
  <2> QED
    BY <1>2, <2>1, <2>2 DEF Follows, Doomed
<1> QED
  BY <1>3, <1>4

\* After a new list either another one is to come, or the entry is gone that
\* an answer is for, or nothing is under way and the list is right.
LEMMA NewListInv ==
  ASSUME BaseInv, NEW o \in UnderWay, ListAnswered(o), slips' = {}
  PROVE  ToReload' \/ Doomed' \/ (Orderly /\ Faithful)'
<1>1. /\ OpsInv /\ nextId \in Nat \ {0}
      /\ \A p \in UnderWay : RequestType(ops[p], nextId)
  BY DEF BaseInv, ItemsInv, OpsInv
<1>2. /\ DOMAIN Ended(o) = UnderWay \ {o}
      /\ \A p \in UnderWay \ {o} : Ended(o)[p] = ops[p]
  BY <1>1, EndedOps
<1>3. /\ UnderWay' = UnderWay \ {o}
      /\ \A p \in UnderWay' : ops'[p] = ops[p]
  BY <1>2 DEF ListAnswered, UnderWay
<1>4. /\ nextId' \in Nat /\ nextId' >= nextId
      /\ items' \in Bijection(nextId..nextId' - 1, ops[o].got)
  BY <1>1, NewList
<1>5. DOMAIN items' = nextId..nextId' - 1
  BY <1>4 DEF Bijection, Injection
<1>6. CASE \E p \in UnderWay' : ops[p].asks \in Reloading
  BY <1>3, <1>6 DEF ToReload
<1>7. CASE \E p \in UnderWay' : ops[p].asks \in OfEntry
  <2>1. PICK p \in UnderWay' : ops[p].asks \in OfEntry
    BY <1>7
  <2>2. ops[p].id \in 1..nextId - 1
    BY <1>1, <1>3, <2>1 DEF RequestType
  <2>3. ops[p].id \notin DOMAIN items'
    BY <1>1, <1>4, <1>5, <2>2
  <2> QED
    BY <1>3, <2>1, <2>3 DEF Doomed
<1>8. CASE UnderWay' = {}
  <2>1. Orderly'
    BY <1>8 DEF Orderly
  <2>2. ~ops[o].old /\ ops[o].got = Listing
    <3>1. ops[o] \in Request
      BY <1>1 DEF RequestType
    <3>2. ~ops[o].old
      BY DEF ListAnswered, Slip
    <3> QED
      BY <3>2 DEF ListAnswered, BaseInv, CurrentInv
  <2>3. disk' = disk /\ inside' = inside
    BY DEF ListAnswered, diskVars
  <2>4. /\ \A id \in DOMAIN items' : items'[id] \in Listing
        /\ \A m \in Listing : \E id \in DOMAIN items' : items'[id] = m
        /\ \A i, j \in DOMAIN items' : items'[i] = items'[j] => i = j
    <3> DEFINE ids == nextId..nextId' - 1
    <3>1. items' \in Bijection(ids, Listing) /\ DOMAIN items' = ids
      BY <1>4, <1>5, <2>2
    <3> HIDE DEF ids
    <3>2. items' \in Injection(ids, Listing) /\ items' \in Surjection(ids, Listing)
      BY <3>1 DEF Bijection
    <3>3. /\ items' \in [ids -> Listing]
          /\ \A i, j \in ids : items'[i] = items'[j] => i = j
      BY <3>1, <3>2 DEF Injection, IsInjective
    <3>4. \A m \in Listing : \E id \in ids : items'[id] = m
      BY <3>2 DEF Surjection
    <3> QED
      BY <3>1, <3>3, <3>4
  <2>5. \A m \in Listing : /\ m.name \in Existing /\ m = Listed(m.name)
                           /\ m.kind = disk[m.name]
                           /\ ~m.deleted /\ ~m.fetched
    BY DEF Listing, Listed
  <2>6. Live' = DOMAIN items'
    BY <1>8, <2>4, <2>5 DEF Live, Shown
  <2>7. \A id \in DOMAIN items' : Names'[id] = items'[id].name
    BY <1>8 DEF Names
  <2>8. \A id \in Live' : disk'[Names'[id]] = items'[id].kind
    BY <2>3, <2>4, <2>5, <2>6, <2>7
  <2>9. \A n \in Existing' : \E id \in Live' : Names'[id] = n
    <3> SUFFICES ASSUME NEW n \in Existing
                 PROVE  \E id \in Live' : Names'[id] = n
      BY <2>3 DEF Existing
    <3>1. Listed(n) \in Listing /\ Listed(n).name = n
      BY DEF Listing, Listed
    <3> QED
      BY <2>4, <2>6, <2>7, <3>1
  <2>10. \A i, j \in Live' : Names'[i] = Names'[j] => i = j
    <3> SUFFICES ASSUME NEW i \in Live', NEW j \in Live', Names'[i] = Names'[j]
                 PROVE  i = j
      OBVIOUS
    <3>1. items'[i] = Listed(Names'[i]) /\ items'[j] = Listed(Names'[j])
      BY <2>4, <2>5, <2>6, <2>7
    <3>2. items'[i] = items'[j]
      BY <3>1
    <3> QED
      BY <2>4, <2>6, <3>2
  <2>11. \A id \in Live' : ~items'[id].fetched
    BY <2>4, <2>5, <2>6
  <2>12. Faithful'
    BY <2>8, <2>9, <2>10, <2>11 DEF Faithful
  <2> QED
    BY <2>1, <2>12
<1>9. \A p \in UnderWay' : ops[p].asks \in Reloading \cup OfEntry
  BY <1>1, <1>3 DEF RequestType, Request
<1> QED
  BY <1>6, <1>7, <1>8, <1>9

-----------------------------------------------------------------------------
(* A faithful list stays faithful *)

\* What Names and Live stand for, when every request is of an entry that is
\* there and an entry being renamed has no other request.
NamesKnown ==
  /\ \A o \in UnderWay : ops[o].asks \in OfEntry
  /\ \A id \in DOMAIN items :
       (\A o \in UnderWay : ~(/\ ops[o].at = "answered" /\ ops[o].id = id
                              /\ ops[o].asks = "rename")) =>
         Names[id] = items[id].name
  /\ \A o \in UnderWay : ops[o].at = "answered" /\ ops[o].asks = "rename" =>
       Names[ops[o].id] = ops[o].to
  /\ \A id \in DOMAIN items : Names[id] \in Name

LEMMA NamesAreKnown == BaseInv /\ Orderly => NamesKnown
<1> SUFFICES ASSUME BaseInv, Orderly
             PROVE  NamesKnown
  OBVIOUS
<1>1. /\ \A o \in UnderWay : RequestType(ops[o], nextId)
      /\ \A id \in DOMAIN items : id \in 1..nextId - 1 /\ items[id] \in Item
      /\ nextId \in Nat \ {0}
  BY DEF BaseInv, ItemsInv, OpsInv
<1>2. ASSUME NEW o \in UnderWay
      PROVE  ops[o].asks \in OfEntry
  <2>1. ops[o].id \in DOMAIN items /\ ops[o].id # 0
    BY <1>1 DEF Orderly
  <2> QED
    BY <1>1, <2>1 DEF RequestType, Request
<1>3. ASSUME NEW id \in DOMAIN items,
             \A o \in UnderWay : ~(/\ ops[o].at = "answered" /\ ops[o].id = id
                                   /\ ops[o].asks = "rename")
      PROVE  Names[id] = items[id].name
  BY <1>3 DEF Names
<1>4. ASSUME NEW o \in UnderWay, ops[o].at = "answered", ops[o].asks = "rename"
      PROVE  Names[ops[o].id] = ops[o].to /\ ops[o].to \in Name
  <2> DEFINE P(n) == \E p \in UnderWay :
                       /\ ops[p].at = "answered" /\ ops[p].id = ops[o].id
                       /\ ops[p].asks = "rename" /\ ops[p].to = n
  <2>1. ops[o].id \in DOMAIN items /\ ops[o].to \in Name
    BY <1>1, <1>4 DEF Orderly, RequestType
  <2>2. Names[ops[o].id] = CHOOSE n \in Name : P(n)
    BY <1>4, <2>1 DEF Names
  <2>3. P(ops[o].to) /\ \A n \in Name : P(n) => n = ops[o].to
    BY <1>4 DEF Orderly
  <2> HIDE DEF P
  <2> QED
    BY <2>1, <2>2, <2>3
<1>5. ASSUME NEW id \in DOMAIN items
      PROVE  Names[id] \in Name
  <2>1. items[id].name \in Name
    BY <1>1 DEF Item
  <2> QED
    BY <1>3, <1>4, <2>1
<1> QED
  BY <1>2, <1>3, <1>4, <1>5 DEF NamesKnown

\* The directory and the entries stay what they are, and contents come only
\* from what a directory holds.
LEMMA FaithfulKept ==
  ASSUME Faithful, UNCHANGED diskVars, Live' = Live,
         \A id \in Live :
           /\ Names'[id] = Names[id] /\ items'[id].kind = items[id].kind
           /\ items'[id].fetched /\ id \notin Waiting' =>
                items'[id].content = inside[Names[id]]
  PROVE  Faithful'
<1>1. disk' = disk /\ inside' = inside /\ Existing' = Existing
  BY DEF diskVars, Existing
<1> QED
  BY <1>1 DEF Faithful

\* The requests that are answered tell the names and who is live.
LEMMA SameAnswers ==
  ASSUME NamesKnown, NamesKnown', DOMAIN items' = DOMAIN items,
         \A id \in DOMAIN items : /\ items'[id].name = items[id].name
                                  /\ items'[id].deleted = items[id].deleted,
         \A o \in UnderWay :
           ops[o].at = "answered" /\ ops[o].asks \in {"rename", "delete"} =>
             /\ o \in UnderWay' /\ ops'[o].at = "answered"
             /\ ops'[o].asks = ops[o].asks /\ ops'[o].id = ops[o].id
             /\ ops'[o].to = ops[o].to,
         \A o \in UnderWay' :
           ops'[o].at = "answered" /\ ops'[o].asks \in {"rename", "delete"} =>
             /\ o \in UnderWay /\ ops[o].at = "answered"
             /\ ops[o].asks = ops'[o].asks /\ ops[o].id = ops'[o].id
  PROVE  Live' = Live /\ \A id \in Live : Names'[id] = Names[id]
<1>1. Live' = Live
  BY DEF Live, Shown
<1>2. ASSUME NEW id \in DOMAIN items
      PROVE  Names'[id] = Names[id]
  <2>1. CASE \E o \in UnderWay : /\ ops[o].at = "answered" /\ ops[o].id = id
                                 /\ ops[o].asks = "rename"
    <3>1. PICK o \in UnderWay : /\ ops[o].at = "answered" /\ ops[o].id = id
                                /\ ops[o].asks = "rename"
      BY <2>1
    <3>2. /\ o \in UnderWay' /\ ops'[o].at = "answered" /\ ops'[o].id = id
          /\ ops'[o].asks = "rename" /\ ops'[o].to = ops[o].to
      BY <3>1
    <3>3. Names[id] = ops[o].to /\ Names'[id] = ops'[o].to
      BY <3>1, <3>2 DEF NamesKnown
    <3> QED
      BY <3>2, <3>3
  <2>2. CASE \A o \in UnderWay : ~(/\ ops[o].at = "answered" /\ ops[o].id = id
                                   /\ ops[o].asks = "rename")
    <3>1. \A o \in UnderWay' : ~(/\ ops'[o].at = "answered" /\ ops'[o].id = id
                                 /\ ops'[o].asks = "rename")
      BY <2>2
    <3>2. Names[id] = items[id].name /\ Names'[id] = items'[id].name
      BY <2>2, <3>1 DEF NamesKnown
    <3> QED
      BY <3>2
  <2> QED
    BY <2>1, <2>2
<1> QED
  BY <1>1, <1>2 DEF Live

\* The steps of the user: the new request goes by the entry's name, and no
\* other one of that entry may change it.
LEMMA CommandFaithful ==
  ASSUME BaseInv, Orderly, Faithful, Command, slips' = {}
  PROVE  ToReload' \/ (Orderly /\ Faithful)'
<1> SUFFICES ASSUME ~ToReload'
             PROVE  (Orderly /\ Faithful)'
  OBVIOUS
<1>1. /\ DOMAIN items' = DOMAIN items /\ UNCHANGED diskVars
      /\ \A p \in UnderWay : p \in UnderWay' /\ ops'[p] = ops[p]
      /\ \A id \in DOMAIN items : items[id] \in Item
      /\ items = [id \in DOMAIN items |-> items[id]]
  BY CommandKeeps DEF Command, BaseInv, ItemsInv
<1>2. PICK id \in DOMAIN items :
        \/ StartEditing(id) \/ OnBlur(id)
        \/ \E text \in Name : EditText(id, text)
        \/ RenameContent(id) \/ DeleteContent(id)
        \/ HandleDirectoryClick(id) \/ CreateIn(id)
  BY CommandKeeps DEF Command
<1>3. /\ Shown(id)
      /\ \/ UNCHANGED ops
         \/ \E r : /\ ByName(id, r) /\ r.at = "sent" /\ r.id = id
                   /\ r.asks \in OfEntry
  BY <1>2 DEF StartEditing, EditText, OnBlur, RenameContent, DeleteContent,
              HandleDirectoryClick, CreateIn, FetchDirectory, Requested, OfEntry
<1>4. \A i \in DOMAIN items :
        /\ items'[i].kind = items[i].kind /\ items'[i].name = items[i].name
        /\ items'[i].deleted = items[i].deleted
        /\ items'[i].fetched = items[i].fetched
        /\ items'[i].content = items[i].content
  <2>1. \/ UNCHANGED items
        \/ \E e : items' = [items EXCEPT ![id].editing = e]
        \/ \E e : items' = [items EXCEPT ![id].text = e]
        \/ \E e : items' = [items EXCEPT ![id].open = e]
    BY <1>2 DEF StartEditing, EditText, OnBlur, RenameContent, DeleteContent,
                HandleDirectoryClick, CreateIn
  <2> QED
    BY <1>1, <2>1 DEF Item
<1>5. Orderly' /\ \A o \in UnderWay' \ UnderWay : ops'[o].at = "sent"
  <2>1. CASE UNCHANGED ops
    BY <1>1, <1>4, <2>1 DEF Orderly, Shown, UnderWay
  <2>2. CASE ~UNCHANGED ops
    <3>1. PICK r : /\ ByName(id, r) /\ r.at = "sent" /\ r.id = id
                   /\ r.asks \in OfEntry
      BY <1>3, <2>2
    <3>2. /\ Send(ops, r) /\ r.from = items[id].name /\ ~Overlaps(id, r.asks)
      BY <3>1 DEF ByName
    <3>3. /\ UnderWay' = UnderWay \cup {begun + 1} /\ begun + 1 \notin UnderWay
          /\ ops'[begun + 1] = r
      <4>1. /\ begun \in 1..MaxOps /\ ops = [o \in DOMAIN ops |-> ops[o]]
            /\ DOMAIN ops \subseteq 1..begun /\ UnderWay = DOMAIN ops
        BY DEF BaseInv, OpsInv, UnderWay
      <4> QED
        BY <3>2, <4>1, SentOps
    <3>4. \A o \in UnderWay : ops[o].id = id =>
            /\ ops[o].asks \notin {"rename", "delete"}
            /\ r.asks \notin {"rename", "delete"}
      BY <3>2 DEF Overlaps
    <3> QED
      BY <1>1, <1>3, <1>4, <3>1, <3>2, <3>3, <3>4 DEF Orderly, Shown
  <2> QED
    BY <2>1, <2>2
<1>6. NamesKnown /\ NamesKnown'
  <2>1. BaseInv'
    BY CommandBase
  <2> QED
    BY <1>5, <2>1, NamesAreKnown, PTL
<1>7. Live' = Live /\ \A i \in Live : Names'[i] = Names[i]
  BY <1>1, <1>4, <1>5, <1>6, SameAnswers
<1>8. Waiting \subseteq Waiting'
  BY <1>1 DEF Waiting
<1>9. Faithful'
  <2>1. ASSUME NEW i \in Live
        PROVE  /\ items'[i].kind = items[i].kind
               /\ items'[i].fetched /\ i \notin Waiting' =>
                    items'[i].content = inside[Names[i]]
    BY <1>4, <1>8, <2>1 DEF Faithful, Live
  <2> QED
    BY <1>1, <1>7, <2>1, FaithfulKept
<1> QED
  BY <1>5, <1>9

\* The entry whose rename, delete or create reaches the server is live, and
\* what it is called is the name of the request.
LEMMA ByItsName ==
  ASSUME BaseInv, Orderly, NEW o \in UnderWay, ops[o].at = "sent",
         ops[o].asks \in {"rename", "delete", "createin"}
  PROVE  /\ ops[o].id \in Live /\ Names[ops[o].id] = ops[o].from
         /\ ops[o].from \in Name
<1>1. NamesKnown
  BY NamesAreKnown
<1>2. /\ ops[o].id \in DOMAIN items /\ Shown(ops[o].id)
      /\ ops[o].from = items[ops[o].id].name
  BY DEF Orderly
<1>3. \A p \in UnderWay :
        ~(/\ ops[p].at = "answered" /\ ops[p].id = ops[o].id
          /\ ops[p].asks \in {"rename", "delete"})
  BY DEF Orderly
<1>4. Names[ops[o].id] = items[ops[o].id].name
  BY <1>1, <1>2, <1>3 DEF NamesKnown
<1> QED
  BY <1>1, <1>2, <1>3, <1>4 DEF NamesKnown, Live

\* The server's steps.
LEMMA ServerFaithful ==
  ASSUME BaseInv, Orderly, Faithful, ServerStep, slips' = {}
  PROVE  (Orderly /\ Faithful)'
<1>1. /\ UnderWay' = UnderWay /\ items' = items
      /\ \A p \in UnderWay :
           /\ ops'[p].asks = ops[p].asks /\ ops'[p].id = ops[p].id
           /\ ops'[p].from = ops[p].from /\ ops'[p].to = ops[p].to
  BY ServerKeeps
<1>2. Orderly' /\ Waiting' = Waiting
  BY <1>1 DEF Orderly, Shown, Waiting
<1>3. NamesKnown /\ NamesKnown'
  <2>1. BaseInv'
    BY ServerBase
  <2> QED
    BY <1>2, <2>1, NamesAreKnown, PTL
<1>4. /\ OpsInv /\ DiskInv
      /\ \A p \in UnderWay : RequestType(ops[p], nextId)
      /\ \A id \in Live : Names[id] \in Name /\ Names'[id] \in Name
  BY <1>1, <1>3 DEF BaseInv, OpsInv, NamesKnown, Live
<1>5. PICK o \in UnderWay :
        \/ ServerLists(o) \/ ServerListsDirectory(o)
        \/ \E n \in Name : ServerCreates(o, n)
        \/ \E c \in Child : ServerCreatesIn(o, c)
        \/ ServerRenames(o) \/ ServerDeletes(o)
  BY DEF ServerStep
<1>6. /\ ops[o].at = "sent" /\ ops'[o].at = "answered"
      /\ \A p \in UnderWay \ {o} : ops'[p].at = ops[p].at
  <2>1. ops[o].at = "sent" /\ \E got, in : Served(o, got, in)
    BY <1>5 DEF ServerLists, ServerListsDirectory, ServerCreates,
                ServerCreatesIn, ServerRenames, ServerDeletes
  <2>2. PICK got, in : Served(o, got, in)
    BY <2>1
  <2> QED
    BY <1>4, <2>1, <2>2, ServedOps DEF Kept
\* Only a rename or a delete tells something of an entry.
<1>7. ASSUME ops[o].asks \notin {"rename", "delete"}
      PROVE  Live' = Live /\ \A id \in Live : Names'[id] = Names[id]
  BY <1>1, <1>3, <1>6, <1>7, SameAnswers
\* And nothing of another entry.
<1>8. ASSUME ops[o].asks \in {"rename", "delete"}
      PROVE  /\ \A id \in Live \ {ops[o].id} : /\ id \in Live'
                                               /\ Names'[id] = Names[id]
             /\ Live' \subseteq Live
  <2>1. ASSUME NEW id \in DOMAIN items, id # ops[o].id
        PROVE  /\ id \in Live <=> id \in Live'
               /\ Names'[id] = Names[id]
    <3>1. \A p \in UnderWay : ops[p].id = id => ops'[p].at = ops[p].at
      BY <1>6, <2>1
    <3>2. id \in Live <=> id \in Live'
      BY <1>1, <3>1 DEF Live, Shown
    <3>3. Names'[id] = Names[id]
      <4>1. CASE \E p \in UnderWay : /\ ops[p].at = "answered" /\ ops[p].id = id
                                     /\ ops[p].asks = "rename"
        BY <1>1, <1>3, <3>1, <4>1 DEF NamesKnown
      <4>2. CASE \A p \in UnderWay : ~(/\ ops[p].at = "answered" /\ ops[p].id = id
                                       /\ ops[p].asks = "rename")
        BY <1>1, <1>3, <3>1, <4>2, <2>1 DEF NamesKnown
      <4> QED
        BY <4>1, <4>2
    <3> QED
      BY <3>2, <3>3
  <2>2. ops[o].id \in Live' => ops[o].id \in Live
    BY <1>1, <1>6 DEF Live, Shown
  <2> QED
    BY <1>1, <2>1, <2>2 DEF Live
<1>9. CASE ServerLists(o) \/ \E n \in Name : ServerCreates(o, n)
  <2>1. ops[o].asks \notin OfEntry
    BY <1>9 DEF ServerLists, ServerCreates, OfEntry
  <2> QED
    BY <1>3, <2>1 DEF NamesKnown
<1>10. CASE ServerListsDirectory(o)
  <2>1. ops[o].asks = "listdir" /\ UNCHANGED diskVars
    BY <1>10 DEF ServerListsDirectory
  <2>2. Live' = Live /\ \A id \in Live : Names'[id] = Names[id]
    BY <1>7, <2>1
  <2>3. Faithful'
    BY <1>1, <1>2, <2>1, <2>2, FaithfulKept DEF Faithful
  <2> QED
    BY <1>2, <2>3
<1>11. ASSUME NEW c \in Child, ServerCreatesIn(o, c)
       PROVE  Faithful'
  <2> DEFINE e == ops[o].id
  <2>1. /\ ops[o].asks = "createin" /\ disk' = disk
        /\ inside' = [inside EXCEPT ![ops[o].from] = @ \cup {c}]
    BY <1>11 DEF ServerCreatesIn, Slip
  <2>2. Live' = Live /\ \A id \in Live : Names'[id] = Names[id]
    BY <1>7, <2>1
  <2>3. e \in Live /\ Names[e] = ops[o].from /\ e \in Waiting
    BY <1>6, <2>1, ByItsName DEF Waiting, Live
  <2>4. ASSUME NEW id \in Live, id # e
        PROVE  inside'[Names[id]] = inside[Names[id]]
    BY <1>4, <2>1, <2>3, <2>4 DEF Faithful, DiskInv
  <2>5. Existing' = Existing
    BY <2>1 DEF Existing
  <2> QED
    BY <1>1, <1>2, <2>1, <2>2, <2>3, <2>4, <2>5 DEF Faithful
<1>12. CASE ServerRenames(o)
  <2> DEFINE e == ops[o].id
             from == ops[o].from
             to == ops[o].to
  <2>1. ops[o].asks = "rename" /\ to \in Name
    BY <1>4, <1>12 DEF ServerRenames, RequestType
  <2>2. e \in Live /\ Names[e] = from /\ from \in Name
    BY <1>6, <2>1, ByItsName
  <2>3. Names'[e] = to /\ Live' = Live
    <3>1. Names'[e] = to
      BY <1>1, <1>3, <1>6, <2>1 DEF NamesKnown
    <3>2. e \in Live'
      BY <1>1, <1>2, <2>1 DEF Live, Orderly, Shown
    <3> QED
      BY <1>8, <2>1, <3>1, <3>2
  <2>4. /\ \A id \in Live \ {e} : Names'[id] = Names[id] /\ Names[id] # from
        /\ e \notin Waiting
    <3>1. \A id \in Live \ {e} : Names'[id] = Names[id]
      BY <1>8, <2>1
    <3>2. \A id \in Live \ {e} : Names[id] # from
      BY <2>2 DEF Faithful
    <3>3. e \notin Waiting
      BY <2>1 DEF Waiting, Orderly
    <3> QED
      BY <3>1, <3>2, <3>3
  <2>5. CASE from = to
    <3>1. UNCHANGED diskVars
      BY <1>12, <2>5 DEF ServerRenames, CanRename
    <3>2. \A id \in Live : Names'[id] = Names[id]
      BY <2>2, <2>3, <2>4, <2>5
    <3>3. \A id \in Live : items[id].fetched /\ id \notin Waiting =>
            items[id].content = inside[Names[id]]
      BY DEF Faithful
    <3> QED
      BY <1>1, <1>2, <2>3, <3>1, <3>2, <3>3, FaithfulKept
  <2>6. CASE from # to
    <3>1. /\ disk[to] = "none" /\ disk[from] # "none"
          /\ disk' = [disk EXCEPT ![to] = disk[from], ![from] = "none"]
          /\ inside' = [inside EXCEPT ![to] = inside[from], ![from] = {}]
      BY <1>12, <2>6 DEF ServerRenames, CanRename, Slip
    <3>2. /\ disk'[to] = disk[from] /\ disk'[from] = "none"
          /\ inside'[to] = inside[from]
          /\ \A n \in Name \ {from, to} : /\ disk'[n] = disk[n]
                                          /\ inside'[n] = inside[n]
      BY <1>4, <2>1, <2>2, <2>6, <3>1 DEF DiskInv
    <3>3. \A id \in Live : disk[Names[id]] = items[id].kind
                           /\ items[id].kind # "none"
      <4>1. \A id \in DOMAIN items : items[id] \in Item
        BY DEF BaseInv, ItemsInv
      <4>2. \A id \in DOMAIN items : items[id].kind # "none"
        BY <4>1 DEF Item
      <4> QED
        BY <4>2 DEF Faithful, Live
    <3>4. \A id \in Live \ {e} :
            /\ Names[id] \in Name \ {from, to} /\ Names'[id] = Names[id]
            /\ disk'[Names[id]] = disk[Names[id]]
            /\ inside'[Names[id]] = inside[Names[id]]
      <4> SUFFICES ASSUME NEW id \in Live \ {e}
                   PROVE  /\ Names[id] \in Name \ {from, to}
                          /\ Names'[id] = Names[id]
                          /\ disk'[Names[id]] = disk[Names[id]]
                          /\ inside'[Names[id]] = inside[Names[id]]
        OBVIOUS
      <4>1. Names[id] # to
        BY <3>1, <3>3
      <4>2. Names[id] \in Name \ {from, to}
        BY <1>4, <2>4, <4>1
      <4> QED
        BY <2>4, <3>2, <4>2
    <3>5. \A id \in Live' : disk'[Names'[id]] = items'[id].kind
      BY <1>1, <2>2, <2>3, <3>2, <3>3, <3>4
    <3>6. \A n \in Existing' : \E id \in Live' : Names'[id] = n
      <4> SUFFICES ASSUME NEW n \in Existing'
                   PROVE  \E id \in Live' : Names'[id] = n
        OBVIOUS
      <4>1. n = to \/ n \in Existing \ {from, to}
        BY <3>2 DEF Existing
      <4>2. CASE n = to
        BY <2>2, <2>3, <4>2
      <4>3. CASE n \in Existing \ {from, to}
        <5>1. PICK id \in Live : Names[id] = n
          BY <4>3 DEF Faithful
        <5> QED
          BY <2>2, <2>3, <3>4, <4>3, <5>1
      <4> QED
        BY <4>1, <4>2, <4>3
    <3>7. \A i, j \in Live' : Names'[i] = Names'[j] => i = j
      <4>1. \A i, j \in Live : Names[i] = Names[j] => i = j
        BY DEF Faithful
      <4> QED
        BY <2>3, <3>4, <4>1
    <3>8. \A id \in Live' : items'[id].fetched /\ id \notin Waiting' =>
            items'[id].content = inside'[Names'[id]]
      <4>1. \A id \in Live : items[id].fetched /\ id \notin Waiting =>
              items[id].content = inside[Names[id]]
        BY DEF Faithful
      <4> QED
        BY <1>1, <1>2, <2>2, <2>3, <3>2, <3>4, <4>1
    <3> QED
      BY <1>2, <3>5, <3>6, <3>7, <3>8 DEF Faithful
  <2> QED
    BY <2>5, <2>6
<1>13. CASE ServerDeletes(o)
  <2> DEFINE e == ops[o].id
             from == ops[o].from
  <2>1. /\ ops[o].asks = "delete" /\ inside' = inside
        /\ disk' = [disk EXCEPT ![from] = "none"]
    BY <1>13 DEF ServerDeletes, Slip
  <2>2. e \in Live /\ Names[e] = from /\ from \in Name
    BY <1>6, <2>1, ByItsName
  <2>3. Live' = Live \ {e}
    <3>1. e \notin Live'
      BY <1>1, <1>6, <2>1 DEF Live
    <3> QED
      BY <1>8, <2>1, <3>1
  <2>4. \A id \in Live' : /\ id \in Live /\ Names'[id] = Names[id]
                          /\ Names[id] \in Name \ {from}
    <3>1. \A i, j \in Live : Names[i] = Names[j] => i = j
      BY DEF Faithful
    <3> QED
      BY <1>4, <1>8, <2>1, <2>2, <2>3, <3>1
  <2>5. disk'[from] = "none" /\ \A n \in Name \ {from} : disk'[n] = disk[n]
    BY <1>4, <2>1, <2>2 DEF DiskInv
  <2>6. \A n \in Existing' : n \in Existing \ {from}
    BY <2>5 DEF Existing
  <2>7. \A n \in Existing' : \E id \in Live' : Names'[id] = n
    <3> SUFFICES ASSUME NEW n \in Existing'
                 PROVE  \E id \in Live' : Names'[id] = n
      OBVIOUS
    <3>1. PICK id \in Live : Names[id] = n
      BY <2>6 DEF Faithful
    <3> QED
      BY <2>2, <2>3, <2>4, <2>6, <3>1
  <2> QED
    BY <1>1, <1>2, <2>1, <2>4, <2>5, <2>7 DEF Faithful
<1> QED
  BY <1>2, <1>5, <1>9, <1>10, <1>11, <1>12, <1>13

\* The answers that entries take.
LEMMA AnswerFaithful ==
  ASSUME BaseInv, Orderly, Faithful, NEW o \in UnderWay, slips' = {},
         BaseInv',
         \/ RenameAnswered(o) \/ DeleteAnswered(o)
         \/ CreateInAnswered(o) \/ DirectoryAnswered(o)
  PROVE  (Orderly /\ Faithful)'
<1> DEFINE e == ops[o].id
<1>1. /\ OpsInv /\ begun \in 1..MaxOps /\ NamesKnown /\ CurrentInv
      /\ RequestType(ops[o], nextId)
      /\ items = [id \in DOMAIN items |-> items[id]]
      /\ \A id \in DOMAIN items : items[id] \in Item
  BY NamesAreKnown DEF BaseInv, ItemsInv, OpsInv
<1>2. e \in DOMAIN items /\ Shown(e) /\ ops[o].from = items[e].name
  BY DEF Orderly
<1>3. /\ DOMAIN items' = DOMAIN items
      /\ \A p \in UnderWay \ {o} : p \in UnderWay' /\ ops'[p] = ops[p]
  BY AnswerFollows
<1>4. ASSUME ops' = Ended(o)
      PROVE  UnderWay' = UnderWay \ {o}
  BY <1>1, <1>4, EndedOps DEF UnderWay
<1>5. /\ UNCHANGED diskVars /\ ops[o].at = "answered"
      /\ \A id \in DOMAIN items \ {e} : items'[id] = items[id]
  <2>1. UNCHANGED items \/ \E item : items' = [items EXCEPT ![e] = item]
    BY <1>2 DEF RenameAnswered, DeleteAnswered, CreateInAnswered,
                DirectoryAnswered, ToEntry
  <2> QED
    BY <1>1, <2>1 DEF RenameAnswered, DeleteAnswered, CreateInAnswered,
                      DirectoryAnswered
\* A renamed or deleted entry has no other request.
<1>6. ASSUME RenameAnswered(o) \/ DeleteAnswered(o)
      PROVE  /\ Orderly' /\ UnderWay' = UnderWay \ {o}
             /\ \A p \in UnderWay' : ops[p].id # e
  <2>1. ops[o].asks \in {"rename", "delete"} /\ ops' = Ended(o)
    BY <1>6 DEF RenameAnswered, DeleteAnswered
  <2>2. UnderWay' = UnderWay \ {o}
    BY <1>4, <2>1
  <2>3. \A p \in UnderWay' : ops[p].id # e
    BY <2>1, <2>2 DEF Orderly
  <2>4. \A p \in UnderWay' : /\ ops'[p] = ops[p] /\ ops[p].id \in DOMAIN items
                             /\ items'[ops[p].id] = items[ops[p].id]
    BY <1>3, <1>5, <2>2, <2>3 DEF Orderly
  <2> QED
    BY <1>3, <2>2, <2>3, <2>4 DEF Orderly, Shown
\* What the others are called, and whether they are live, stays.
<1>7. ASSUME RenameAnswered(o) \/ DeleteAnswered(o)
      PROVE  /\ NamesKnown'
             /\ \A id \in DOMAIN items \ {e} : /\ Names'[id] = Names[id]
                                               /\ id \in Live <=> id \in Live'
                                               /\ id \in Waiting <=> id \in Waiting'
  <2>1. /\ Orderly' /\ UnderWay' = UnderWay \ {o}
        /\ \A p \in UnderWay' : ops[p].id # e
    BY <1>6, <1>7
  <2>2. NamesKnown'
    BY <2>1, NamesAreKnown, PTL
  <2>3. ASSUME NEW id \in DOMAIN items \ {e}
        PROVE  /\ Names'[id] = Names[id]
               /\ id \in Live <=> id \in Live'
               /\ id \in Waiting <=> id \in Waiting'
    <3>1. /\ items'[id] = items[id] /\ id \in DOMAIN items'
          /\ \A p \in UnderWay : ops[p].id = id => p \in UnderWay'
          /\ \A p \in UnderWay' : p \in UnderWay /\ ops'[p] = ops[p]
      BY <1>3, <1>5, <2>1
    <3>2. (id \in Live <=> id \in Live') /\ (id \in Waiting <=> id \in Waiting')
      BY <3>1 DEF Live, Shown, Waiting
    <3>3. Names'[id] = Names[id]
      <4>1. CASE \E p \in UnderWay : /\ ops[p].at = "answered" /\ ops[p].id = id
                                     /\ ops[p].asks = "rename"
        BY <1>1, <2>2, <3>1, <4>1 DEF NamesKnown
      <4>2. CASE \A p \in UnderWay : ~(/\ ops[p].at = "answered" /\ ops[p].id = id
                                       /\ ops[p].asks = "rename")
        BY <1>1, <2>2, <3>1, <4>2 DEF NamesKnown
      <4> QED
        BY <4>1, <4>2
    <3> QED
      BY <3>2, <3>3
  <2> QED
    BY <2>2, <2>3
<1>8. CASE RenameAnswered(o)
  <2>1. /\ ops[o].asks = "rename"
        /\ items' = [items EXCEPT ![e] = [items[e] EXCEPT !.name = ops[o].to,
                                                          !.editing = FALSE]]
    BY <1>2, <1>8 DEF RenameAnswered, ToEntry
  <2>2. /\ items'[e].name = ops[o].to /\ items'[e].kind = items[e].kind
        /\ items'[e].deleted = items[e].deleted
        /\ items'[e].fetched = items[e].fetched
        /\ items'[e].content = items[e].content
    BY <1>1, <1>2, <2>1 DEF Item
  <2>3. /\ Orderly' /\ UnderWay' = UnderWay \ {o} /\ NamesKnown'
        /\ \A p \in UnderWay' : ops[p].id # e /\ ops'[p] = ops[p]
    BY <1>3, <1>6, <1>7, <1>8
  <2>4. Names'[e] = Names[e]
    <3>1. Names[e] = ops[o].to
      BY <1>1, <1>5, <2>1 DEF NamesKnown
    <3>2. Names'[e] = items'[e].name
      BY <1>2, <1>3, <2>3 DEF NamesKnown
    <3> QED
      BY <2>2, <3>1, <3>2
  <2>5. e \in Live /\ e \in Live' /\ e \notin Waiting /\ e \notin Waiting'
    <3>1. \A p \in UnderWay : ops[p].id = e => p = o
      BY <2>1 DEF Orderly
    <3>2. \A p \in UnderWay : ops[p].id = e =>
            ops[p].asks \notin {"delete", "listdir", "createin"}
      BY <2>1, <3>1
    <3>3. e \in Live
      BY <1>2, <3>2 DEF Live
    <3>4. e \notin Waiting
      BY <3>2 DEF Waiting
    <3>5. e \in DOMAIN items' /\ ~items'[e].deleted
      BY <1>2, <1>3, <2>2 DEF Shown
    <3>6. e \in Live'
      BY <2>3, <3>5 DEF Live, Shown
    <3>7. e \notin Waiting'
      BY <2>3 DEF Waiting
    <3> QED
      BY <3>3, <3>4, <3>6, <3>7
  <2>6. Live' = Live
    BY <1>3, <1>7, <1>8, <2>5 DEF Live
  <2>7. ASSUME NEW id \in Live
        PROVE  /\ Names'[id] = Names[id] /\ items'[id].kind = items[id].kind
               /\ items'[id].fetched /\ id \notin Waiting' =>
                    items'[id].content = inside[Names[id]]
    <3>1. id \in DOMAIN items
      BY DEF Live
    <3>2. items[id].fetched /\ id \notin Waiting =>
            items[id].content = inside[Names[id]]
      BY DEF Faithful
    <3>3. CASE id = e
      BY <2>2, <2>4, <2>5, <3>2, <3>3
    <3>4. CASE id # e
      BY <1>5, <1>7, <1>8, <3>1, <3>2, <3>4
    <3> QED
      BY <3>3, <3>4
  <2>8. Faithful'
    BY <1>5, <2>6, <2>7, FaithfulKept
  <2> QED
    BY <2>3, <2>8
<1>9. CASE DeleteAnswered(o)
  <2>1. /\ ops[o].asks = "delete"
        /\ items' = [items EXCEPT ![e] = [items[e] EXCEPT !.deleted = TRUE]]
    BY <1>2, <1>9 DEF DeleteAnswered, ToEntry
  <2>2. items'[e].deleted
    BY <1>1, <1>2, <2>1 DEF Item
  <2>3. e \notin Live /\ e \notin Live'
    BY <1>2, <1>5, <2>1, <2>2 DEF Live, Shown
  <2>4. Live' = Live
    BY <1>3, <1>7, <1>9, <2>3 DEF Live
  <2>5. ASSUME NEW id \in Live
        PROVE  /\ Names'[id] = Names[id] /\ items'[id].kind = items[id].kind
               /\ items'[id].fetched /\ id \notin Waiting' =>
                    items'[id].content = inside[Names[id]]
    <3>1. id \in DOMAIN items \ {e}
      BY <2>3 DEF Live
    <3>2. items[id].fetched /\ id \notin Waiting =>
            items[id].content = inside[Names[id]]
      BY DEF Faithful
    <3> QED
      BY <1>5, <1>7, <1>9, <3>1, <3>2
  <2>6. Faithful'
    BY <1>5, <2>4, <2>5, FaithfulKept
  <2> QED
    BY <1>6, <1>9, <2>6
<1>10. CASE CreateInAnswered(o)
  <2> DEFINE r == FetchDirectory(e, ops[o].from)
             q == begun + 1
  <2>1. /\ r.at = "sent" /\ r.asks = "listdir" /\ r.id = e /\ r.from = ops[o].from
        /\ ops[o].asks = "createin" /\ items' = items
    BY <1>10 DEF CreateInAnswered, FetchDirectory, Requested
  <2>2. Send(Ended(o), r)
    BY <1>10 DEF CreateInAnswered
  <2> HIDE DEF r, q
  <2>3. /\ UnderWay' = (UnderWay \ {o}) \cup {q} /\ ops'[q] = r
        /\ q \notin UnderWay \ {o}
    <3>1. /\ DOMAIN Ended(o) = UnderWay \ {o}
          /\ Ended(o) = [p \in DOMAIN Ended(o) |-> Ended(o)[p]]
          /\ DOMAIN Ended(o) \subseteq 1..begun
      BY <1>1, EndedOps
    <3> QED
      BY <1>1, <2>2, <3>1, SentOps DEF q
  \* The new request takes the place of the one that has ended.
  <2>4. \A p \in UnderWay : ops[p].asks \in {"rename", "delete"} =>
          ops[p].id # e
    BY <2>1 DEF Orderly
  <2>5. Orderly'
    <3>1. \A p \in UnderWay' :
            /\ ops'[p].id \in DOMAIN items' /\ Shown(ops'[p].id)
            /\ ops'[p].from = items'[ops'[p].id].name
      BY <1>2, <1>3, <2>1, <2>3 DEF Orderly
    <3>2. \A p, s \in UnderWay' :
            ops'[p].id = ops'[s].id /\ ops'[p].asks \in {"rename", "delete"} =>
              p = s
      BY <1>3, <2>1, <2>3, <2>4 DEF Orderly
    <3> QED
      BY <2>1, <3>1, <3>2 DEF Orderly, Shown
  <2>6. NamesKnown'
    BY <2>5, NamesAreKnown, PTL
  <2>7. Live' = Live /\ \A id \in Live : Names'[id] = Names[id]
    BY <1>1, <1>3, <2>1, <2>3, <2>6, SameAnswers
  <2>8. Waiting \subseteq Waiting'
    BY <1>3, <2>1, <2>3 DEF Waiting
  <2>9. Faithful'
    BY <1>5, <2>1, <2>7, <2>8, FaithfulKept DEF Faithful
  <2> QED
    BY <2>5, <2>9
<1>11. CASE DirectoryAnswered(o)
  <2>1. /\ ops[o].asks = "listdir" /\ ops' = Ended(o)
        /\ items' = [items EXCEPT ![e].content = ops[o].inside,
                                  ![e].fetched = TRUE]
    BY <1>2, <1>11 DEF DirectoryAnswered
  <2>2. ops[o].inside = inside[ops[o].from]
    <3>1. ~ops[o].old
      BY <1>11 DEF DirectoryAnswered, Slip
    <3> QED
      BY <1>1, <1>5, <2>1, <3>1 DEF CurrentInv
  <2>3. /\ items'[e].name = items[e].name /\ items'[e].kind = items[e].kind
        /\ items'[e].deleted = items[e].deleted
        /\ items'[e].content = ops[o].inside
    BY <1>1, <1>2, <2>1 DEF Item
  <2>4. UnderWay' = UnderWay \ {o} /\ \A p \in UnderWay' : ops'[p] = ops[p]
    BY <1>3, <1>4, <2>1
  <2>5. \A id \in DOMAIN items : /\ items'[id].name = items[id].name
                                 /\ items'[id].deleted = items[id].deleted
                                 /\ items'[id].kind = items[id].kind
    BY <1>5, <2>3
  <2>6. Orderly'
    BY <1>3, <2>4, <2>5 DEF Orderly, Shown
  <2>7. NamesKnown'
    BY <2>6, NamesAreKnown, PTL
  <2>8. Live' = Live /\ \A id \in Live : Names'[id] = Names[id]
    BY <1>1, <1>3, <2>1, <2>4, <2>5, <2>7, SameAnswers
  <2>9. Names[e] = ops[o].from
    <3>1. \A p \in UnderWay : ~(/\ ops[p].at = "answered" /\ ops[p].id = e
                                /\ ops[p].asks = "rename")
      BY <2>1 DEF Orderly
    <3> QED
      BY <1>1, <1>2, <3>1 DEF NamesKnown
  <2>10. \A id \in DOMAIN items \ {e} : id \in Waiting => id \in Waiting'
    BY <1>3, <2>4 DEF Waiting
  <2>11. ASSUME NEW id \in Live
         PROVE  items'[id].fetched /\ id \notin Waiting' =>
                  items'[id].content = inside[Names[id]]
    <3>1. id \in DOMAIN items
      BY DEF Live
    <3>2. items[id].fetched /\ id \notin Waiting =>
            items[id].content = inside[Names[id]]
      BY DEF Faithful
    <3>3. CASE id = e
      BY <2>2, <2>3, <2>9, <3>3
    <3>4. CASE id # e
      BY <1>5, <2>10, <3>1, <3>2, <3>4
    <3> QED
      BY <3>3, <3>4
  <2>12. Faithful'
    <3>1. \A id \in Live : items'[id].kind = items[id].kind
      BY <2>5 DEF Live
    <3> QED
      BY <1>5, <2>8, <2>11, <3>1, FaithfulKept
  <2> QED
    BY <2>6, <2>12
<1> QED
  BY <1>8, <1>9, <1>10, <1>11

-----------------------------------------------------------------------------
(* The invariant, and what it says of the list when nothing is under way *)

LEMMA ListStep ==
  ASSUME BaseInv, ListInv, BaseInv', Next
  PROVE  ListInv'
<1> SUFFICES ASSUME slips' = {}
             PROVE  ToReload' \/ Doomed' \/ (Orderly /\ Faithful)'
  BY DEF ListInv
<1>1. ToReload \/ Doomed \/ (Orderly /\ Faithful)
  BY SlipsStay DEF ListInv
<1>2. CASE \E o \in UnderWay : ListAnswered(o)
  BY <1>2, NewListInv
<1>3. CASE \A o \in UnderWay : ~ListAnswered(o)
  <2>1. CASE ToReload \/ Doomed
    BY <1>3, <2>1, ToComeStays
  <2>2. CASE Orderly /\ Faithful
    <3>1. CASE Command
      BY <2>2, <3>1, CommandFaithful
    <3>2. CASE ServerStep
      BY <2>2, <3>2, ServerFaithful
    <3>3. CASE Answer
      <4>1. NamesKnown
        BY <2>2, NamesAreKnown
      <4>2. PICK o \in UnderWay :
              \/ CreateAnswered(o) \/ NotebookAnswered(o)
              \/ RenameAnswered(o) \/ DeleteAnswered(o)
              \/ CreateInAnswered(o) \/ DirectoryAnswered(o)
              \/ Lost(o)
        BY <1>3, <3>3 DEF Answer
      <4>3. ~CreateAnswered(o) /\ ~NotebookAnswered(o)
        BY <4>1 DEF NamesKnown, OfEntry, CreateAnswered, NotebookAnswered
      <4>4. ~Lost(o)
        BY DEF Lost, Slip
      <4> QED
        BY <2>2, <4>2, <4>3, <4>4, AnswerFaithful
    <3> QED
      BY <3>1, <3>2, <3>3 DEF Next
  <2> QED
    BY <1>1, <2>1, <2>2
<1> QED
  BY <1>2, <1>3

THEOREM IInvHolds == Spec => []IInv
<1>1. Init => IInv
  <2> SUFFICES ASSUME Init
               PROVE  IInv
    OBVIOUS
  <2>1. ToReload
    BY DEF Init, ToReload, UnderWay, FetchData, Requested, Reloading
  <2> QED
    BY <2>1, BaseInit DEF IInv, ListInv
<1>2. IInv /\ [Next]_vars => IInv'
  <2> SUFFICES ASSUME IInv, [Next]_vars
               PROVE  IInv'
    OBVIOUS
  <2>1. BaseInv'
    BY BaseStep DEF IInv
  <2>2. CASE Next
    BY <2>1, <2>2, ListStep DEF IInv
  <2>3. CASE UNCHANGED vars
    <3>1. UNCHANGED <<disk, inside, items, ops, slips>>
      BY <2>3 DEF vars, diskVars
    <3>2. /\ UnderWay' = UnderWay /\ Names' = Names /\ Live' = Live
          /\ Waiting' = Waiting /\ Existing' = Existing
      BY <3>1 DEF UnderWay, Names, Live, Shown, Waiting, Existing
    <3>3. /\ (ToReload => ToReload') /\ (Doomed => Doomed')
          /\ (Orderly => Orderly') /\ (Faithful => Faithful')
      BY <3>1, <3>2 DEF ToReload, Doomed, Orderly, Shown, Faithful
    <3> QED
      BY <2>1, <3>1, <3>3 DEF IInv, ListInv
  <2> QED
    BY <2>2, <2>3
<1> QED
  BY <1>1, <1>2, PTL DEF Spec

\* When every request has been answered and none of the slips happened, the
\* list shows exactly what the directory holds, and each open directory what
\* is in it.
THEOREM ListStaysFaithful == Spec => []ListFaithful
<1>1. IInv => ListFaithful
  <2> SUFFICES ASSUME IInv, slips = {}, UnderWay = {},
                      \A id \in Entries : items[id].text = items[id].name
               PROVE  /\ {<<items[id].text, items[id].kind>> : id \in Entries}
                           = {<<n, disk[n]>> : n \in Existing}
                      /\ \A i, j \in Entries :
                           items[i].text = items[j].text => i = j
                      /\ \A id \in Entries : items[id].open /\ items[id].fetched =>
                           items[id].content = inside[items[id].name]
    BY DEF ListFaithful
  <2>1. Faithful
    BY DEF IInv, ListInv, ToReload, Doomed
  <2>2. Live = Entries /\ Waiting = {} /\ Entries \subseteq DOMAIN items
    BY DEF Live, Waiting, Entries
  <2>3. \A id \in Entries : Names[id] = items[id].name
    BY <2>2 DEF Names
  <2>4. /\ \A id \in Entries : disk[items[id].text] = items[id].kind
        /\ \A n \in Existing : \E id \in Entries : items[id].text = n
        /\ \A i, j \in Entries : items[i].text = items[j].text => i = j
        /\ \A id \in Entries : items[id].fetched =>
             items[id].content = inside[items[id].name]
    BY <2>1, <2>2, <2>3 DEF Faithful
  <2>5. \A id \in Entries : items[id].text \in Existing
    <3>1. \A id \in Entries : /\ items[id].text \in Name
                              /\ items[id].kind \in {"file", "directory"}
      BY <2>2 DEF IInv, BaseInv, ItemsInv, Item
    <3> QED
      BY <2>4, <3>1 DEF Existing
  <2> QED
    BY <2>4, <2>5
<1> QED
  BY <1>1, IInvHolds, PTL
=============================================================================

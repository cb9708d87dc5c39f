--------------------------- MODULE AccessControl ---------------------------
(***************************************************************************)
(* What the roles of Roles are asked for and what hangs on them: the       *)
(* menus, open to whoever has the permissions linked to them, which three  *)
(* queries decide each in its own way; the features of the subscription    *)
(* plans with the permissions they include; and the share links of         *)
(* PermissionsService with their limit of views.  Here too every statement *)
(* stands alone: a menu is relinked by deleting its rows and inserting new *)
(* ones, a feature is deleted before its permissions, and a view is        *)
(* allowed by one statement and counted by another.                        *)
(***************************************************************************)
EXTENDS Roles

CONSTANTS
    Menus,
    Features,      \* ids the table of features may hand out
    SeedFeatures,  \* the features that are there at first
    Links,     \* share links
    MaxViews,  \* bound: the largest max_views
    MaxEdits,  \* bound: requests for these that are made
    MaxMixed   \* bound: requests of both kinds, where both are made

ASSUME ViewsAssumption == MaxViews \in Nat /\ MaxEdits \in Nat /\ MaxMixed \in Nat
ASSUME FeaturesAssumption == SeedFeatures \subseteq Features

VARIABLES
    needs,     \* needs[m]: the permissions menu m requires
    offers,    \* offers[m]: those linked to it with is_required = 0
    live,      \* features with is_deleted = 0
    born,      \* ids that have a row
    included,  \* subscription_feature_permissions with is_deleted = 0
    link,      \* link[k]: the resource_shares row
    edit,      \* the requests in flight
    edits,     \* how many were made
    asked,     \* history: what the last request for a menu asked of it
    muddled,   \* history: menus two requests wrote at once, or one broke off
    strayed,   \* history: features used by another request while one deleted them
    late       \* history: late[k]: visits that began during another one

ownVars == <<needs, offers, live, born, included, link, edit, edits, asked, muddled, strayed,
             late>>
accessVars == <<rolesVars, ownVars>>

-----------------------------------------------------------------------------
NoLink == [made |-> FALSE, max |-> 0, views |-> 0, closed |-> FALSE]
Link == [made : BOOLEAN,
         max : 0..MaxViews,   \* 0: no limit
         views : Nat,
         closed : BOOLEAN]    \* revoked, or expired

MenuEdit == [pc : {"link.update", "bulk.delete", "bulk.insert"}, menu : Menus,
             need : SUBSET Perms, may : SUBSET Perms]
FeatureEdit == [pc : {"feature.flag", "feature.rows", "include.check", "include.insert",
                      "replace.delete", "replace.insert"},
                feature : Features, add : SUBSET Perms, drop : SUBSET (Features \X Perms)]
Visit == [pc : {"visit.count"}, link : Links]

AccessTypeOK ==
    /\ RolesTypeOK
    /\ needs \in [Menus -> SUBSET Perms] /\ offers \in [Menus -> SUBSET Perms]
    /\ \A m \in Menus : needs[m] \cap offers[m] = {}
    /\ live \subseteq born /\ born \subseteq Features /\ included \subseteq Features \X Perms
    /\ link \in [Links -> Link]
    /\ edit \in [Slots -> MenuEdit \cup FeatureEdit \cup Visit \cup {Idle}]
    /\ edits \in 0..MaxEdits
    /\ asked \in [Menus -> (SUBSET Perms) \X (SUBSET Perms)]
    /\ muddled \subseteq Menus /\ strayed \subseteq Features
    /\ late \in [Links -> Nat]

AccessInit ==
    /\ Init
    /\ needs = [m \in Menus |-> {}] /\ offers = [m \in Menus |-> {}]
    /\ live = SeedFeatures /\ born = SeedFeatures /\ included = {}
    /\ link = [k \in Links |-> NoLink]
    /\ edit = [s \in Slots |-> Idle] /\ edits = 0
    /\ asked = [m \in Menus |-> <<{}, {}>>]
    /\ muddled = {} /\ strayed = {}
    /\ late = [k \in Links |-> 0]

In(s, pc) == edit[s].pc = pc
Enter(s, e) ==
    /\ edit[s] = Idle
    /\ edits < MaxEdits /\ (calls = 0 \/ calls + edits < MaxMixed)
    /\ edit' = [edit EXCEPT ![s] = e]
    /\ edits' = edits + 1
    /\ UNCHANGED rolesVars
Move(s, pc) == edit' = [edit EXCEPT ![s].pc = pc] /\ UNCHANGED <<rolesVars, edits>>
Leave(s) == edit' = [edit EXCEPT ![s] = Idle] /\ UNCHANGED <<rolesVars, edits>>

MenuState == <<needs, offers, asked, muddled>>
FeatureState == <<live, born, included, strayed>>
LinkState == <<link, late>>

-----------------------------------------------------------------------------
MenuPcs == {"link.update", "bulk.delete", "bulk.insert"}
EditsMenu(s, m) == edit[s].pc \in MenuPcs /\ edit[s].menu = m
Muddle(m) == muddled' = muddled \cup {n \in {m} : \E t \in Slots : EditsMenu(t, n)}
Ask(m, need, may) == asked' = [asked EXCEPT ![m] = <<need, may>>]

\* linkMenuPermission; the controller's isRequired || true makes every link a
\* requirement.
LinkMenu(s, m, p) ==
    /\ p \notin needs[m] \cup offers[m]
    /\ Enter(s, Idle)
    /\ needs' = [needs EXCEPT ![m] = @ \cup {p}]
    /\ Ask(m, asked[m][1] \cup {p}, asked[m][2])
    /\ Muddle(m)
    /\ UNCHANGED <<offers, FeatureState, LinkState>>

\* ... the row exists: the INSERT fails, ...
LinkMenuAgain(s, m, p) ==
    /\ p \in needs[m] \cup offers[m]
    /\ Enter(s, [pc |-> "link.update", menu |-> m, need |-> {p}, may |-> {}])
    /\ Ask(m, asked[m][1] \cup {p}, asked[m][2] \ {p})
    /\ Muddle(m)
    /\ UNCHANGED <<needs, offers, FeatureState, LinkState>>

\* Mutant: the old row stays.
LinkMenuBoth(s) ==
    LET e == edit[s]
    IN  /\ In(s, "link.update")
        /\ needs' = [needs EXCEPT ![e.menu] = @ \cup (e.need \cap offers[e.menu])]
        /\ Leave(s)
        /\ UNCHANGED <<offers, asked, muddled, FeatureState, LinkState>>

\* ... and an UPDATE follows, of the row if it is still there.
LinkMenuUpdate(s) ==
    LET e == edit[s]
    IN  /\ In(s, "link.update")
        /\ needs' = [needs EXCEPT ![e.menu] = @ \cup (e.need \cap offers[e.menu])]
        /\ offers' = [offers EXCEPT ![e.menu] = @ \ e.need]
        /\ Leave(s)
        /\ UNCHANGED <<asked, muddled, FeatureState, LinkState>>

\* unlinkMenuPermission.
UnlinkMenu(s, m, p) ==
    /\ p \in needs[m] \cup offers[m]
    /\ Enter(s, Idle)
    /\ needs' = [needs EXCEPT ![m] = @ \ {p}]
    /\ offers' = [offers EXCEPT ![m] = @ \ {p}]
    /\ Ask(m, asked[m][1] \ {p}, asked[m][2] \ {p})
    /\ Muddle(m)
    /\ UNCHANGED <<FeatureState, LinkState>>

\* bulkLinkMenuPermissions, for one menu of the request: ...
BulkStart(s, m, need, may) ==
    /\ need \cap may = {} /\ need \cup may # {}
    /\ Enter(s, [pc |-> "bulk.delete", menu |-> m, need |-> need, may |-> may])
    /\ Ask(m, need, may)
    /\ Muddle(m)
    /\ UNCHANGED <<needs, offers, FeatureState, LinkState>>

\* ... its rows are deleted, which leaves it open to everybody, ...
BulkDelete(s) ==
    /\ In(s, "bulk.delete")
    /\ needs' = [needs EXCEPT ![edit[s].menu] = {}]
    /\ offers' = [offers EXCEPT ![edit[s].menu] = {}]
    /\ Move(s, "bulk.insert")
    /\ UNCHANGED <<asked, muddled, FeatureState, LinkState>>

\* ... and the new ones inserted one by one; a duplicate is passed over.
BulkInsert(s) ==
    LET e == edit[s]
        there == needs[e.menu] \cup offers[e.menu]
    IN  /\ In(s, "bulk.insert")
        /\ \/ \E p \in e.need :
                  /\ needs' = [needs EXCEPT ![e.menu] = @ \cup ({p} \ there)]
                  /\ edit' = [edit EXCEPT ![s].need = @ \ {p}]
                  /\ UNCHANGED <<offers, rolesVars, edits>>
           \/ \E p \in e.may :
                  /\ offers' = [offers EXCEPT ![e.menu] = @ \cup ({p} \ there)]
                  /\ edit' = [edit EXCEPT ![s].may = @ \ {p}]
                  /\ UNCHANGED <<needs, rolesVars, edits>>
           \/ e.need \cup e.may = {} /\ Leave(s) /\ UNCHANGED <<needs, offers>>
        /\ UNCHANGED <<asked, muddled, FeatureState, LinkState>>

-----------------------------------------------------------------------------
Held(u) == {r \in RoleIds : <<u, r>> \in holds}

\* getUserPermissions: joined with permissions, not with roles.
PermissionsOf(u) == {p \in perms : \E r \in Held(u) : <<r, p>> \in grants}

\* canUserAccessMenu: no requirement without a grant, by the ids alone.
CanAccessMenu(u, m) == \A p \in needs[m] : \E r \in Held(u) : <<r, p>> \in grants

\* enrichMenuWithAccess: the requirements are joined with permissions, so that
\* those whose permission is deleted drop out.
HasAccess(u, m) ==
    LET required == {p \in needs[m] : p \in perms}
    IN  required \ PermissionsOf(u) = {}

\* sp_GetUserAccessibleMenus lists the menus that have a row: an administrator
\* has access to each of them; for others, rows whose permission is deleted
\* drop out, and the requirements and the satisfied ones are counted.
ListedMenu(u, m) ==
    IF u \in Admins THEN needs[m] \cup offers[m] # {}
    ELSE (needs[m] \cup offers[m]) \cap perms # {}
AccessibleMenu(u, m) ==
    LET rows == needs[m] \cap perms
        satisfied == {p \in rows : p \in PermissionsOf(u)}
    IN  /\ ListedMenu(u, m)
        /\ \/ u \in Admins
           \/ Cardinality(rows) = 0
           \/ Cardinality(satisfied) = Cardinality(rows)

\* Its blocked menus are searched for on their own; an administrator has none.
BlockedMenu(u, m) == u \notin Admins /\ \E p \in needs[m] \cap perms : p \notin PermissionsOf(u)

-----------------------------------------------------------------------------
FeaturePcs == {"include.check", "include.insert", "replace.delete", "replace.insert"}
Includes(s, f) == edit[s].pc \in FeaturePcs /\ edit[s].feature = f
DeletesFeature(s, f) == edit[s].pc \in {"feature.flag", "feature.rows"} /\ edit[s].feature = f

\* createSubscriptionFeature.
CreateFeature(s, f) ==
    /\ f \notin born
    /\ Enter(s, Idle)
    /\ live' = live \cup {f} /\ born' = born \cup {f}
    /\ UNCHANGED <<included, strayed, MenuState, LinkState>>

\* deleteSubscriptionFeature: it is there, ...
DeleteFeature(s, f) ==
    /\ f \in live
    /\ Enter(s, [pc |-> "feature.flag", feature |-> f, add |-> {}, drop |-> {}])
    /\ strayed' = strayed \cup {g \in {f} : \E t \in Slots : Includes(t, g)}
    /\ UNCHANGED <<live, born, included, MenuState, LinkState>>

\* ... is_deleted = 1, ...
FlagFeature(s) ==
    /\ In(s, "feature.flag")
    /\ live' = live \ {edit[s].feature}
    /\ Move(s, "feature.rows")
    /\ UNCHANGED <<born, included, strayed, MenuState, LinkState>>

\* Mutant: the permissions of the feature stay.
KeepFeatureRows(s) ==
    /\ In(s, "feature.rows")
    /\ Leave(s)
    /\ UNCHANGED <<FeatureState, MenuState, LinkState>>

\* ... and that of its permissions.
FlagFeatureRows(s) ==
    /\ In(s, "feature.rows")
    /\ included' = {i \in included : i[1] # edit[s].feature}
    /\ Leave(s)
    /\ UNCHANGED <<live, born, strayed, MenuState, LinkState>>

\* createSubscriptionFeaturePermission: 'Subscription feature not found', ...
IncludeStart(s, f, ps) ==
    /\ f \in live /\ ps # {} /\ ps \subseteq known
    /\ Enter(s, [pc |-> "include.check", feature |-> f, add |-> ps, drop |-> {}])
    /\ strayed' = strayed \cup {g \in {f} : \E t \in Slots : DeletesFeature(t, g)}
    /\ UNCHANGED <<live, born, included, MenuState, LinkState>>

\* updateSubscriptionFeaturePermission with permission_ids, of row <<f, p>>.  It
\* names the feature of the new rows, and does not look whether that is there.
\* Without them it fails: its UPDATE has a parameter that is not supplied.
ReplaceStart(s, f, p, g, ps) ==
    /\ <<f, p>> \in included /\ ps # {} /\ ps \subseteq known
    /\ Enter(s, [pc |-> "include.check", feature |-> g, add |-> ps, drop |-> {<<f, p>>}])
    /\ strayed' = strayed \cup {h \in {g} : h \notin live \/ \E t \in Slots : DeletesFeature(t, h)}
    /\ UNCHANGED <<live, born, included, MenuState, LinkState>>

\* ... 'One or more permissions not found', ...
IncludeCheck(s) ==
    /\ In(s, "include.check")
    /\ IF edit[s].add \subseteq perms
       THEN Move(s, IF edit[s].drop = {} THEN "include.insert" ELSE "replace.delete")
       ELSE Leave(s)
    /\ UNCHANGED <<FeatureState, MenuState, LinkState>>

\* ... and the rows inserted by one statement.
IncludeInsert(s) ==
    /\ In(s, "include.insert")
    /\ included' = included \cup ({edit[s].feature} \X edit[s].add)
    /\ Leave(s)
    /\ UNCHANGED <<live, born, strayed, MenuState, LinkState>>

\* An update deletes the old row first, ...
ReplaceDelete(s) ==
    /\ In(s, "replace.delete")
    /\ included' = included \ edit[s].drop
    /\ Move(s, "replace.insert")
    /\ UNCHANGED <<live, born, strayed, MenuState, LinkState>>

\* ... and then inserts the new ones.
ReplaceInsert(s) ==
    /\ In(s, "replace.insert")
    /\ included' = included \cup ({edit[s].feature} \X edit[s].add)
    /\ Leave(s)
    /\ UNCHANGED <<live, born, strayed, MenuState, LinkState>>

\* deleteSubscriptionFeaturePermission.
DropInclusion(s, f, p) ==
    /\ <<f, p>> \in included
    /\ Enter(s, Idle)
    /\ included' = included \ {<<f, p>>}
    /\ UNCHANGED <<live, born, strayed, MenuState, LinkState>>

-----------------------------------------------------------------------------
Visits(s, k) == In(s, "visit.count") /\ edit[s].link = k

\* createShare.
CreateShare(s, k, max) ==
    /\ ~link[k].made
    /\ Enter(s, Idle)
    /\ link' = [link EXCEPT ![k] = [@ EXCEPT !.made = TRUE, !.max = max]]
    /\ UNCHANGED <<late, MenuState, FeatureState>>

\* revokeShare, and expires_at.
CloseShare(s, k) ==
    /\ link[k].made
    /\ Enter(s, Idle)
    /\ link' = [link EXCEPT ![k].closed = TRUE]
    /\ UNCHANGED <<late, MenuState, FeatureState>>

\* 'Maximum view limit reached for this share link'.
Viewable(k) == link[k].max = 0 \/ link[k].views < link[k].max

\* Mutant: a link that is revoked still opens.
VisitClosed(s, k) ==
    /\ link[k].made /\ Viewable(k)
    /\ Enter(s, [pc |-> "visit.count", link |-> k])
    /\ late' = [late EXCEPT ![k] = @ + Cardinality({n \in {1} : \E t \in Slots : Visits(t, k)})]
    /\ UNCHANGED <<link, MenuState, FeatureState>>

\* accessShare: the row is read and found open; the password and the access log
\* come next, ...
VisitRead(s, k) ==
    /\ link[k].made /\ ~link[k].closed /\ Viewable(k)
    /\ Enter(s, [pc |-> "visit.count", link |-> k])
    /\ late' = [late EXCEPT ![k] = IF \E t \in Slots : Visits(t, k) THEN @ + 1 ELSE @]
    /\ UNCHANGED <<link, MenuState, FeatureState>>

\* ... and then view_count + 1.
VisitCount(s) ==
    /\ In(s, "visit.count")
    /\ link' = [link EXCEPT ![edit[s].link].views = @ + 1]
    /\ Leave(s)
    /\ UNCHANGED <<late, MenuState, FeatureState>>

-----------------------------------------------------------------------------
BreakOff(s) ==
    /\ edit[s] # Idle
    /\ faults < MaxFaults
    /\ faults' = faults + 1
    /\ edit' = [edit EXCEPT ![s] = Idle]
    /\ muddled' = muddled \cup {m \in Menus : EditsMenu(s, m)}
    /\ strayed' = strayed \cup {f \in Features : DeletesFeature(s, f)}
    /\ UNCHANGED <<Tables, call, raced, ceiling, calls, needs, offers, live, born, included,
                   link, edits, asked, late>>

AccessStep(s) ==
    \/ LinkMenuUpdate(s) \/ BulkDelete(s) \/ BulkInsert(s)
    \/ FlagFeature(s) \/ FlagFeatureRows(s)
    \/ IncludeCheck(s) \/ IncludeInsert(s) \/ ReplaceDelete(s) \/ ReplaceInsert(s)
    \/ VisitCount(s)

AccessNext ==
    \/ \E s \in Slots :
           /\ \/ (edits = 0 \/ calls + edits < MaxMixed) /\ RolesBegin(s)
              \/ RolesStep(s) \/ PassOver(s) \/ Abort(s)
           /\ UNCHANGED ownVars
    \/ \E s \in Slots, m \in Menus :
           \/ \E p \in known : LinkMenu(s, m, p) \/ LinkMenuAgain(s, m, p) \/ UnlinkMenu(s, m, p)
           \/ \E need, may \in SUBSET known : BulkStart(s, m, need, may)
    \/ \E s \in Slots, f \in Features :
           \/ CreateFeature(s, f) \/ DeleteFeature(s, f)
           \/ \E ps \in SUBSET known :
                  \/ IncludeStart(s, f, ps)
                  \/ \E p \in Perms, g \in Features : ReplaceStart(s, f, p, g, ps)
           \/ \E p \in Perms : DropInclusion(s, f, p)
    \/ \E s \in Slots, k \in Links :
           \/ \E max \in 0..MaxViews : CreateShare(s, k, max)
           \/ CloseShare(s, k) \/ VisitRead(s, k)
    \/ \E s \in Slots : AccessStep(s) \/ BreakOff(s)

AccessSpec == AccessInit /\ [][AccessNext]_accessVars

-----------------------------------------------------------------------------
\* canUserAccessMenu, the menu hierarchy and sp_GetUserAccessibleMenus give the
\* same answer about the menus the last one lists, as long as the permissions a
\* menu requires exist; when one was deleted, the first may only be the
\* stricter.  Only the last knows administrators, and lets them in everywhere.
\* No menu is accessible and blocked, and to others than administrators a menu
\* is blocked just when the hierarchy says so.
MenusAgree ==
    \A u \in Users, m \in Menus :
        /\ HasAccess(u, m) /\ ListedMenu(u, m) => AccessibleMenu(u, m)
        /\ AccessibleMenu(u, m) /\ u \notin Admins => HasAccess(u, m)
        /\ BlockedMenu(u, m) <=> u \notin Admins /\ ~HasAccess(u, m)
        /\ ~(BlockedMenu(u, m) /\ AccessibleMenu(u, m))
        /\ CanAccessMenu(u, m) => HasAccess(u, m)
        /\ needs[m] \subseteq perms => (CanAccessMenu(u, m) <=> HasAccess(u, m))

\* A menu is linked to what the last request for it asked: relinking in bulk
\* leaves neither an old requirement nor a gap, unless two requests for the
\* menu overlapped or one broke off.
MenuAsAsked ==
    \A m \in Menus : \/ <<needs[m], offers[m]>> = asked[m]
                     \/ m \in muddled
                     \/ \E s \in Slots : EditsMenu(s, m)

\* A deleted feature includes no permission any more, unless another request
\* was adding some at the time, or moved a row to it.
DeletedFeaturesAreEmpty ==
    \A i \in included : \/ i[1] \in live \cup strayed
                        \/ \E s \in Slots : In(s, "feature.rows") /\ edit[s].feature = i[1]

\* A link is viewed no more often than its limit says, but for the visits that
\* began while another one was between its check and its count.
ViewsWithinLimit ==
    \A k \in Links : link[k].max > 0 => link[k].views <= link[k].max + late[k]

\* Once a link is revoked and the visits under way have ended, nobody views it.
ClosedHolds ==
    [][\A k \in Links : link[k].closed /\ ~(\E s \in Slots : Visits(s, k))
           => link'[k].views = link[k].views /\ ~(\E s \in Slots : Visits(s, k))']_accessVars

\* What hangs on the roles fits together.
AccessConsistent ==
    MenusAgree /\ MenuAsAsked /\ DeletedFeaturesAreEmpty /\ ViewsWithinLimit
=============================================================================

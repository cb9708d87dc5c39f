------------------------------- MODULE Areas -------------------------------
(***************************************************************************)
(* What may be used once, and areas that share no table and no key with it *)
(* or with each other: one specification in which each of them runs by     *)
(* itself, the others at rest.  They share the variables of the requests   *)
(* in flight, since one area has any.                                      *)
(***************************************************************************)
EXTENDS OneTimeCodes

CONSTANTS
    Families, MaxGrants,              \* SocialAccounts
    Offers, Plans,                    \* Offers
    Keys, Files, MaxList,             \* FileStore
    MaxLimit, MaxPeriods,             \* RoleLimits
    Reactions, Typists,               \* LiveEvents
    MaxDay, MaxFollowers, MaxViews,   \* MetricsHistory
    Members, Admins, Creator,         \* ResourcePermissions
    AreaCalls,    \* bound: AreaCalls[a]: requests that are made in area a
    AreaFaults    \* bound: AreaFaults[a]: failures in area a

Areas == {"codes", "platforms", "offers", "files", "limits", "events", "history", "shares"}

ASSUME AreasAssumption ==
    /\ IsFiniteSet(Slots)
    /\ \A a \in Areas \ {"codes"} : AreaCalls[a] \in Nat /\ AreaFaults[a] \in Nat
    /\ {MaxGrants, MaxList, MaxLimit, MaxPeriods, MaxFollowers, MaxViews} \subseteq Nat
    /\ MaxDay \in Nat \ {0}
    /\ "text" \notin Reactions \cup Typists /\ None \notin Files

VARIABLES
    area,
    family, valid, granted, account, tokens, item, overlapped, tagged, mishaps,
    offer, plansOf, cyclesOf, usage, asked, applied, missed, loose, spoilt,
    store, rows, uploaded, toRow, orphans, removed, claimed, slipped, disturbed,
    limit, period, since, lost, mixed,
    row, told, doubtful,
    day, followers, counted, growth, metrics, shadowed,
    allowed, sharers, dry

codes == <<codeVars, pkceVars, resetVars>>
platforms == <<family, valid, granted, account, tokens, item, overlapped, tagged, mishaps>>
offers == <<offer, plansOf, cyclesOf, usage, asked, applied, missed, loose, spoilt>>
files == <<store, rows, uploaded, toRow, orphans, removed, claimed, slipped, disturbed>>
limits == <<limit, period, since, lost, mixed>>
events == <<row, told, doubtful>>
history == <<day, followers, counted, growth, metrics, shadowed>>
shares == <<allowed, sharers, dry>>
allVars == <<area, codes, platforms, offers, files, limits, events, history, shares,
             call, calls, faults>>

Plt == INSTANCE SocialAccounts WITH
    MaxCalls <- AreaCalls["platforms"], MaxFaults <- AreaFaults["platforms"]
Off == INSTANCE Offers WITH
    MaxCalls <- AreaCalls["offers"], MaxFaults <- AreaFaults["offers"]
Fil == INSTANCE FileStore WITH
    NoFile <- None, MaxCalls <- AreaCalls["files"], MaxFaults <- AreaFaults["files"]
Lim == INSTANCE RoleLimits WITH
    MaxCalls <- AreaCalls["limits"], MaxFaults <- AreaFaults["limits"]
Evt == INSTANCE LiveEvents WITH
    MaxCalls <- AreaCalls["events"], MaxFaults <- AreaFaults["events"]
Met == INSTANCE MetricsHistory WITH
    MaxCalls <- AreaCalls["history"], MaxFaults <- AreaFaults["history"]
Shr == INSTANCE ResourcePermissions WITH
    rows <- allowed, Users <- Members,
    MaxCalls <- AreaCalls["shares"], MaxFaults <- AreaFaults["shares"]

AreasInit ==
    /\ area \in Areas
    /\ Init /\ Plt!Init /\ Off!Init /\ Fil!Init /\ Lim!Init /\ Evt!Init
    /\ Met!Init /\ Shr!Init
    /\ area # "platforms" => family = CHOOSE f \in Families : TRUE
    /\ area # "codes" => client /\ registered

AreasNext ==
    /\ UNCHANGED area
    /\ IF area = "codes" THEN TRUE ELSE UNCHANGED codes
    /\ IF area = "platforms" THEN TRUE ELSE UNCHANGED platforms
    /\ IF area = "offers" THEN TRUE ELSE UNCHANGED offers
    /\ IF area = "files" THEN TRUE ELSE UNCHANGED files
    /\ IF area = "limits" THEN TRUE ELSE UNCHANGED limits
    /\ IF area = "events" THEN TRUE ELSE UNCHANGED events
    /\ IF area = "history" THEN TRUE ELSE UNCHANGED history
    /\ IF area = "shares" THEN TRUE ELSE UNCHANGED shares
    /\ \/ area = "codes" /\ Next
       \/ area = "platforms" /\ Plt!Next
       \/ area = "offers" /\ Off!Next
       \/ area = "files" /\ Fil!Next
       \/ area = "limits" /\ Lim!Next
       \/ area = "events" /\ Evt!Next
       \/ area = "history" /\ Met!Next
       \/ area = "shares" /\ Shr!Next

AreasSpec == AreasInit /\ [][AreasNext]_allVars

-----------------------------------------------------------------------------
\* Codes, verifiers and tokens keep their types and are used once (verifyCode,
\* getCodeVerifier, resetPassword).
CodesSpentOnce == area = "codes" => TypeOK /\ SpentOnce

\* The accounts on social platforms agree with their tokens (getValidToken,
\* saveTokens, disconnectAccount), and the history of their numbers has no gap
\* and counts nothing too early (trackFollowerGrowth, saveDailySnapshot).
PlatformsConsistent ==
    /\ area = "platforms" =>
           Plt!TypeOK /\ Plt!AccountMatchesTokens /\ Plt!RefreshTokenKept /\ Plt!TagLastsUntilSync
    /\ area = "history" => Met!TypeOK /\ Met!GrowthChains /\ Met!NothingAhead

\* Offers are whole and applied as asked (createOffer, applyOfferCode), the usage
\* of a role's limit counts the invitations (incrementRoleLimitUsage), and
\* permissions on a resource come from those who may give them
\* (grantResourcePermission).
AllowancesConsistent ==
    /\ area = "offers" =>
           /\ Off!TypeOK
           /\ Off!OfferIsWhole /\ Off!AppliedAsAsked /\ Off!UsedIsKept /\ Off!DatesOrdered
    /\ area = "limits" => Lim!TypeOK /\ Lim!UsageCounts
    /\ area = "shares" => Shr!TypeOK /\ Shr!PermissionsRooted /\ Shr!SharingDiesOut

\* No file is lost in a move, left without its row, or still there after its
\* deletion (moveFile, uploadChatAttachment, deleteFolder).
FilesConsistent ==
    area = "files" => Fil!TypeOK /\ Fil!MovesLoseNothing /\ Fil!FilesRecorded /\ Fil!DeletedIsGone

\* What the gateway has told its clients agrees with the tables (the handlers of
\* the gateway, broadcastToChannel).
EventsConsistent == area = "events" => Evt!TypeOK /\ Evt!EventsAgree

=============================================================================

--------------------------- MODULE ChatAndSignUp ---------------------------
(***************************************************************************)
(* Four areas that share no table and no key with each other: messages,    *)
(* their notifications, and the two ways into the system.  In this one     *)
(* specification each of them runs by itself, the others at rest.  They    *)
(* share the variables of the requests in flight, since one area has any.  *)
(***************************************************************************)
EXTENDS ChatUsers, Naturals, FiniteSets

CONSTANTS
    Senders, Admins, MessageIds, Files,   \* Messages
    Named, NoticeIds,                     \* Notifications
    Tenants,                              \* Onboarding
    Providers, UserIds,                   \* SocialLogin
    Slots, None, PoolSize,
    AreaCalls,    \* bound: AreaCalls[a]: requests that are made in area a
    AreaFaults    \* bound: AreaFaults[a]: failures in area a

Areas == {"messages", "notifications", "onboarding", "logins"}

ASSUME AreasAssumption ==
    /\ \A a \in Areas : AreaCalls[a] \in Nat /\ AreaFaults[a] \in Nat
    /\ Senders \cup Named \subseteq Users
    /\ None \notin Users \cup MessageIds \cup Tenants \cup UserIds
    /\ {"none", "stored", "orphan"} \cap MessageIds = {}

VARIABLES
    area,
    message, file, dropped, page, saves, contested, unchecked,
    from, muted, notes, job, wished, overtaken, quiet, skipped,
    tenant, userType, lock, failed,
    user, used, link, keyOf, sessionOf, mishap,
    broke, request, calls, faults

messages == <<message, file, dropped, page, saves, contested, unchecked>>
notifications == <<from, muted, notes, job, wished, overtaken, quiet, skipped>>
onboarding == <<tenant, userType, lock, failed>>
logins == <<user, used, link, keyOf, sessionOf, mishap>>
allVars == <<area, messages, notifications, onboarding, logins, broke, request, calls, faults>>

Msg == INSTANCE Messages WITH
    Ids <- MessageIds, fills <- saves, call <- request,
    MaxCalls <- AreaCalls["messages"], MaxFaults <- AreaFaults["messages"]
Ntf == INSTANCE Notifications WITH
    Ids <- NoticeIds,
    MaxCalls <- AreaCalls["notifications"], MaxFaults <- AreaFaults["notifications"]
Onb == INSTANCE Onboarding WITH
    call <- request,
    MaxCalls <- AreaCalls["onboarding"], MaxFaults <- AreaFaults["onboarding"]
Log == INSTANCE SocialLogin WITH
    Ids <- UserIds, call <- request,
    MaxCalls <- AreaCalls["logins"], MaxFaults <- AreaFaults["logins"]

AreasInit ==
    /\ area \in Areas
    /\ Msg!Init /\ Ntf!Init /\ Onb!Init /\ Log!Init

AreasNext ==
    /\ UNCHANGED area
    /\ IF area = "messages" THEN TRUE ELSE UNCHANGED messages
    /\ IF area = "notifications" THEN TRUE ELSE UNCHANGED notifications
    /\ IF area = "onboarding" THEN TRUE ELSE UNCHANGED onboarding
    /\ IF area = "logins" THEN TRUE ELSE UNCHANGED logins
    /\ \/ area = "messages" /\ Msg!Next
       \/ area = "notifications" /\ Ntf!Next /\ UNCHANGED request
       \/ area = "onboarding" /\ Onb!Next /\ UNCHANGED broke
       \/ area = "logins" /\ Log!Next /\ UNCHANGED broke

AreasSpec == AreasInit /\ [][AreasNext]_allVars
FairAreasSpec == AreasSpec /\ Msg!Fairness /\ Ntf!Fairness /\ Onb!Fairness /\ Log!Fairness

-----------------------------------------------------------------------------
\* The files of a message are linked to it (sendFileMessage,
\* sendMultipleFilesAsOneMessage, sendMessageWithExistingAttachment), but for
\* those that a sender names (sendMessage); a mute lasts until it ends, and
\* whoever has muted the channel is not notified (muteChannel, notifyNewMessage).
ChatConsistent ==
    /\ area = "messages" => Msg!TypeOK /\ Msg!FilesStay
    /\ area = "notifications" => Ntf!TypeOK /\ Ntf!MutesLast /\ Ntf!MuteHolds

\* A user of a kind owns a tenant of that kind, and what a rollback left behind
\* is known (createAgency, createBrand, createCreator); whatever provider vouches
\* for a person, it is one user (loginWithSocial).
SignUpConsistent ==
    /\ area = "onboarding" => Onb!TypeOK /\ Onb!OnboardedOwns /\ Onb!HalvesExplained /\ Onb!LockHeld
    /\ area = "logins" => Log!TypeOK /\ Log!OnePerson /\ Log!StraysExplained

\* In the end old pages are gone (invalidateCaches, getMessages) and everybody is
\* notified (logMessageActivity); and no message is sent with a file that was
\* deleted (deleteAttachment), unless its sender names it.
ChatSettles ==
    /\ area = "messages" => Msg!PagesCatchUp
    /\ Msg!SentFilesExist
    /\ area = "notifications" => Ntf!EveryoneHears

\* Every request to sign up or sign in ends; the callbacks of sign-in are
\* requests, too.
SignUpEnds == area \in {"onboarding", "logins"} => Onb!RequestsEnd

=============================================================================

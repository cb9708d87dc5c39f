# Verification of fluera_backend

TLA+ models of the backend (a NestJS service on SQL Server, Redis and an object
store), TLC runs that check them on small instances, and TLAPS proofs of the
main results for every value of the constants.

The program is a single Node process: JavaScript between two `await`s is
atomic, and everything else interleaves. `SqlServerService.query` commits every
statement by itself; only `SqlServerService.transaction` and the stored
procedures group statements. So in every module **one action is one stretch of
code between two awaits**: typically one SQL statement with the decision taken
on its result. A handler is a little process whose `pc` names the statement it
awaits next.

## 1. Inventory

Paths are under `src/src/modules` unless they start with `core` or `common`
(then `src/src`). `src/tables.sql` holds tables, constraints and procedures.

| Component | State | What is hard | What makes it correct |
|---|---|---|---|
| Channel membership (`message-system/chat.service.ts`) | `chat_participants`, `chat_channels.member_count/is_archived` | read and write are statements apart; a denormalised counter; two-statement transfers; loops | counter = rows, one owner at most, owners go last, an abandoned channel is frozen |
| Permission to send (same file, Redis) | `validate:{channel}:{user}` for 60 s, written by `setImmediate` | the cache is never invalidated; late writes | changes take effect; no permission comes back by itself |
| Chat gateway (`chat.gateway.ts`) | `userSockets`, `channelMembers`, in memory | awaits in `handleConnection`; member lists that replace newer ones; events that overtake each other | registry exact, recipients were members or are mentioned, connected members are reached, the last event tells what the tables say |
| Read receipts (`chat.service.ts`, gateway) | `messages.read_by_user_ids`, `message_read` events | SELECT and UPDATE with a predicate each; an overwriting UPDATE | receipts are kept, complete, and recorded before they are announced |
| Messages (`chat.service.ts`, `chat.controller.ts`) | messages, attachments, the cached newest page | attachments linked after the INSERT; pages stored late, never deleted | files stay with their message; deleted text leaves the page |
| Chat notifications (`chat-notification.service.ts`) | notification rows, mutes | a background loop over the recipients, between the requests that mute | mutes hold and last; everyone else hears |
| Passwords and keys (`auth/auth.service.ts`, `common/enhanced-encryption.service.ts`) | password hash, `user_encryption_keys`, reset tokens, pool | key statements run on other connections than the transaction; one row per user; pool exhaustion | a changed password takes the key along, an active key opens with the password, every call ends |
| Invitations (`auth/invitation.service.ts`) | `invitations`, `users`, `user_roles`, `tenant_members` | check-then-insert, checks before the transaction, a role that may go | one admission per user; final answers are final; who keeps trying gets in |
| Login, sessions, tokens (`auth/auth.service.ts`, `auth.controller.ts`) | `user_sessions`, the Redis counter | refresh racing logout; UNIQUE refresh tokens that may coincide; INCR, EXPIRE and TTL apart | a closed session stays closed, the holder of a session can refresh it, guessing is limited and the limit lifts |
| Verification codes, PKCE, reset tokens | `verification_codes`, Redis or memory, `password_reset_tokens` | read in one step, spent in another | used once, not guessable |
| Social sign-in (`auth/auth.controller.ts`) | `users`, links, keys, sessions | pool statements inside a transaction | one address, one user |
| Onboarding (`auth/auth.service.ts`) | tenants, profiles, plan, session | pool statements inside a transaction; pool exhaustion | who is onboarded owns a whole tenant, or a failure explains it |
| Subscriptions, scheduler (`subscriptions/*.service.ts`) | tenant's subscription columns, plans, history, payment methods | five-statement changes racing other calls and the daily jobs; restarts | permissions, payments, default method and plans fit together; what is due happens |
| Offers (`subscription-offers.service.ts`) | offers, their plans and cycles, usage | active before its limits are inserted and after they are deleted; count-then-delete | whole offers, applied where they belong, kept once used |
| RBAC (`rbac/*.service.ts`) | roles, holders, grants, menus, features, limits | check-then-act without FOREIGN KEYs; delete-and-reinsert | nobody climbs, held roles exist, three ways to ask for a menu agree, usage counts invitations |
| Resource permissions (`permissions/*.service.ts`, RBAC) | grants on a resource, share links | check-then-act; expired rows | permissions are rooted, lost sharing stays lost, views within the limit |
| Social platforms, campaigns (`social-platforms`, `campaign-tracking`) | accounts, tokens, content, daily numbers | token refresh racing disconnection; two syncs of one account; numbers a platform leaves out | accounts match tokens, the last refresh token is kept, growth chains, no row is ahead of its day |
| File storage (`common/services/r2.service.ts`) | objects, attachment rows | a move is a copy and a deletion; paged listings | nothing lost, everything recorded, deleted is gone |
| Collaboration | creator invitations | procedures the repository does not hold | not modelled |
| Tenants, profiles, e-mail, cryptography on data, audit, system, monitoring, HTTP layer | single rows, I/O, text | | not modelled |

How they interact. The gateway calls `ChatService` for every event and derives
its broadcasts from the answers (`LiveEvents`, `ReadReceipts`,
`ChannelDelivery`). `ChatService` reads `chat_participants` through Redis
caches that callbacks fill (`SendPermission`, `Messages`) and leaves
notifications to a background job (`Notifications`). `AuthService` updates
`users` in transactions and calls services whose statements go through the pool
of the same size (`UserKeys`, `Onboarding`, `SocialLogin`). `InvitationService`
creates users that `AuthService` may be registering at the same moment, held
together only by UNIQUE constraints, and consults the limits of RBAC
(`RoleLimits`). Subscription changes reset role permissions; what roles grant
opens menus (`AccessControl` extends `Roles`).

## 2. Modules

| Module | Models | Checked by the run | Proofs |
|---|---|---|---|
| `ChannelMembership` | rows, roles, counter of one channel | `membership` | `ChannelMembershipProofs` |
| `SendPermission` | cached permission in front of `sendMessage` | `send_permission` | `ChatProofs` |
| `ChannelDelivery` | gateway maps and broadcasts of one channel | `delivery` | `ChatProofs` |
| `ReadReceipts` | receipts and their events | `receipts` | `ChatProofs` |
| `UserKeys` | password, keys and pool for one user | `user_keys`, `reset_rotates` | `UserKeysProofs` |
| `Invitations` | one tenant's invitations to one role | `invitations` | `InvitationsProofs` |
| `Subscriptions` | subscriptions, plans, payment methods, jobs | `subscriptions` | `SubscriptionsProofs` |
| `Roles`, `AccessControl` (extends it) | roles, holders, grants; menus, features, links | `access_control` | `AccessControlProofs` |
| `SessionStore` (abstract), `Sessions` | the sessions of one account, login limit | `sessions` | `SessionsProofs` |
| `OneTimeCodes` | codes, PKCE verifiers, reset tokens | `areas` | `AreasProofs` |
| `SocialAccounts`, `MetricsHistory` | a connected account; its daily numbers | `areas` | `AreasProofs` |
| `Offers`, `RoleLimits` | offers; limits on invitations | `areas` | `AreasProofs` |
| `ResourcePermissions` | grants on one resource | `areas` | `AreasProofs` |
| `FileStore` | objects and their rows | `areas` | `AreasProofs` |
| `LiveEvents` | events about one message against the tables | `areas` | `AreasProofs` |
| `Messages`, `Notifications` | messages with files and pages; notices and mutes | `chat_and_sign_up` | `ChatProofs` |
| `Onboarding`, `SocialLogin` | from pending user to owner; sign-in by provider | `chat_and_sign_up` | `ChatProofs` |

`Areas` and `ChatAndSignUp`, which `MCAreas` and `MCChatAndSignUp` instantiate,
put several modules into one specification each. The modules they hold share no
table and no key, so a product of their states would only multiply; `area` is
chosen at the start, one module moves and the others stay at their initial
states. Every behaviour of every module is explored, and the properties speak of
the area that moves. The modules share the requests, `calls` and `faults`, since
only one has requests; `AreaCalls[a]` and `AreaFaults[a]` bound those of area
`a`.

`ChatUsers` declares the users that `SendPermission`, `ChannelDelivery`,
`ReadReceipts` and `ChatAndSignUp` have in common, and each of the four names its
specification differently (`PermissionSpec`, `Spec`, `ReceiptSpec`, `AreasSpec`),
so that one module proves about all of them.

Conventions. `Begin`, `Goto`, `Done` start, advance and end the request in a
slot. Variables called *history* have no counterpart in the program; they record
a fact (an overlap, a failure) that a property refers to. Bounds are constants
called `Max...`. Operators whose comment begins with "Mutant" are wrong variants
of the definition that follows them. No specification uses them; substituting
one for its original makes the property that guards against that bug fail, which
shows that the property can fail.

### ChannelMembership

`row` and `role` are separate because the code keeps the role of a deactivated
row and gives it back on reactivation. `req[s]` is the request in slot `s` with
the handler's locals. `LeaveRole`..`LeaveCount`, `RemoveCheck`..`RemoveCount`,
`AddCheck`..`AddCount`, `RoleCheck`..`RoleSet` and `ArchiveCheck`,
`DeleteCheck`, `ArchiveWrite` are the statements of `leaveChannel`,
`removeMember`, `addMembers`, `updateMemberRole`, `archiveChannel` /
`unarchiveChannel` and `deleteChannel`. `Init` is what `createChannel` leaves
behind. `Abort` is a statement that fails or a process that dies: what was
committed stays.

All five properties are stated for requests that overlap and get lost. Three
histories say what the code loses: `drift` is what member_count gains or loses
by an UPDATE of a row that another request has written meanwhile, and by a
request that dies before its credit or debit; `rivals` tells that two transfers
of ownership were under way at once; `stale` holds the requests that will
deactivate an owner on a list of the others that an addition or a promotion has
overtaken. `CountSettled` gives the count exactly, `AtMostOneOwner` and
`OwnerLeavesLast` hold but for `rivals` and `stale`, and `AbandonedIsFrozen` and
`OwnerlessForever` without exception.

### SendPermission

`entry[u]` is the Redis key, `fills[u]` the answers whose `setImmediate` write
has not run, `send` the calls. `CacheMiss` is enabled with an entry present
too: the code races Redis against 10 ms. `Tick` ages keys. `NoResurrection` is
an action property; `ChangesTakeEffect` is liveness: it says that the stale
answer ends, not when (the key's 60 seconds plus the late write).

### ChannelDelivery and LiveEvents

`held[u]` collects every answer `getUserChannels` can have had for `u`: it is
cached in Redis and the key is written and deleted by unordered callbacks, so
the model lets it answer anything that was once true. Users in `Busy` are members
of more channels than the 50 a listing has room for: their listing may leave this
one out, and `ReachesUntilDisturbed` is about the others. `Mentioned` are the users
whom clients name in a mention: the gateway tells them of the message unasked,
members or not (`Told`), so `NoStranger` says that whoever an event reaches was a
member once or was named in it. `InviteMember`,
`NotifyInvited` and the flag `clear` are `handleInviteMembers`, which deletes
the cache entry after its own broadcast. `CastFetch`/`CastStore` are the two
sides of the await in `broadcastToChannel`.

`LiveEvents` is about the content of the events: a handler writes (`row`), may
look up a name, and emits (`told`). `EventsAgree` says that, once no event of a
facet (text, pin, reaction, typing) is under way, the last one tells what is so,
unless two crossed, one was lost or the change came over HTTP, which emits
nothing. Files sent over HTTP are read again after their INSERT (`Reread`,
`GetMessageGone`) and told twice, by the service (`BroadcastFirst`) and by the
controller.

### ReadReceipts

`Within` says which users' ids contain which others' digits, since unread
messages are found by `NOT LIKE '%id%'`; in the run one id occurs in another.
`MarkingHolds` excepts messages deleted meanwhile and those with a reader whose
id the caller's occurs in (`Shadowed`). `ReceiptsLast` and `MarkingHolds` except
a direct channel that was given a third participant, where the auto-read
overwrites a third party's receipt.

### Messages and Notifications

`Insert` is the stored procedure; links to attachments follow as statements
(`Linking`), except for those a client names in `attachments` when it sends a
message: `sendMessage` neither looks at them nor links them, and `unchecked`
holds the messages that were sent so. `page` is the Redis key of the newest page
and `fills` the pages whose `setImmediate` has not run. `PagesCatchUp` is
liveness: `invalidateCaches` deletes nothing, only the 30 seconds of the key do.
In `Notifications`, `job[m]` is `logMessageActivity` of message `m` with the
recipients still to do.

### UserKeys

`locked` is the row lock that `UPDATE users` holds until the transaction ends;
`key` the user's row of `user_encryption_keys`, of which UNIQUE(user_id) allows
one; `StoreInsert` makes it for a user without keys, and `StoreRefused` is the
refusal for everybody else, after `RotateMark` or `StoreDeactivate` has retired
the row there is. `Taken` are the connections transactions hold; `Connection`
whether a statement of the key service can get one. `Fault` follows each
handler's `catch`: `resetPassword` goes on without the rotation,
`getUserActiveKey` takes its own failure for "no key", the others roll back the
transaction, which leaves the key statements in place. `Timeout` happens
whenever nobody can move, without a bound, because `acquireTimeoutMillis` and
`requestTimeout` are always set. `KeyFollowsPassword` is an action property and
holds whatever fails: the step that commits a change or a recovery leaves an
active key under the password it commits. `KeyOpensUnlessFault` speaks of keys
that are active and excepts behaviours with a fault or a timeout;
`EveryCallEnds` is liveness. `ResetRotates` is what the comments of
`resetPassword` promise, and is violated (section 4).

### Invitations

`inv[i]`, `users`, `role`, `joined` are the four tables for one tenant and
role; the three conjuncts of `Insertable` are the three UNIQUE constraints.
`AcceptCommit` is the whole transaction, which the server makes atomic.
`AcceptRole` asks for the role again, which `DeleteRole` may have removed, for good:
`CancelledHolds` says that nobody joins after that but who had been past the check,
and `PersistentInviteeJoins` is about invitees whose role stays.
`Register` is the same address signing up by itself. `SendStatus` goes by
`existing[0]` of an unordered SELECT, hence by any row. `rushed` is history: two
`sendInvitation` calls for one address overlapped.

### SessionStore and Sessions

`SessionStore` is the promise: a session is opened once, its refresh token is
known to it alone and may be exchanged, and a session that was closed stays
closed. `Sessions` has the statements: attempts counted in Redis (`INCR`, then
`EXPIRE` for the first and `TTL` for one above the limit; whichever fails, the
attempt is allowed: `LoginLost`, `LoginTtl`), login, the row, the two answers,
refresh as a SELECT by hash and an UPDATE by id, switch of tenant, logout,
`SessionEnds`, a suspended account, and Redis going away. `LoginSafe` counts the
attempts that a failing Redis let through (`unlimited`) on top of the limit.
Tokens are their payload and the second they were signed in, so two of one
second coincide and the UNIQUE index refuses one. The refinement maps a
session's token to `LiveToken`, what its row may be refreshed with: a refresh
that was under way during the logout still writes a token, into a row that opens
nothing. `StoreImplemented` is checked by TLC and proved.

### OneTimeCodes

`code[i]` a verification code with its wrong guesses and acceptances, `kept[v]`
a PKCE verifier in Redis or in memory, `reset[r]` a token. All are read in one
statement and spent in another; `CodesSpentOnce` excepts what two requests found
unused together, which nothing in the code prevents. A registration inserts
its code through the pool inside its transaction (`RegisterCode`): a rollback
leaves the code without its user (`lost`), and no registration of a new address
deletes what it finds. A second registration of an unverified address deletes the
codes and then always rolls back, as the new key is refused (`RegisterAgain`,
`RegisterDelete`). `GuessesBounded` allows one live code besides the lost ones and
those of requests that overlapped (`stray`), however guesses, resends and failures
interleave.

### Onboarding and SocialLogin

Both keep a connection for a transaction while most of their statements go to
the pool and commit at once. `lock` is the users row written in a transaction;
`Timeout` the refusal of an exhausted pool. `HalvesExplained` and
`StraysExplained` list what a rollback leaves behind.

### Subscriptions and Offers

`ChangeStart`..`ChangeDefault` are the eight statements of `changeSubscription`,
`ChangeResetFails` its swallowed error, `DeletePlan`/`DeleteWrite` the count and
the UPDATE of `deletePlan`, `SaveInsert`/`SaveOthers` those of
`savePaymentMethod`. `RunJob` is the one UPDATE of each daily job with the rows
its OUTPUT returns; `MailOwner` goes through them, and `Crash` forgets the rest.
`sp_ChangeSubscriptionPlan` and `sp_CancelSubscription` are not in the
repository and leave open what the code does not tell. `mixed` and `excused` are
history: tenants two of whose calls overlapped or one broke off, and plans an
administrator switched off, or deleted in the middle of a change to it.
In `Offers` an offer is active before its plans and cycles are inserted, and
`DeleteCycles`, `DeletePlans` and `Delete` are the three DELETEs of `deleteOffer`.

### Roles, AccessControl, RoleLimits, ResourcePermissions

`Roles` has the requests that assign, create, change, clone and delete roles and
permissions, with every check a statement of its own, and the two writers of
`user_roles` that check no level: `AcceptInvitation` and `CreateTenant`.
`ceiling` is the highest level a user began with, an administrator gave or set,
or these two gave; `NoClimb` says that no other way leads above it.
`AccessControl` extends `Roles` by menus, features and share links. The queries
that decide on a menu are operators of their own (`CanAccessMenu`, `HasAccess`,
`AccessibleMenu`, `BlockedMenu`), each with its answer for administrators, and
`MenusAgree` compares them in every reachable state. `RoleLimits` is the usage
counter that `sendInvitation` resets and credits around its INSERT.
`ResourcePermissions` has `rows[u][k]` with the granter, and `SharingDiesOut`:
once no user may share and no request to do so is under way, the users cannot
bring the right back among themselves.

### SocialAccounts, MetricsHistory, FileStore

`family` is what a platform's refresh gives back: the same refresh token, another
one, or none. `AccountMatchesTokens` and `RefreshTokenKept` except disconnections
that met another request. `MetricsHistory` has the SELECT and the MERGE of a
day's growth, two syncs at once and midnight between them. What a platform answers
for the views of a content is any number up to those counted (`Answers`): some count
the last 28 days only, some leave the number out, which is filed as 0. So views do
not grow from row to row, and `NothingAhead` claims only that no row a sync files
counts what came after its day. `FileStore` has the
bucket and `message_attachments`, which share no transaction.

## 3. Runs, bounds and fairness

| Run | Instance | Shows |
|---|---|---|
| `membership` | 3 users, 2 slots, 5 requests, arrays of up to 2 ids with repetitions, 1 request lost | `CountSettled`, `AtMostOneOwner`, `OwnerLeavesLast`, `AbandonedIsFrozen`, `OwnerlessForever` |
| `send_permission` | 2 users, 2 sends, time to live 2 | `NoResurrection`, `ChangesTakeEffect` |
| `delivery` | 2 users, one with 2 connections, one in many channels and mentioned, broadcasts one at a time | `RegistryExact`, `NoStranger`, `ReachesUntilDisturbed` |
| `receipts` | 3 users, one id within another, 2 messages, 2 markings at once, 1 lost | `MarkingHolds`, `ReceiptsLast` |
| `user_keys` | 2 passwords, 1 reset token, 2 slots, 3 calls, pools of 2 and 3, 1 fault | `KeyFollowsPassword`, `KeyOpensUnlessFault`, `EveryCallEnds` |
| `reset_rotates` | 1 slot, a pool of 3, no fault | `ResetRotates` is violated (section 4) |
| `invitations` | 1 address, 3 invitations, 2 slots, 1 call dying, 1 role that may be deleted | `OneAdmission`, `OnePending`, `AcceptedIsFinal`, `CancelledHolds`, `PersistentInviteeJoins` |
| `subscriptions` | 1 tenant, 2 plans, 2 methods, 2 slots, 2 calls, 2 faults | `BillingConsistent` (with the type invariant), `SchedulerWorks` |
| `access_control` | 2 users, one an administrator, 3 roles, 2 permissions, 1 menu, 2 features, 1 link, 2 slots, 3 requests | `AccessTypeOK`, `RolesConsistent`, `AccessConsistent`, `ClosedHolds` |
| `sessions` | 2 sessions, 1 tenant, 2 slots, 2 seconds, limit 2, 3 calls, 1 fault | `LoginSafe`, `LimitLifts`, `StoreImplemented` |
| `areas` | see `MCAreas`: 2 slots, 2 to 5 requests, 1 or 2 faults each | `GuessesBounded`, `CodesSpentOnce`, `PlatformsConsistent`, `AllowancesConsistent`, `FilesConsistent`, `EventsConsistent` |
| `chat_and_sign_up` | 3 users, 2 messages, 1 file, 1 notified message, 2 tenants, 2 providers, 3 user ids, 2 slots, 2 or 3 requests, 1 fault, pools of 2 | `ChatConsistent`, `SignUpConsistent`, `ChatSettles`, `SignUpEnds` |

`membership` has 1.3 million states and `receipts` 7.2 million, two minutes
each; the others have between a few thousand and 0.9 million.

Why the bounds suffice for the cases that matter. Every race in the handlers is
between two requests, so two slots; a third or fourth request makes a state for
them to meet in, or follows them up. One fault falls between any two statements
of a request; two where a second one can meet the consequences of the first
(subscriptions, codes). Three users are an owner or sender, one who goes and one
who comes. A time to live of 2 is the least for which "older" and "expired"
differ; two seconds are the least in which two tokens differ, and one second the
one in which they coincide. Pools of two are exhausted by two transactions, and
a pool of three is not. A listing returns one key at a time so that folders are
longer than a listing.

Fairness. Node runs what is ready and the driver answers or times out, so weak
fairness of a request's next step (`Step`, `Steps`, `Timeout`), of callbacks
(`Fill`, `setImmediate`), of the clock (`Tick`, `PageExpires`) and of each daily
job and its mails (`Subscriptions!Fairness`: cron runs every job every day).
Strong fairness is assumed in two places: of the invitee's clicking
(`PersistentInviteeJoins` is about someone who keeps trying), and of
`WindowEnds` in `Sessions`: Redis expires a key even if the connection to it
keeps breaking, and comes back (`RedisReturns`). No fairness is assumed of users
otherwise.

`CHECK_DEADLOCK FALSE` is set where the system may come to rest: the bounds on
requests are used up, or everything has been sent, read and answered.

## 4. Disagreements between the code and what it says

Met while modelling; the properties above are stated with the exception each of
them calls for, or the matter is outside what a property can say.

Chat
* `leaveChannel` and `removeMember` debit `member_count` whether or not their
  UPDATE changed a row: two overlapping removals debit twice (`drift`).
* A mention is sent to whatever ids the client names (`chat.gateway.ts:289-301`,
  `603-613`), members of the channel or not.
* `getUserChannels` lists 50 channels (`chat.service.ts:297`): on connecting, a
  member of more is not entered into the rest.
* `sendMessage` takes the `attachments` a client names without looking at them
  (`chat.service.ts:1180-1183`) and links none: such a file stays an orphan, may be
  deleted already, and may be sent again. `sp_SendMessage_Fast` in `tables.sql` is
  older than the code: it declares no `@attachmentIds`, `@mentionedUserIds` or
  `@isForwarded`.
* Files sent over HTTP are announced twice (`chat.service.ts:1605`,
  `chat.controller.ts:267`).
* "Transfer ownership before leaving": `updateMemberRole` demotes the owner,
  then promotes a target it never looked at, which may leave members without an
  owner.
* "Broadcast message to all members of a channel": after `invite_members`
  deletes the entry, the next user to connect starts one with only itself.
* "Mark all as read": a reader whose id occurs in an earlier reader's id (1 in
  12) is never marked; the ids announced are those of the SELECT, and the UPDATE
  may mark more.
* `sendMessage` asks whether the *sender* was active of late where its comment
  says the recipient (`chat.service.ts:1204`); `unread_count` is debited and
  never credited or read.
* `del('msgs:{channel}:*')` passes a glob to `DEL` and deletes nothing;
  `is_read_by_me` is cached for whoever loaded the page first.
* Search, pinned messages and forwarding show deleted messages, editing accepts
  them; the role check of `deleteMessage` ignores `is_active`.
* Changes over HTTP emit no event; a disconnect while typing emits none, and
  `typing_stop` can overtake `typing_start`.
* The notification service looks the gateway up by the string `'ChatGateway'`,
  which is not its token: nothing is pushed. `PresenceService` has no caller.
* An upload with a `messageId` links the row to any message, unchecked.

Accounts
* "Reset password and rotate encryption keys", "Rotate encryption keys with new
  password" (`auth.service.ts:472`, `500`): `user_encryption_keys` has
  UNIQUE(user_id) (`tables.sql:3536`), so the INSERT of the new key is refused after
  the old one was marked `rotated`, and the error is swallowed. With no fault at
  all a reset leaves no active key, "Keys can be rotated later" is not so, and the
  event says `keysRotated: true`. The run `reset_rotates` shows it.
* For the same reason registering an unverified address a second time always fails
  with "Failed to set up encryption", after its codes are deleted and its key is
  deactivated: neither is taken back.
* A registration of a new address deletes no codes, and sends its own through the
  pool: one that is rolled back leaves a code that works for the next user of the
  address.
* "Update password in transaction": the key changes outside it; without a COMMIT
  the key is under the new password and the account under the old.
* `refreshToken` always signs `onboardingRequired = true`; the JWT strategy asks
  neither session nor blacklist, so an access token outlives its logout
  (`isTokenRevoked` and `getCachedSession` have no caller).
* Successful logins count as attempts (`resetRateLimit` has no caller); a crash
  between `INCR` and `EXPIRE` leaves a counter for good, and a failure of any of
  `INCR`, `EXPIRE` and `TTL` allows the attempt, `TTL` for one already refused.
* The tenant list of login is cached for ten minutes and never invalidated;
  `X-Tenant-ID` is compared by `===` with a bigint id.
* The memory fallback of PKCE does not work when Redis was there and is lost
  (`pkce.service.ts:51`); ioredis gives up after three tries.
* `createAgency`'s transaction is empty: all its statements go to the pool, and
  no handler asks whether the user is still pending. Social sign-in ignores
  `users.status`; `verifyRegistration` sets it to active whatever it was.

Invitations and collaboration
* "Accept invitation (add user to tenant)": system roles are shared and
  `user_roles` is UNIQUE, so who holds the role elsewhere can never accept.
* Two overlapping `sendInvitation` calls both insert. An acceptance that read
  the invitation before it was cancelled still commits.
* After a cancellation `sendInvitation` says "Please resend the invitation", and
  `resendInvitation` accepts pending ones only.
* The refusal of the role limit is swallowed (`invitation.service.ts:83-95`).
* An existing address accepts without its password being checked.
* `validateRoleForInvitation` (`rbac.service.ts:1459`) and `acceptInvitation`
  compare no levels: an invitation gives a role that `assignRoleToUser` would refuse
  its sender. `sp_CreateTenant` gives the owner's role likewise.
* `sendInvitationNotifications` passes a blank procedure name, so the rows that
  login and onboarding adopt are never created.

Roles, permissions, subscriptions
* "Accessible menus": the list of `getUserAccessibleMenus` (`rbac.service.ts:984`)
  has the blocked menus too, with `has_access` 0.
* `deleteOffer` is three DELETEs in one batch, each committed by itself: while it
  runs, or when it breaks off, an offer without plan rows applies to every plan.
* `assignPermissions` fails on its `?` placeholders; `isRequired || true` makes
  every linked permission required; `bulkAssignRolesToUser` does not look at a
  role's tenant; `updateSubscriptionFeaturePermission` without `permission_ids`
  lacks `@name`.
* `sp_CheckResourcePermission` answers no for users of a tenant; an expired
  row keeps the permission from being given again; revocation does not cascade.
* A plan that is no longer offered cannot be left: `changeSubscription` asks
  for its price. `applicableCycles` is inserted twice; `recordOfferUsage` has no
  caller; `updateOffer` compares no dates when one is given.
* `PermissionsModule` and `SystemModule` are not imported; the tenant and usage
  middlewares run before the guards that set what they read.

Platforms and files
* Sync jobs are filed and never read; `since` is ignored by the platforms; a
  sync overwrites the metadata and with it the campaign tag; the tokens of
  Instagram and Facebook cannot be refreshed.
* `net_growth` of a day synced twice is not end − start; a full sync of YouTube
  writes a day's views over totals.
* "Metrics included in fetch": where a platform has no metrics of its own for
  one content it answers `{}`, and `saveDailySnapshot` stores `views || 0` over
  the number just fetched (Twitter, TikTok, Twitch); YouTube answers with the
  last 28 days.
* `deleteFolder` reports success when the listing failed and removes 1000 keys
  at most; errors of `DeleteObjects` are not looked at.

## 5. Proofs

Every theorem holds for any sets of users, slots, sockets, rows, plans, days and
bounds. What they assume is named in the modules: bounds are natural numbers,
`None` stands outside the sets it stands beside, `Owner` is a function; sets
whose members are counted are finite (`UsersAssumption`, `FiniteAssumption`,
`AreasAssumption`). No theorem has a hypothesis of its own: what the code does not
give is excepted in the property, by name.

Few of the properties are inductive. They speak of the time when no request is
under way or except what a history names, so nearly every proof has an invariant
that says what a request knows *between* two of its statements.

* `ChannelMembershipProofs`: `TypeCorrect`; `AbandonedFrozen` (a request can
  begin only for an active member); `NoOwnerFromNowhere` (a promotion to owner
  needs an owner). `SingleOwner`: unless there were rivals, one request at most
  promotes, and from its UPDATE that demotes on there is no owner row
  (`TransferAlone`). `OwnerGoesLast`: what a request that is not stale knows of
  the rows is still so at its UPDATE (`KnowsWell`). `CountMatchesRows`:
  `CountSettled` says nothing while a request is half-way, so the invariant
  `CountExact` relates `memberCount` to the active rows *at every pc*, with what
  all the requests in flight have flipped and not yet counted; it sums over any
  number of slots by counting the set of outstanding credits and that of
  outstanding debits.
* `ChatProofs`, of four specifications. Permission to send: `PermissionTyped`;
  `PermissionStaysGone`. Delivery: `TypeCorrect`; `RegistryIsExact`;
  `NoStrangerEver`, by `Sourced` (members, cache, joins under way and lists of
  broadcasts hold only users who were members once); `ReachesUndisturbed`, by
  `Complete` (while undisturbed all copies of the membership agree, and who has
  joined is in the entry). Receipts: `ReceiptsAlwaysLast`, an action property,
  and `MarkingAlwaysHolds`. A receipt is overwritten by the auto-read of a
  direct channel only, so the invariant says that such a channel, while it has
  two participants, has receipts of the other one only (`Paired`, `Addressed`),
  and that a marking knows messages that were there before it (`Informed`).
  Of `ChatAndSignUp`, an invariant for each of its four parts:
  `ChatStaysConsistent`, `SignUpStaysConsistent`, and the action property
  `DeadFilesStayUnsent` (`SentFilesExist`, which `chat_and_sign_up` checks as a
  part of `ChatSettles`).
  - Messages: the rows a request has still to link to its message with those it
    has linked are the files it was sent with (`Underway`), and a file that two
    requests never held together is sent by one at most and linked to nothing
    until then (`SentOnce`).
  - Notifications: a job takes off only a mute that is over, or that was renewed
    between its SELECT and its UPDATE, and is about to notify nobody who had
    muted the channel before (`JobSound`, `QuietIsMuted`); no job and no notice
    is about a message that is not sent (`Unsent`).
  - Onboarding: what a request has written of its tenant is what the statements
    before its next one write (`TenantsFit`), no two requests make the same
    tenant (`TenantsApart`), and one nobody works at is complete unless a
    statement failed (`TenantsDone`); `HalvesExplained` and `LockHeld` follow.
  - Sign-in: a callback that makes the user does so while there is none and goes
    on only when the key is made or known to have failed, and any other has found
    the user that is there (`CallsFit`); one callback at most makes it, the
    address being UNIQUE (`OneMaker`).
* `InvitationsProofs`: `TypeCorrect`; `AdmitsOnce`, with `Resolved` (a call that
  works on an invitation works on one that exists); `AcceptanceStays`;
  `CancellationHolds`; `PendingOnce`, made inductive by what a send knows
  between its check and its INSERT: unless two overlapped, an address with
  several invitations has joined, and whoever is about to insert one has found
  nothing pending.
* `UserKeysProofs`: `TypeCorrect`; `KeyFollows` (`KeyFollowsPassword`). The key
  statements are kept apart by the row lock alone: the invariant says that
  whoever is past its UPDATE of `users` holds it (`Alone`), and what such a call
  knows between its statements (`Knows`): none is active before a storing, and a
  change or recovery at its COMMIT has the active row under its own password.
  `KeyStaysOpen` (`KeyOpensUnlessFault`) follows from `OpensUnlessFault`: an
  active key opens with the old password until a call has touched it, and with
  the call's new one from its last key statement to its COMMIT.
* `SessionsProofs`: `SessionsImplementStore`, the refinement. Each action is
  an `Open`, an `Exchange`, a `Close` or a stutter; tokens are distinct because
  the UNIQUE index refuses the others, and the UPDATE of a refresh that was
  overtaken by a logout exchanges nothing, as it leaves `is_active` alone. The
  invariant adds that the row a refresh has read is there. `TypeCorrect` and
  `LoginStaysSafe`: the passwords compared and those about to be are no more
  than the counter has let through (`Counted`, with one request at most between
  INCR and EXPIRE), and a session nothing disturbed has one refresh under way,
  which carries the token of the row (`Kept`).
* `SubscriptionsProofs`: `TypeCorrect`; `BillingStaysConsistent`;
  `MailsTellOfEnds`. `BillingInv` adds to the four conjuncts of
  `BillingConsistent` that a tenant which is not `mixed` has one call at most
  (`Separate`), that until its permissions are reset the tenant is on the plan
  they will follow (`Applied`), that before the new default is set there is none
  (`Cleared`), and that between the two statements of a deletion nobody is on
  the plan or on the way to it (`Deleting`, with `Backed` for the other side).
* `AccessControlProofs`: `AccessTypeAlways`, `RolesAlwaysConsistent`,
  `AccessAlwaysConsistent`, `ClosedAlwaysHolds`. The checks of `RbacService` are
  statements before the write, so the invariant says what is left of them at the
  write: the level an assigning request knows is below the ceiling and the role
  it compared still is (`Measured`), the role of a row about to be inserted was
  seen (`Seen`), and a role about to be deleted is held by nobody and named by no
  other request (`Vacated`), unless the histories say that two met. A menu that
  is not muddled has one editor at most, who has brought a known part of what
  was asked (`Linking`, `Clearing`, `Filling`); the visits under way are counted
  with the views of a link (`LinkInv`). The helper `Highest` is shown to be the
  maximum of any finite set of levels.
* `AreasProofs`: an inductive invariant for each area, and then for `AreasSpec`.
  - Codes, verifiers, reset tokens: `GuessesStayBounded`, `SpentOnlyOnce`,
    `CodesStaySpent`. What two requests did not find unused together, one
    request at most has found (`AcceptedOnce`, `HandedOnce`, `ChangedOnce`), a
    wrong guess was counted before it was answered (`WrongCounted`), and no code
    is live between the DELETE and the INSERT of the only sender, nor while there is
    no user but that of the one registration under way (`OneSender`).
  - Accounts and their numbers: `PlatformsStayConsistent`. `AccountGoes` says
    which request is about to make the account active or give it tokens; `InHand`
    that a token a request holds is accepted by the platform and is nobody
    else's. For the numbers, `MergesWell` and `FilesWell` say what a sync that
    missed no other still knows of the rows; `Chained` is `GrowthChains`
    without `Latest`, which is shown to be the maximum of a set of days, by the
    well-foundedness of `<`.
  - Offers, limits and shares: `AllowancesStayConsistent`, `RootedAlways`,
    `SharingStaysDead`. The rows of an offer with those its one maker has still
    to insert are what was asked for (`OneMaker`, `Due`); the usage of a limit
    with the invitations about to be counted is what was sent (`LimitsInv`,
    which counts them in every step); a request to grant was begun by a root or
    by one who was given the right to share (`Entitled`, `Remembered`).
  - Files: `FilesStayConsistent`. Between the copy and the deletion, a move that
    nobody disturbs has the same file under both keys (`BothHeld`).
  - Events: `EventsStayConsistent`. If one event about a facet that nobody has
    crossed is under way, all those under way tell what is so (`Uncrossed`), and
    beyond doubt they always do (`Beyond`).

Only model-checked: all liveness and the combinations with it
(`ChangesTakeEffect`, `EveryCallEnds`, `PersistentInviteeJoins`, `LimitLifts`,
`ChatSettles` but for `SentFilesExist`, `SignUpEnds`, `SchedulerWorks`, of which
`MailsTellOfEnds` is proved), since TLAPS does not reach fairness. Every
invariant that a run checks is also a theorem.

## 6. Not modelled, and why

* The last two rows of section 1: single statements, I/O to third parties,
  text, cryptography on data, and procedures whose text the repository lacks.
* Queries: search, mentions, older pages, analytics, comparisons, reports,
  `checkFeatureAccess` and the like read, and write nothing.
* `pinChannel`, `muteChannel` and `updateChannel` write columns no property
  reads; `unread_count` is written and never read.
* Dead code: `ChatService.uploadAttachment`, `saveContentMetrics` of the base
  platform, `PresenceService`.
* Read replicas, SQL Server's isolation below a statement, and several Node
  processes at once: the gateway's maps are per process, and the code assumes
  one.

## 7. Plan

What is left, most useful first:

1. `ChatChannel`: `ChannelMembership`, `SendPermission` and `ChannelDelivery`
   over one shared membership, so that removal, cached permission and broadcast
   meet in one behaviour.
2. Proofs of the safety that liveness rests on: for `EveryCallEnds`,
   `SignUpEnds` and `ChangesTakeEffect`, that a step brings a request nearer to
   its end by some measure.
3. Collaboration, once its procedures are in the repository; onboarding's
   adoption of earlier invitations belongs to it.

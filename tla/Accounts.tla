------------------------------ MODULE Accounts ------------------------------
(***************************************************************************)
(* Customer accounts and their sessions: POST customer/register and /login, *)
(* authentication/verify, facial-recognition, enable-faceId,                *)
(* forget-password and logout, and the two crons of TokenService.           *)
(*                                                                          *)
(* No route runs in a transaction: every database call is an action.  A     *)
(* session is named by the call that created it.  RegisterOtp models the    *)
(* codes themselves; here a phone has a stored code or none.                *)
(***************************************************************************)
EXTENDS Naturals, FiniteSets

CONSTANTS
    Calls,          \* the requests
    Accounts,       \* customers, each with the phone it registers
    Shared,         \* the phones a store or a courier also uses
    Devices,        \* values of deviceId
    None,           \* no device, no account, no session
    MultiSession    \* env MULTI_SESSION

ASSUME SharedAssumption == Shared \subseteq Accounts

ASSUME NoneAssumption == None \notin Accounts \cup Devices \cup Calls

ASSUME MultiSessionAssumption == MultiSession \in BOOLEAN

VARIABLES
    status,     \* Customer.status of each account, "none" before it exists
    device,     \* Customer.deviceId
    coded,      \* the accounts with a row (phone, CUSTOMER) in register_otps
    live,       \* table sessions
    made,       \* Sessions.createdAt, as the position among all sessions
    clock,      \* the number of sessions made so far
    kind,       \* the route of each call
    of,         \* the account each call is about
    ref,        \* the session, or the account to activate, in its request
    dev,        \* the device it sets
    pc,         \* the next step of each call
    failed,     \* the calls a restart or a lost connection has cut off
    saw         \* auxiliary: the session makers running when each one arrived

db == <<status, device, coded, live, made, clock>>

request == <<kind, of, ref, dev, saw>>

vars == <<status, device, coded, live, made, clock, kind, of, ref, dev, pc,
          failed, saw>>

-----------------------------------------------------------------------------
Statuses == {"none", "NOT_VERIFIED", "ACTIVE"}

Kinds == {"register", "login", "face", "forget", "verify", "enable", "logout"}

\* SessionType.ACCESS; the session of a forgotten password is FORGET_PASSWORD.
IsAccess(s) == kind[s] \in {"login", "face"}

Makers == {"login", "face", "forget"}

PCs == {"idle", "uncoded", "found", "allowed", "sending", "verified", "done"}

Running(c) == pc[c] \notin {"idle", "done"} /\ c \notin failed

At(c, k, step) == kind[c] = k /\ pc[c] = step /\ c \notin failed

GoTo(c, step) == pc' = [pc EXCEPT ![c] = step]

\* AccessTokenStrategy.validate; nothing ever sets Sessions.valid to false.
Authorised(s) ==
    /\ s \in live
    /\ IsAccess(s)
    /\ status[of[s]] = "ACTIVE"

\* The database is the one earlier requests left: customers without a session,
\* still to be verified and holding a code, or verified and perhaps with a device.
Init ==
    /\ status \in [Accounts -> Statuses]
    /\ device \in [Accounts -> Devices \cup {None}]
    /\ \A a \in Accounts : device[a] # None =>
          /\ status[a] = "ACTIVE"
          /\ \A b \in Accounts \ {a} : device[b] # device[a]
    /\ coded = {a \in Accounts : status[a] = "NOT_VERIFIED"}
    /\ live = {}
    /\ made = [c \in Calls |-> 0]
    /\ clock = 0
    /\ kind = [c \in Calls |-> "none"]
    /\ of = [c \in Calls |-> None]
    /\ ref = [c \in Calls |-> None]
    /\ dev = [c \in Calls |-> None]
    /\ pc = [c \in Calls |-> "idle"]
    /\ failed = {}
    /\ saw = [c \in Calls |-> {}]

-----------------------------------------------------------------------------
(* First statements                                                        *)

\* A request is seen with its first statement; one refused there (an unknown
\* phone or device, a wrong password or code) changes nothing and is no step.
Receive(c, k, a, r, d, step) ==
    /\ pc[c] = "idle"
    /\ kind' = [kind EXCEPT ![c] = k]
    /\ of' = [of EXCEPT ![c] = a]
    /\ ref' = [ref EXCEPT ![c] = r]
    /\ dev' = [dev EXCEPT ![c] = d]
    /\ saw' = [saw EXCEPT ![c] =
                IF k \in Makers THEN {x \in Calls : Running(x) /\ kind[x] \in Makers}
                ELSE {}]
    /\ GoTo(c, step)
    /\ UNCHANGED failed

\* user.create with the nested Customer: phone and email are unique.
Register(c, a) ==
    /\ status[a] = "none"
    /\ status' = [status EXCEPT ![a] = "NOT_VERIFIED"]
    /\ Receive(c, "register", a, None, None, "uncoded")
    /\ UNCHANGED <<device, coded, live, made, clock>>

\* findFirst: the code may also be the one of a store or courier of this phone.
\* /verify/:id names the account t (None: one of another role, or no account)
\* besides the phone of the code.
Verify(c, a, t) ==
    /\ a \in coded \cup Shared
    /\ Receive(c, "verify", a, t, None, "found")
    /\ UNCHANGED db

\* Mutant: the status is not looked at.
Login_AnyStatus(c, a) ==
    /\ status[a] # "none"
    /\ Receive(c, "login", a, None, None, "allowed")
    /\ UNCHANGED db

\* userExist and userCanLogin: a customer to be verified is sent a new code.
Login(c, a) ==
    /\ status[a] # "none"
    /\ Receive(c, "login", a, None, None,
               IF status[a] = "ACTIVE" THEN "allowed" ELSE "uncoded")
    /\ UNCHANGED db

\* findFirst of a customer that is not deleted.
ForgetPassword(c, a) ==
    /\ status[a] # "none"
    /\ Receive(c, "forget", a, None, None, "allowed")
    /\ UNCHANGED db

\* findUnique by deviceId.
LoginWithFaceId(c, d) ==
    /\ \E a \in Accounts :
          device[a] = d /\ Receive(c, "face", a, None, None, "found")
    /\ UNCHANGED db

\* The guards of @Auth on the two routes.
EnableFaceId(c, s, d) ==
    /\ Authorised(s)
    /\ Receive(c, "enable", of[s], s, d, "allowed")
    /\ UNCHANGED db

Logout(c, s) ==
    /\ Authorised(s)
    /\ Receive(c, "logout", of[s], s, None, "allowed")
    /\ UNCHANGED db

-----------------------------------------------------------------------------
(* Codes                                                                   *)

\* The upsert of generateNewNumberOTP, reached from register, from the login of
\* an account that is not verified and from forget-password.  Whether the call
\* is then refused (TOO_MANY) or sends its SMS changes nothing more.
StoreCode(c) ==
    /\ pc[c] = "uncoded"
    /\ c \notin failed
    /\ coded' = coded \cup {of[c]}
    /\ GoTo(c, "done")
    /\ UNCHANGED <<status, device, live, made, clock, request, failed>>

\* Mutant: deleteMany without its condition.
VerifyDelete_Everything(c) ==
    /\ At(c, "verify", "found")
    /\ coded' = {}
    /\ GoTo(c, "verified")
    /\ UNCHANGED <<status, device, live, made, clock, request, failed>>

\* deleteMany by phone: the rows of every role.
VerifyDelete(c) ==
    /\ At(c, "verify", "found")
    /\ coded' = coded \ {of[c]}
    /\ GoTo(c, "verified")
    /\ UNCHANGED <<status, device, live, made, clock, request, failed>>

\* Mutant: the status of the other roles.
VerifyActivate_Pending(c) ==
    /\ At(c, "verify", "verified")
    /\ status' = [a \in Accounts |->
                    IF a = ref[c] /\ status[a] # "none" THEN "PENDING" ELSE status[a]]
    /\ GoTo(c, "done")
    /\ UNCHANGED <<device, coded, live, made, clock, request, failed>>

\* The update; without a row of that id it fails, the code already consumed.
VerifyActivate(c) ==
    /\ At(c, "verify", "verified")
    /\ status' = [a \in Accounts |->
                    IF a = ref[c] /\ status[a] # "none" THEN "ACTIVE" ELSE status[a]]
    /\ GoTo(c, "done")
    /\ UNCHANGED <<device, coded, live, made, clock, request, failed>>

-----------------------------------------------------------------------------
(* Sessions                                                                *)

\* Mutant: only the access sessions go.
FaceClear_AccessOnly(c) ==
    /\ At(c, "face", "found")
    /\ live' = IF MultiSession THEN live
               ELSE {s \in live : of[s] # of[c] \/ ~IsAccess(s)}
    /\ GoTo(c, "allowed")
    /\ UNCHANGED <<status, device, coded, made, clock, request, failed>>

\* deleteMany of the user's sessions, of either type.
FaceClear(c) ==
    /\ At(c, "face", "found")
    /\ live' = IF MultiSession THEN live ELSE {s \in live : of[s] # of[c]}
    /\ GoTo(c, "allowed")
    /\ UNCHANGED <<status, device, coded, made, clock, request, failed>>

\* generateToken.
CreateSession(c) ==
    /\ pc[c] = "allowed"
    /\ c \notin failed
    /\ kind[c] \in Makers
    /\ live' = live \cup {c}
    /\ clock' = clock + 1
    /\ made' = [made EXCEPT ![c] = clock + 1]
    /\ GoTo(c, IF kind[c] = "forget" THEN "sending" ELSE "done")
    /\ UNCHANGED <<status, device, coded, request, failed>>

\* An email, or a code.
ForgetSend(c) ==
    /\ At(c, "forget", "sending")
    /\ \E step \in {"done", "uncoded"} : GoTo(c, step)
    /\ UNCHANGED <<db, request, failed>>

\* update of deviceId, which is unique.
EnableWrite(c) ==
    /\ At(c, "enable", "allowed")
    /\ \/ /\ \A a \in Accounts \ {of[c]} : device[a] # dev[c]
          /\ device' = [device EXCEPT ![of[c]] = dev[c]]
          /\ GoTo(c, "done")
       \/ /\ \E a \in Accounts \ {of[c]} : device[a] = dev[c]
          /\ GoTo(c, "done")
          /\ UNCHANGED device
    /\ UNCHANGED <<status, coded, live, made, clock, request, failed>>

\* delete by jti: throws, changing nothing, when the session is gone.
LogoutDelete(c) ==
    /\ At(c, "logout", "allowed")
    /\ live' = live \ {ref[c]}
    /\ GoTo(c, "done")
    /\ UNCHANGED <<status, device, coded, made, clock, request, failed>>

-----------------------------------------------------------------------------
(* Crons and failures                                                      *)

\* deleteExpiredTokens and deleteExpiredForgetPasswordTokens: the sessions of
\* one type created at or before some time.
DeleteExpired(access) ==
    /\ \E t \in 1 .. clock :
          live' = {s \in live : IsAccess(s) # access \/ made[s] > t}
    /\ UNCHANGED <<status, device, coded, made, clock, request, pc, failed>>

\* A restart, or a lost connection to the database.
Fail(c) ==
    /\ Running(c)
    /\ failed' = failed \cup {c}
    /\ UNCHANGED <<db, request, pc>>

Next ==
    \/ \E c \in Calls :
          \/ \E a \in Accounts :
                \/ Register(c, a) \/ Login(c, a) \/ ForgetPassword(c, a)
                \/ \E t \in Accounts \cup {None} : Verify(c, a, t)
          \/ \E d \in Devices :
                \/ LoginWithFaceId(c, d)
                \/ \E s \in Calls : EnableFaceId(c, s, d)
          \/ \E s \in Calls : Logout(c, s)
          \/ StoreCode(c) \/ VerifyDelete(c) \/ VerifyActivate(c)
          \/ FaceClear(c) \/ CreateSession(c) \/ ForgetSend(c)
          \/ EnableWrite(c) \/ LogoutDelete(c) \/ Fail(c)
    \/ \E access \in BOOLEAN : DeleteExpired(access)

Spec == Init /\ [][Next]_vars

-----------------------------------------------------------------------------
(* Properties                                                              *)

\* The type invariant: rows and requests have the shape of their models, and
\* only calls that created a session have one in the table.
TypeOK ==
    /\ status \in [Accounts -> Statuses]
    /\ device \in [Accounts -> Devices \cup {None}]
    /\ coded \in SUBSET Accounts
    /\ clock \in Nat
    /\ made \in [Calls -> 0 .. clock]
    /\ live \in SUBSET {c \in Calls : made[c] > 0}
    /\ kind \in [Calls -> Kinds \cup {"none"}]
    /\ of \in [Calls -> Accounts \cup {None}]
    /\ ref \in [Calls -> Accounts \cup Calls \cup {None}]
    /\ dev \in [Calls -> Devices \cup {None}]
    /\ pc \in [Calls -> PCs]
    /\ failed \in SUBSET Calls
    /\ saw \in [Calls -> SUBSET Calls]

Overlapped(c, d) == c \in saw[d] \/ d \in saw[c]

\* With MULTI_SESSION off, a session that a face login created is the user's only
\* one unless another was created later or by a call that ran at the same time:
\* loginWithFaceId deletes and creates in two statements.
LoneSession ==
    MultiSession \/
    \A f, s \in live :
        (kind[f] = "face" /\ of[s] = of[f] /\ made[s] < made[f]) => Overlapped(s, f)

VerifiedAccounts == {a \in Accounts : status[a] = "ACTIVE"}

AccessSessions == {[id |-> s, of |-> of[s]] : s \in {c \in live : IsAccess(c)}}

Ages == [c \in Calls |-> IF IsAccess(c) THEN made[c] ELSE 0]

Control ==
    INSTANCE SessionControl WITH
        Ids <- Calls,
        verified <- VerifiedAccounts,
        sessions <- AccessSessions,
        age <- Ages

\* Seen by the guards of the routes, the access sessions are under control:
\* although loginWithFaceId does not look at the status, and every session is
\* created after other awaits, only verified customers are granted one; it ends
\* by a request of its own customer or after all the older ones, whoever else
\* logs in or out; and one that ended never comes back.
ControlsAccess == Control!Spec

\* What may leave a customer to be verified without a stored code: a
\* registration that has not stored it, cut off or still running; and a
\* verification that consumed it and did not activate this customer, because it
\* is still running, was cut off, or was for another account.
Uncoded(c, a) ==
    /\ of[c] = a
    /\ \/ kind[c] = "register" /\ pc[c] = "uncoded"
       \/ kind[c] = "verify" /\ pc[c] = "verified"
       \/ kind[c] = "verify" /\ pc[c] = "done" /\ ref[c] # a

\* A customer who still has to be verified has a code to do it with, but for the
\* cases above: register and verify are several statements each.
UnverifiedHasCode ==
    \A a \in Accounts :
        (status[a] = "NOT_VERIFIED" /\ a \notin coded) => \E c \in Calls : Uncoded(c, a)
=============================================================================

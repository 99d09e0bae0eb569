---------------------------- MODULE RegisterOtp ----------------------------
(***************************************************************************)
(* One-time codes for a phone (GuestOTPService, table register_otps):      *)
(*   generateNewNumberOTP          registration, a login of an account     *)
(*                                 that is not verified, a new store, a    *)
(*                                 forgotten password                      *)
(*   verifyNewPhoneAndReturnToken  /verify of accounts, stores, delivery   *)
(*                                 men                                     *)
(*                                                                         *)
(* Neither runs in a transaction: each database call and the SMS are       *)
(* actions of their own, and time passes between any two of them.  Times   *)
(* are kept as ages that saturate at Old, so the clock itself is           *)
(* unbounded.                                                              *)
(***************************************************************************)
EXTENDS Integers, FiniteSets

CONSTANTS
    Generations,    \* calls of generateNewNumberOTP
    Verifications,  \* calls of verifyNewPhoneAndReturnToken
    Slots,          \* the keys (phone, role) of table register_otps
    Phones,         \* phone numbers
    PhoneOf,        \* the phone of each slot
    Codes,          \* the codes generateRandomNumberString can return
    DefaultOtp,     \* whether env DEFAULT_OTP fixes the code
    Window,         \* env OTP_INVALIDATE_TIME
    Delay,          \* bound: the longest wait of a verification's findFirst
    Nobody          \* no generation, for a slot without a row

ASSUME SlotsAssumption == PhoneOf \in [Slots -> Phones]

ASSUME DefaultAssumption ==
    DefaultOtp \in BOOLEAN /\ (DefaultOtp => \E c \in Codes : Codes = {c})

ASSUME WindowAssumption == Window \in Nat /\ Delay \in Nat

ASSUME NobodyAssumption == Nobody \notin Generations

VARIABLES
    row,        \* table register_otps; the row without a writer is absent
    slot,       \* the slot each generation is for
    gpc,        \* the next step of each generation
    code,       \* the code each generation drew
    got,        \* generatedTimes as each generation read it, -1 for no row
    stamp,      \* the age of each generation's `new Date()`
    count,      \* generatedTimes as each generation's upsert returned it
    life,       \* auxiliary: the generation that created the row written to
    vpc,        \* the next step of each verification
    vphone,     \* the phone each verification is for
    asked,      \* the age of each verification's `Date.now()`
    found,      \* auxiliary: the generation whose code was accepted
    foundAge    \* auxiliary: how long before `Date.now()` it was stored

gvars == <<slot, gpc, code, got, stamp, count, life>>

vvars == <<vpc, vphone, asked, found, foundAge>>

vars == <<row, slot, gpc, code, got, stamp, count, life, vpc, vphone, asked,
          found, foundAge>>

-----------------------------------------------------------------------------
\* What is older than any cutoff that can still be compared with.
Old == Window + Delay + 1

Ages == 0 .. Old

Older(a) == IF a < Old THEN a + 1 ELSE Old

\* SMS are sent while dbOtp.generatedTimes is at most Limit; createdAt is
\* refreshed while the generatedTimes read is at most RefreshLimit.
Limit == 2

RefreshLimit == 3

\* A row holds the code its last writer gen drew; age is the age of createdAt.
\* gen, life and wrote are auxiliary: the generation that wrote the row last, the
\* one that created it, and how long ago the last one wrote.
Row == [gen : Generations \cup {Nobody}, life : Generations \cup {Nobody},
        times : Nat, age : Ages, wrote : Ages]

NoRow == [gen |-> Nobody, life |-> Nobody, times |-> 0, age |-> 0, wrote |-> 0]

Present(s) == row[s].gen # Nobody

GPCs == {"idle", "read", "written", "sent", "refused", "returned", "failed"}

Wrote(g) == gpc[g] \in {"written", "sent", "refused", "returned"}

VPCs == {"idle", "asked", "found", "verified", "refused", "failed"}

\* What each call is for, and what the random generator will return, is fixed
\* at the start; no code has been requested yet.
Init ==
    /\ row = [s \in Slots |-> NoRow]
    /\ slot \in [Generations -> Slots]
    /\ gpc = [g \in Generations |-> "idle"]
    /\ code \in [Generations -> Codes]
    /\ got = [g \in Generations |-> 0]
    /\ stamp = [g \in Generations |-> 0]
    /\ count = [g \in Generations |-> 0]
    /\ life = [g \in Generations |-> Nobody]
    /\ vpc = [v \in Verifications |-> "idle"]
    /\ vphone \in [Verifications -> Phones]
    /\ asked = [v \in Verifications |-> 0]
    /\ found = [v \in Verifications |-> Nobody]
    /\ foundAge = [v \in Verifications |-> 0]

-----------------------------------------------------------------------------
(* generateNewNumberOTP                                                    *)

\* findUnique; `new Date()` is evaluated as soon as the read returns.
GenRead(g) ==
    LET s == slot[g] IN
    /\ gpc[g] = "idle"
    /\ got' = [got EXCEPT ![g] = IF Present(s) THEN row[s].times ELSE -1]
    /\ stamp' = [stamp EXCEPT ![g] = 0]
    /\ gpc' = [gpc EXCEPT ![g] = "read"]
    /\ UNCHANGED <<row, slot, code, count, life, vvars>>

\* `undefined <= 3` is false: createdAt is kept when there was no row to read.
Refreshes(g) == DefaultOtp \/ got[g] \in 0 .. RefreshLimit

\* Mutant: the default of the count is one lower.
Created_BelowZero(g) ==
    [gen |-> g, life |-> g, times |-> -1, age |-> 0, wrote |-> 0]

Created(g) == [gen |-> g, life |-> g, times |-> 0, age |-> 0, wrote |-> 0]

\* Mutant: the count is computed from what was read.
Updated_FromRead(g) ==
    LET r == row[slot[g]] IN
    [gen |-> g, life |-> r.life, times |-> got[g] + 1,
     age |-> IF Refreshes(g) THEN stamp[g] ELSE r.age, wrote |-> 0]

\* Mutant: the update leaves out the new code.
Updated_KeepsCode(g) ==
    LET r == row[slot[g]] IN
    [r EXCEPT !.times = @ + 1, !.age = IF Refreshes(g) THEN stamp[g] ELSE @]

Updated(g) ==
    LET r == row[slot[g]] IN
    [gen |-> g, life |-> r.life, times |-> r.times + 1,
     age |-> IF Refreshes(g) THEN stamp[g] ELSE r.age, wrote |-> 0]

\* upsert: the default count is 0 and the increment is atomic, whatever was
\* read before.  (What was read is not needed afterwards.)
GenUpsert(g) ==
    LET s == slot[g]
        new == IF Present(s) THEN Updated(g) ELSE Created(g)
    IN  /\ gpc[g] = "read"
        /\ row' = [row EXCEPT ![s] = new]
        /\ count' = [count EXCEPT ![g] = new.times]
        /\ life' = [life EXCEPT ![g] = new.life]
        /\ got' = [got EXCEPT ![g] = 0]
        /\ stamp' = [stamp EXCEPT ![g] = 0]
        /\ gpc' = [gpc EXCEPT ![g] = "written"]
        /\ UNCHANGED <<slot, code, vvars>>

\* Mutant: the limit is one lower.
GenSend_OneEarly(g) ==
    /\ gpc[g] = "written"
    /\ gpc' = [gpc EXCEPT ![g] = IF count[g] >= Limit THEN "refused" ELSE "sent"]
    /\ UNCHANGED <<row, slot, code, got, stamp, count, life, vvars>>

\* Mutant: there is no limit.
GenSend_Always(g) ==
    /\ gpc[g] = "written"
    /\ gpc' = [gpc EXCEPT ![g] = "sent"]
    /\ UNCHANGED <<row, slot, code, got, stamp, count, life, vvars>>

\* With DEFAULT_OTP nothing is limited and nothing is sent.
GenSend(g) ==
    /\ gpc[g] = "written"
    /\ gpc' = [gpc EXCEPT ![g] = IF DefaultOtp THEN "returned"
                                 ELSE IF count[g] > Limit THEN "refused"
                                 ELSE "sent"]
    /\ UNCHANGED <<row, slot, code, got, stamp, count, life, vvars>>

\* A restart, a lost connection, or two upserts that both create the row and
\* meet at the unique index (phone, role).
GenFail(g) ==
    /\ gpc[g] \in {"read", "written"}
    /\ gpc' = [gpc EXCEPT ![g] = "failed"]
    /\ got' = [got EXCEPT ![g] = 0]
    /\ stamp' = [stamp EXCEPT ![g] = 0]
    /\ UNCHANGED <<row, slot, code, count, life, vvars>>

-----------------------------------------------------------------------------
(* verifyNewPhoneAndReturnToken                                            *)

\* The cutoff is computed from `Date.now()` before findFirst is sent.
VerifyAsk(v) ==
    /\ vpc[v] = "idle"
    /\ vpc' = [vpc EXCEPT ![v] = "asked"]
    /\ UNCHANGED <<row, gvars, vphone, asked, found, foundAge>>

\* The slots of the phone, whatever the role, whose row has the code and was
\* created no longer than Window before the cutoff was computed.
Matching(v, otp) ==
    {s \in Slots : /\ PhoneOf[s] = vphone[v]
                   /\ Present(s)
                   /\ code[row[s].gen] = otp
                   /\ row[s].age <= Window + asked[v]}

VerifyRead(v, otp) ==
    LET match == Matching(v, otp) IN
    /\ vpc[v] = "asked"
    /\ \/ /\ match = {}
          /\ vpc' = [vpc EXCEPT ![v] = "refused"]
          /\ UNCHANGED <<found, foundAge>>
       \/ \E s \in match :
             /\ vpc' = [vpc EXCEPT ![v] = "found"]
             /\ found' = [found EXCEPT ![v] = row[s].gen]
             /\ foundAge' = [foundAge EXCEPT ![v] = row[s].wrote - asked[v]]
    /\ asked' = [asked EXCEPT ![v] = 0]
    /\ UNCHANGED <<row, gvars, vphone>>

\* Mutant: the rows are not deleted.
VerifyDelete_Keeps(v) ==
    /\ vpc[v] = "found"
    /\ vpc' = [vpc EXCEPT ![v] = "verified"]
    /\ UNCHANGED <<row, gvars, vphone, asked, found, foundAge>>

\* deleteMany({ phone }): every role.
VerifyDelete(v) ==
    /\ vpc[v] = "found"
    /\ row' = [s \in Slots |-> IF PhoneOf[s] = vphone[v] THEN NoRow ELSE row[s]]
    /\ vpc' = [vpc EXCEPT ![v] = "verified"]
    /\ UNCHANGED <<gvars, vphone, asked, found, foundAge>>

VerifyFail(v) ==
    /\ vpc[v] \in {"asked", "found"}
    /\ vpc' = [vpc EXCEPT ![v] = "failed"]
    /\ asked' = [asked EXCEPT ![v] = 0]
    /\ UNCHANGED <<row, gvars, vphone, found, foundAge>>

-----------------------------------------------------------------------------
Waiting(v) == vpc[v] = "asked"

\* Time passes, while no findFirst has waited for longer than the bound.
Tick ==
    /\ \A v \in Verifications : Waiting(v) => asked[v] < Delay
    /\ row' = [s \in Slots |->
                 [row[s] EXCEPT !.age = IF Present(s) THEN Older(@) ELSE 0,
                                !.wrote = IF Present(s) THEN Older(@) ELSE 0]]
    /\ stamp' = [g \in Generations |->
                   IF gpc[g] = "read" THEN Older(stamp[g]) ELSE stamp[g]]
    /\ asked' = [v \in Verifications |->
                   IF Waiting(v) THEN asked[v] + 1 ELSE asked[v]]
    /\ UNCHANGED <<slot, gpc, code, got, count, life, vpc, vphone, found, foundAge>>

Next ==
    \/ \E g \in Generations : GenRead(g) \/ GenUpsert(g) \/ GenSend(g) \/ GenFail(g)
    \/ \E v \in Verifications :
          \/ VerifyAsk(v) \/ VerifyDelete(v) \/ VerifyFail(v)
          \/ \E otp \in Codes : VerifyRead(v, otp)
    \/ Tick

Spec == Init /\ [][Next]_vars

-----------------------------------------------------------------------------
(* Properties                                                              *)

\* Type correctness.
TypeOK ==
    /\ row \in [Slots -> Row]
    /\ slot \in [Generations -> Slots]
    /\ gpc \in [Generations -> GPCs]
    /\ code \in [Generations -> Codes]
    /\ got \in [Generations -> Nat \cup {-1}]
    /\ stamp \in [Generations -> Ages]
    /\ count \in [Generations -> Nat]
    /\ life \in [Generations -> Generations \cup {Nobody}]
    /\ vpc \in [Verifications -> VPCs]
    /\ vphone \in [Verifications -> Phones]
    /\ found \in [Verifications -> Generations \cup {Nobody}]
    /\ asked \in [Verifications -> 0 .. Delay]
    /\ foundAge \in [Verifications -> -Delay .. Old]

\* However requests for codes overlap, at most three SMS are sent for a row
\* between its creation and the verification that deletes it.
SmsLimit ==
    \A g \in Generations :
        Cardinality({h \in Generations : gpc[h] = "sent" /\ life[h] = g}) <= 3

\* A request is refused only after three other requests stored codes 0, 1 and
\* 2 in the same row: a verification in between lifts the limit.
RefusedOnlyAfterThree ==
    \A g \in Generations : gpc[g] = "refused" =>
        \E h \in [0 .. Limit -> Generations] :
            \A i \in 0 .. Limit :
                h[i] # g /\ life[h[i]] = life[g] /\ count[h[i]] = i

\* A code is accepted only when it was stored at most the window before the
\* verification computed its cutoff, although later requests refresh createdAt,
\* a delayed upsert writes an old date and the lookup itself may be delayed.
AcceptedFresh ==
    \A v \in Verifications :
        vpc[v] \in {"found", "verified"} => foundAge[v] <= Window

\* Once a verification has ended, the code it accepted is in no row any more:
\* only verifications that overlap can accept one code twice.
UsedUp ==
    \A v \in Verifications : vpc[v] = "verified" =>
        \A s \in Slots : row[s].gen # found[v]

\* The limit locks a phone rather than slowing it down: a row past the limit
\* holds a code that was never sent, so the code the user received last is not
\* accepted any more, and no SMS is sent until a verification succeeds.
ThrottledCodeUnsent ==
    \A s \in Slots :
        Present(s) /\ row[s].times > Limit => gpc[row[s].gen] # "sent"

=============================================================================

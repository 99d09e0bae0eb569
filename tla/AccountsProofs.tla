--------------------------- MODULE AccountsProofs ---------------------------
(***************************************************************************)
(* Theorems about Accounts for any number of requests, customers and        *)
(* devices, with MULTI_SESSION on or off.                                   *)
(***************************************************************************)
EXTENDS Accounts, TLAPS

-----------------------------------------------------------------------------
(* Type correctness                                                        *)

\* A call that has arrived is about an account, and one that created a session is
\* past the statement that does.
Calling ==
    \A c \in Calls :
        /\ pc[c] # "idle" => of[c] \in Accounts /\ kind[c] \in Kinds
        /\ made[c] > 0 => kind[c] \in Makers /\ pc[c] \in {"sending", "uncoded", "done"}

Shape == TypeOK /\ Calling

LEMMA InitShape == Init => Shape
  BY DEF Init, Shape, TypeOK, Calling, Statuses, PCs

LEMMA SessionOwner ==
    ASSUME Shape, NEW s \in live
    PROVE  /\ s \in Calls
           /\ of[s] \in Accounts
           /\ kind[s] \in Makers
           /\ pc[s] \in {"sending", "uncoded", "done"}
  BY DEF Shape, TypeOK, Calling

LEMMA ReceiveShape ==
    ASSUME Shape, NEW c \in Calls, NEW k \in Kinds, NEW a \in Accounts,
           NEW r \in Accounts \cup Calls \cup {None}, NEW d \in Devices \cup {None},
           NEW step \in PCs \ {"idle"}, Receive(c, k, a, r, d, step),
           status' \in [Accounts -> Statuses],
           UNCHANGED <<device, coded, live, made, clock>>
    PROVE  Shape'
<1>1. TypeOK'
  <2>1. saw' \in [Calls -> SUBSET Calls]
    BY DEF Shape, TypeOK, Receive
  <2>2. /\ kind' \in [Calls -> Kinds \cup {"none"}]
        /\ of' \in [Calls -> Accounts \cup {None}]
        /\ ref' \in [Calls -> Accounts \cup Calls \cup {None}]
        /\ dev' \in [Calls -> Devices \cup {None}]
        /\ pc' \in [Calls -> PCs]
    BY DEF Shape, TypeOK, Receive, GoTo
  <2> QED
    BY <2>1, <2>2 DEF Shape, TypeOK, Receive
<1>2. Calling'
  BY DEF Shape, TypeOK, Calling, Receive, GoTo
<1> QED
  BY <1>1, <1>2 DEF Shape

\* A call goes on, to a step from which its session, if any, is behind it.
LEMMA GoOnCalling ==
    ASSUME Shape, NEW c \in Calls, NEW step \in PCs, GoTo(c, step),
           pc[c] # "idle", step # "idle", UNCHANGED <<kind, of, made>>,
           made[c] > 0 => step \in {"sending", "uncoded", "done"}
    PROVE  Calling' /\ pc' \in [Calls -> PCs]
  BY DEF Shape, TypeOK, Calling, GoTo

LEMMA NextShape == Shape /\ [Next]_vars => Shape'
<1> SUFFICES ASSUME Shape, [Next]_vars PROVE Shape'
  OBVIOUS
<1> USE DEF Kinds, PCs
<1>1. ASSUME NEW c \in Calls, NEW a \in Accounts, Register(c, a) PROVE Shape'
  <2>1. status' \in [Accounts -> Statuses]
    BY <1>1 DEF Register, Shape, TypeOK, Statuses
  <2> QED
    BY <1>1, <2>1, ReceiveShape DEF Register
<1>2. ASSUME NEW c \in Calls, NEW a \in Accounts, Login(c, a) PROVE Shape'
  <2>1. status' \in [Accounts -> Statuses]
    BY <1>2 DEF Login, db, Shape, TypeOK
  <2>2. CASE status[a] = "ACTIVE"
    BY <1>2, <2>1, <2>2, ReceiveShape DEF Login, db
  <2>3. CASE status[a] # "ACTIVE"
    BY <1>2, <2>1, <2>3, ReceiveShape DEF Login, db
  <2> QED
    BY <2>2, <2>3
<1>3. ASSUME NEW c \in Calls, NEW a \in Accounts, ForgetPassword(c, a) PROVE Shape'
  <2>1. status' \in [Accounts -> Statuses]
    BY <1>3 DEF ForgetPassword, db, Shape, TypeOK
  <2> QED
    BY <1>3, <2>1, ReceiveShape DEF ForgetPassword, db
<1>4. ASSUME NEW c \in Calls, NEW a \in Accounts, NEW t \in Accounts \cup {None},
             Verify(c, a, t)
      PROVE  Shape'
  <2>1. status' \in [Accounts -> Statuses]
    BY <1>4 DEF Verify, db, Shape, TypeOK
  <2> QED
    BY <1>4, <2>1, ReceiveShape DEF Verify, db
<1>5. ASSUME NEW c \in Calls, NEW d \in Devices, LoginWithFaceId(c, d) PROVE Shape'
  <2>1. status' \in [Accounts -> Statuses]
    BY <1>5 DEF LoginWithFaceId, db, Shape, TypeOK
  <2> QED
    BY <1>5, <2>1, ReceiveShape DEF LoginWithFaceId, db
<1>6. ASSUME NEW c \in Calls, NEW s \in Calls, NEW d \in Devices, EnableFaceId(c, s, d)
      PROVE  Shape'
  <2>1. status' \in [Accounts -> Statuses]
    BY <1>6 DEF EnableFaceId, db, Shape, TypeOK
  <2>2. of[s] \in Accounts
    BY <1>6, SessionOwner DEF EnableFaceId, Authorised
  <2> QED
    BY <1>6, <2>1, <2>2, ReceiveShape DEF EnableFaceId, db
<1>7. ASSUME NEW c \in Calls, NEW s \in Calls, Logout(c, s) PROVE Shape'
  <2>1. status' \in [Accounts -> Statuses]
    BY <1>7 DEF Logout, db, Shape, TypeOK
  <2>2. of[s] \in Accounts
    BY <1>7, SessionOwner DEF Logout, Authorised
  <2> QED
    BY <1>7, <2>1, <2>2, ReceiveShape DEF Logout, db
<1>8. ASSUME NEW c \in Calls, StoreCode(c) PROVE Shape'
  <2>1. Calling' /\ pc' \in [Calls -> PCs]
    BY <1>8, GoOnCalling DEF StoreCode, request
  <2>2. of[c] \in Accounts
    BY <1>8 DEF StoreCode, Shape, Calling
  <2> QED
    BY <1>8, <2>1, <2>2 DEF StoreCode, request, Shape, TypeOK
<1>9. ASSUME NEW c \in Calls, VerifyDelete(c) PROVE Shape'
  <2>1. made[c] = 0
    BY <1>9 DEF VerifyDelete, At, Shape, TypeOK, Calling
  <2>2. Calling' /\ pc' \in [Calls -> PCs]
    BY <1>9, <2>1, GoOnCalling DEF VerifyDelete, At, request
  <2> QED
    BY <1>9, <2>2 DEF VerifyDelete, request, Shape, TypeOK
<1>10. ASSUME NEW c \in Calls, VerifyActivate(c) PROVE Shape'
  <2>1. status' \in [Accounts -> Statuses]
    BY <1>10 DEF VerifyActivate, Shape, TypeOK, Statuses
  <2>2. Calling' /\ pc' \in [Calls -> PCs]
    BY <1>10, GoOnCalling DEF VerifyActivate, At, request
  <2> QED
    BY <1>10, <2>1, <2>2 DEF VerifyActivate, request, Shape, TypeOK
<1>11. ASSUME NEW c \in Calls, FaceClear(c) PROVE Shape'
  <2>1. made[c] = 0
    BY <1>11 DEF FaceClear, At, Shape, TypeOK, Calling
  <2>2. Calling' /\ pc' \in [Calls -> PCs]
    BY <1>11, <2>1, GoOnCalling DEF FaceClear, At, request
  <2>3. live' \subseteq live
    BY <1>11 DEF FaceClear
  <2> QED
    BY <1>11, <2>2, <2>3 DEF FaceClear, request, Shape, TypeOK
<1>12. ASSUME NEW c \in Calls, CreateSession(c) PROVE Shape'
  <2>1. clock' \in Nat /\ made' \in [Calls -> 0 .. clock']
    BY <1>12 DEF CreateSession, Shape, TypeOK
  <2>2. live' \in SUBSET {x \in Calls : made'[x] > 0}
    BY <1>12 DEF CreateSession, Shape, TypeOK
  <2>3. pc' \in [Calls -> PCs]
    BY <1>12 DEF CreateSession, GoTo, Shape, TypeOK
  <2>4. Calling'
    BY <1>12 DEF CreateSession, GoTo, request, Shape, TypeOK, Calling, Makers
  <2> QED
    BY <1>12, <2>1, <2>2, <2>3, <2>4 DEF CreateSession, request, Shape, TypeOK
<1>13. ASSUME NEW c \in Calls, ForgetSend(c) PROVE Shape'
  <2>1. PICK step \in {"done", "uncoded"} : GoTo(c, step)
    BY <1>13 DEF ForgetSend
  <2>2. Calling' /\ pc' \in [Calls -> PCs]
    BY <1>13, <2>1, GoOnCalling DEF ForgetSend, At, request, db
  <2> QED
    BY <1>13, <2>2 DEF ForgetSend, request, db, Shape, TypeOK
<1>14. ASSUME NEW c \in Calls, EnableWrite(c) PROVE Shape'
  <2>1. GoTo(c, "done")
    BY <1>14 DEF EnableWrite
  <2>2. Calling' /\ pc' \in [Calls -> PCs]
    BY <1>14, <2>1, GoOnCalling DEF EnableWrite, At, request
  <2>3. device' \in [Accounts -> Devices \cup {None}]
    BY <1>14 DEF EnableWrite, Shape, TypeOK
  <2> QED
    BY <1>14, <2>2, <2>3 DEF EnableWrite, request, Shape, TypeOK
<1>15. ASSUME NEW c \in Calls, LogoutDelete(c) PROVE Shape'
  <2>1. Calling' /\ pc' \in [Calls -> PCs]
    BY <1>15, GoOnCalling DEF LogoutDelete, At, request
  <2> QED
    BY <1>15, <2>1 DEF LogoutDelete, request, Shape, TypeOK
<1>16. ASSUME NEW c \in Calls, Fail(c) PROVE Shape'
  BY <1>16 DEF Fail, request, db, Shape, TypeOK, Calling
<1>17. ASSUME NEW access \in BOOLEAN, DeleteExpired(access) PROVE Shape'
  <2>1. live' \subseteq live
    BY <1>17 DEF DeleteExpired
  <2> QED
    BY <1>17, <2>1 DEF DeleteExpired, request, Shape, TypeOK, Calling
<1>18. CASE UNCHANGED vars
  BY <1>18 DEF vars, Shape, TypeOK, Calling
<1> QED
  BY <1>1, <1>2, <1>3, <1>4, <1>5, <1>6, <1>7, <1>8, <1>9, <1>10, <1>11, <1>12,
     <1>13, <1>14, <1>15, <1>16, <1>17, <1>18 DEF Next

\* Rows and requests keep their shape, and only calls that created a session have
\* one: the type invariant, for every reachable state.
THEOREM TypeCorrect == Spec => []TypeOK
<1>1. Spec => []Shape
  BY InitShape, NextShape, PTL DEF Spec
<1>2. Shape => TypeOK
  BY DEF Shape
<1> QED
  BY <1>1, <1>2, PTL

-----------------------------------------------------------------------------
(* Access sessions                                                         *)

\* A device is set for a verified customer, and a call that goes on to create an
\* access session or to set a device is a verified customer's.
Verified ==
    /\ \A a \in Accounts : device[a] # None => status[a] = "ACTIVE"
    /\ \A c \in Calls :
          (pc[c] \in {"found", "allowed"} /\ kind[c] \in {"login", "face", "enable"})
             => status[of[c]] = "ACTIVE"

\* A session that authorises requests belongs to a verified customer.
AccessOnlyActive == \A s \in live : IsAccess(s) => status[of[s]] = "ACTIVE"

ActiveInv == Shape /\ Verified /\ AccessOnlyActive

\* No step takes a status back from ACTIVE.
LEMMA StaysActive ==
    ASSUME Shape, [Next]_vars, NEW a \in Accounts, status[a] = "ACTIVE"
    PROVE  status'[a] = "ACTIVE"
<1>1. ASSUME NEW c \in Calls, NEW b \in Accounts, Register(c, b)
      PROVE  status'[a] = "ACTIVE"
  BY <1>1 DEF Register, Shape, TypeOK
<1>2. ASSUME NEW c \in Calls, VerifyActivate(c) PROVE status'[a] = "ACTIVE"
  BY <1>2 DEF VerifyActivate
<1>3. CASE UNCHANGED status
  BY <1>3
<1> QED
  BY <1>1, <1>2, <1>3
     DEF Next, vars, db, Login, ForgetPassword, Verify, LoginWithFaceId, EnableFaceId,
         Logout, StoreCode, VerifyDelete, FaceClear, CreateSession, ForgetSend,
         EnableWrite, LogoutDelete, Fail, DeleteExpired

\* What a step does not start, it does not hold against the customer.
LEMMA FrameVerified ==
    ASSUME ActiveInv, [Next]_vars, UNCHANGED <<device, of, kind>>, live' \subseteq live,
           \A c \in Calls : pc'[c] \in {"found", "allowed"} =>
                               pc[c] \in {"found", "allowed"}
    PROVE  Verified' /\ AccessOnlyActive'
<1>1. Verified'
  <2>1. ASSUME NEW a \in Accounts, device'[a] # None PROVE status'[a] = "ACTIVE"
    BY <2>1, StaysActive DEF ActiveInv, Verified
  <2>2. ASSUME NEW c \in Calls, pc'[c] \in {"found", "allowed"},
               kind'[c] \in {"login", "face", "enable"}
        PROVE  status'[of'[c]] = "ACTIVE"
    <3>1. of[c] \in Accounts /\ status[of[c]] = "ACTIVE"
      BY <2>2 DEF ActiveInv, Verified, Shape, Calling
    <3> QED
      BY <3>1, StaysActive DEF ActiveInv
  <2> QED
    BY <2>1, <2>2 DEF Verified
<1>2. ASSUME NEW s \in live', IsAccess(s)' PROVE status'[of'[s]] = "ACTIVE"
  <2>1. s \in live /\ IsAccess(s)
    BY <1>2 DEF IsAccess
  <2>2. of[s] \in Accounts /\ status[of[s]] = "ACTIVE"
    BY <2>1, SessionOwner DEF ActiveInv, AccessOnlyActive
  <2> QED
    BY <2>2, StaysActive DEF ActiveInv
<1> QED
  BY <1>1, <1>2 DEF AccessOnlyActive

\* A request arrives: it is allowed to go on only for a verified customer.
LEMMA ReceiveVerified ==
    ASSUME ActiveInv, [Next]_vars, NEW c \in Calls, NEW k \in Kinds, NEW a \in Accounts,
           NEW r, NEW d, NEW step, Receive(c, k, a, r, d, step),
           UNCHANGED <<device, live>>,
           (k \in {"login", "face", "enable"} /\ step \in {"found", "allowed"})
              => status[a] = "ACTIVE"
    PROVE  Verified' /\ AccessOnlyActive'
<1>1. Verified'
  <2>1. ASSUME NEW b \in Accounts, device'[b] # None PROVE status'[b] = "ACTIVE"
    BY <2>1, StaysActive DEF ActiveInv, Verified
  <2>2. ASSUME NEW x \in Calls, pc'[x] \in {"found", "allowed"},
               kind'[x] \in {"login", "face", "enable"}
        PROVE  status'[of'[x]] = "ACTIVE"
    <3>1. CASE x = c
      <4>1. kind'[c] = k /\ of'[c] = a /\ pc'[c] = step
        BY DEF Receive, GoTo, ActiveInv, Shape, TypeOK
      <4> QED
        BY <2>2, <3>1, <4>1, StaysActive DEF ActiveInv
    <3>2. CASE x # c
      <4>1. kind'[x] = kind[x] /\ of'[x] = of[x] /\ pc'[x] = pc[x]
        BY <3>2 DEF Receive, GoTo, ActiveInv, Shape, TypeOK
      <4>2. of[x] \in Accounts /\ status[of[x]] = "ACTIVE"
        BY <2>2, <4>1 DEF ActiveInv, Verified, Shape, Calling
      <4> QED
        BY <4>1, <4>2, StaysActive DEF ActiveInv
    <3> QED
      BY <3>1, <3>2
  <2> QED
    BY <2>1, <2>2 DEF Verified
<1>2. ASSUME NEW s \in live', IsAccess(s)' PROVE status'[of'[s]] = "ACTIVE"
  <2>1. s \in live /\ pc[s] # "idle"
    BY <1>2, SessionOwner DEF ActiveInv
  <2>2. s # c /\ s \in Calls
    BY <2>1, SessionOwner DEF Receive, ActiveInv
  <2>3. kind'[s] = kind[s] /\ of'[s] = of[s]
    BY <2>2 DEF Receive, ActiveInv, Shape, TypeOK
  <2>4. IsAccess(s)
    BY <1>2, <2>3 DEF IsAccess
  <2>5. of[s] \in Accounts /\ status[of[s]] = "ACTIVE"
    BY <2>1, <2>4, SessionOwner DEF ActiveInv, AccessOnlyActive
  <2> QED
    BY <2>3, <2>5, StaysActive DEF ActiveInv
<1> QED
  BY <1>1, <1>2 DEF AccessOnlyActive

LEMMA NextActive == ActiveInv /\ [Next]_vars => ActiveInv'
<1> SUFFICES ASSUME ActiveInv, [Next]_vars PROVE Verified' /\ AccessOnlyActive'
  BY NextShape DEF ActiveInv
<1>a. Shape
  BY DEF ActiveInv
<1> USE DEF Kinds
<1>1. ASSUME NEW c \in Calls, NEW a \in Accounts, Register(c, a)
      PROVE  Verified' /\ AccessOnlyActive'
  BY <1>1, ReceiveVerified DEF Register
<1>2. ASSUME NEW c \in Calls, NEW a \in Accounts, Login(c, a)
      PROVE  Verified' /\ AccessOnlyActive'
  <2>1. CASE status[a] = "ACTIVE"
    BY <1>2, <2>1, ReceiveVerified DEF Login, db
  <2>2. CASE status[a] # "ACTIVE"
    BY <1>2, <2>2, ReceiveVerified DEF Login, db
  <2> QED
    BY <2>1, <2>2
<1>3. ASSUME NEW c \in Calls, NEW a \in Accounts, ForgetPassword(c, a)
      PROVE  Verified' /\ AccessOnlyActive'
  BY <1>3, ReceiveVerified DEF ForgetPassword, db
<1>4. ASSUME NEW c \in Calls, NEW a \in Accounts, NEW t \in Accounts \cup {None},
             Verify(c, a, t)
      PROVE  Verified' /\ AccessOnlyActive'
  BY <1>4, ReceiveVerified DEF Verify, db
<1>5. ASSUME NEW c \in Calls, NEW d \in Devices, LoginWithFaceId(c, d)
      PROVE  Verified' /\ AccessOnlyActive'
  <2>1. PICK a \in Accounts : device[a] = d /\ Receive(c, "face", a, None, None, "found")
    BY <1>5 DEF LoginWithFaceId
  <2>2. status[a] = "ACTIVE"
    BY <2>1, NoneAssumption DEF ActiveInv, Verified
  <2> QED
    BY <1>5, <2>1, <2>2, ReceiveVerified DEF LoginWithFaceId, db
<1>6. ASSUME NEW c \in Calls, NEW s \in Calls, NEW d \in Devices, EnableFaceId(c, s, d)
      PROVE  Verified' /\ AccessOnlyActive'
  <2>1. of[s] \in Accounts /\ status[of[s]] = "ACTIVE"
    BY <1>6, <1>a, SessionOwner DEF EnableFaceId, Authorised
  <2> QED
    BY <1>6, <2>1, ReceiveVerified DEF EnableFaceId, db
<1>7. ASSUME NEW c \in Calls, NEW s \in Calls, Logout(c, s)
      PROVE  Verified' /\ AccessOnlyActive'
  <2>1. of[s] \in Accounts
    BY <1>7, <1>a, SessionOwner DEF Logout, Authorised
  <2> QED
    BY <1>7, <2>1, ReceiveVerified DEF Logout, db
<1>8. ASSUME NEW c \in Calls,
             StoreCode(c) \/ VerifyDelete(c) \/ VerifyActivate(c) \/ ForgetSend(c)
               \/ LogoutDelete(c)
      PROVE  Verified' /\ AccessOnlyActive'
  <2>1. UNCHANGED <<device, of, kind>> /\ live' \subseteq live
    BY <1>8 DEF StoreCode, VerifyDelete, VerifyActivate, ForgetSend, LogoutDelete, db,
                request
  <2>2. PICK step \in {"done", "verified", "uncoded"} : GoTo(c, step)
    BY <1>8 DEF StoreCode, VerifyDelete, VerifyActivate, ForgetSend, LogoutDelete
  <2> QED
    BY <1>a, <2>1, <2>2, FrameVerified DEF GoTo, Shape, TypeOK
<1>9. ASSUME NEW c \in Calls, FaceClear(c) PROVE Verified' /\ AccessOnlyActive'
  <2>1. UNCHANGED <<device, of, kind>> /\ live' \subseteq live
    BY <1>9 DEF FaceClear, request
  <2> QED
    BY <1>9, <1>a, <2>1, FrameVerified DEF FaceClear, At, GoTo, Shape, TypeOK
<1>10. ASSUME NEW c \in Calls, CreateSession(c) PROVE Verified' /\ AccessOnlyActive'
  <2>1. UNCHANGED <<device, of, kind, status>> /\ live' = live \cup {c}
    BY <1>10 DEF CreateSession, request
  <2>2. Verified'
    BY <1>10, <1>a, <2>1 DEF CreateSession, GoTo, ActiveInv, Verified, Shape, TypeOK
  <2>3. kind[c] \in {"login", "face"} => status[of[c]] = "ACTIVE"
    BY <1>10 DEF CreateSession, ActiveInv, Verified
  <2> QED
    BY <2>1, <2>2, <2>3 DEF ActiveInv, AccessOnlyActive, IsAccess
<1>11. ASSUME NEW c \in Calls, EnableWrite(c) PROVE Verified' /\ AccessOnlyActive'
  <2>1. UNCHANGED <<of, kind, live, status>>
    BY <1>11 DEF EnableWrite, request
  <2>2. status[of[c]] = "ACTIVE"
    BY <1>11 DEF EnableWrite, At, ActiveInv, Verified
  <2>3. \A a \in Accounts : device'[a] # None => status[a] = "ACTIVE"
    BY <1>11, <1>a, <2>2 DEF EnableWrite, ActiveInv, Verified, Shape, TypeOK
  <2>4. \A x \in Calls : pc'[x] \in {"found", "allowed"} => pc[x] = pc'[x]
    BY <1>11, <1>a DEF EnableWrite, GoTo, Shape, TypeOK
  <2>5. Verified'
    BY <2>1, <2>3, <2>4 DEF ActiveInv, Verified
  <2> QED
    BY <2>1, <2>5 DEF ActiveInv, AccessOnlyActive, IsAccess
<1>12. ASSUME NEW c \in Calls, Fail(c) PROVE Verified' /\ AccessOnlyActive'
  BY <1>12, FrameVerified DEF Fail, request, db
<1>13. ASSUME NEW access \in BOOLEAN, DeleteExpired(access)
       PROVE  Verified' /\ AccessOnlyActive'
  <2>1. live' \subseteq live
    BY <1>13 DEF DeleteExpired
  <2> QED
    BY <1>13, <2>1, FrameVerified DEF DeleteExpired, request
<1>14. CASE UNCHANGED vars
  BY <1>14, FrameVerified DEF vars
<1> QED
  BY <1>1, <1>2, <1>3, <1>4, <1>5, <1>6, <1>7, <1>8, <1>9, <1>10, <1>11, <1>12,
     <1>13, <1>14 DEF Next

\* Every access session is a verified customer's: neither loginWithFaceId, which
\* does not look at the status, nor a login between its awaits, makes another.
THEOREM AccessSessionsVerified == Spec => []AccessOnlyActive
<1>1. Init => ActiveInv
  BY InitShape DEF Init, ActiveInv, Verified, AccessOnlyActive
<1>2. ActiveInv => AccessOnlyActive
  BY DEF ActiveInv
<1> QED
  BY <1>1, <1>2, NextActive, PTL DEF Spec

-----------------------------------------------------------------------------
(* Sessions of a face login                                                *)

Making(c) == Running(c) /\ kind[c] \in Makers

\* Two requests that are going to create a session run at the same time.
Pairs == \A c, d \in Calls : (c # d /\ Making(c) /\ Making(d)) => Overlapped(c, d)

\* Between its two statements a face login finds only sessions of calls that ran
\* at the same time.
Cleared ==
    MultiSession \/
    \A f \in Calls, s \in live :
        (kind[f] = "face" /\ pc[f] = "allowed" /\ f \notin failed /\ of[s] = of[f])
           => Overlapped(s, f)

LoneInv == Shape /\ Pairs /\ Cleared /\ LoneSession

\* A step of a call that creates no session and clears none.
LEMMA FrameLone ==
    ASSUME LoneInv, UNCHANGED <<request, made>>, live' \subseteq live,
           failed \subseteq failed',
           \A c \in Calls : pc'[c] \notin {"idle", "done"} =>
                               pc[c] \notin {"idle", "done"},
           \A c \in Calls : (kind[c] = "face" /\ pc'[c] = "allowed") => pc[c] = "allowed"
    PROVE  Pairs' /\ Cleared' /\ LoneSession'
<1>1. \A c, d : Overlapped(c, d)' <=> Overlapped(c, d)
  BY DEF Overlapped, request
<1>2. Pairs'
  BY <1>1 DEF LoneInv, Pairs, Making, Running, request
<1>3. Cleared'
  BY <1>1 DEF LoneInv, Cleared, request
<1>4. LoneSession'
  BY <1>1 DEF LoneInv, LoneSession, request
<1> QED
  BY <1>2, <1>3, <1>4

LEMMA ReceiveLone ==
    ASSUME LoneInv, NEW c \in Calls, NEW k \in Kinds, NEW a, NEW r, NEW d, NEW step,
           Receive(c, k, a, r, d, step), UNCHANGED <<live, made>>,
           k = "face" => step # "allowed"
    PROVE  Pairs' /\ Cleared' /\ LoneSession'
<1>a. \A x \in Calls \ {c} :
         /\ kind'[x] = kind[x] /\ of'[x] = of[x] /\ pc'[x] = pc[x] /\ saw'[x] = saw[x]
         /\ Making(x)' <=> Making(x)
  BY DEF Receive, GoTo, LoneInv, Shape, TypeOK, Making, Running
<1>b. \A x, y \in Calls \ {c} : Overlapped(x, y)' <=> Overlapped(x, y)
  BY <1>a DEF Overlapped
<1>c. \A s \in live : s \in Calls \ {c}
  BY SessionOwner DEF LoneInv, Receive
<1>1. Pairs'
  <2> SUFFICES ASSUME NEW x \in Calls, NEW y \in Calls, x # y, Making(x)', Making(y)'
               PROVE  Overlapped(x, y)'
    BY DEF Pairs
  <2>1. CASE x # c /\ y # c
    BY <2>1, <1>a, <1>b DEF LoneInv, Pairs
  <2>2. CASE x = c \/ y = c
    <3>1. PICK z \in Calls : z # c /\ Making(z) /\ {x, y} = {c, z}
      BY <2>2, <1>a
    <3>2. kind'[c] = k /\ k \in Makers
      BY <2>2 DEF Making, Receive, LoneInv, Shape, TypeOK
    <3>3. z \in saw'[c]
      BY <3>1, <3>2 DEF Receive, Making, LoneInv, Shape, TypeOK
    <3> QED
      BY <3>1, <3>3 DEF Overlapped
  <2> QED
    BY <2>1, <2>2
<1>2. Cleared'
  <2>1. ~(kind'[c] = "face" /\ pc'[c] = "allowed")
    BY DEF Receive, GoTo, LoneInv, Shape, TypeOK
  <2> QED
    BY <1>a, <1>b, <1>c, <2>1 DEF LoneInv, Cleared, Receive
<1>3. LoneSession'
  BY <1>a, <1>b, <1>c DEF LoneInv, LoneSession
<1> QED
  BY <1>1, <1>2, <1>3

LEMMA NextLone == LoneInv /\ [Next]_vars => LoneInv'
<1> SUFFICES ASSUME LoneInv, [Next]_vars PROVE Pairs' /\ Cleared' /\ LoneSession'
  BY NextShape DEF LoneInv
<1>a. Shape
  BY DEF LoneInv
<1> USE DEF Kinds
<1>1. ASSUME NEW c \in Calls, NEW a \in Accounts,
             Register(c, a) \/ Login(c, a) \/ ForgetPassword(c, a)
               \/ \E t \in Accounts \cup {None} : Verify(c, a, t)
      PROVE  Pairs' /\ Cleared' /\ LoneSession'
  <2>1. UNCHANGED <<live, made>>
    BY <1>1 DEF Register, Login, ForgetPassword, Verify, db
  <2>2. PICK k, r, step : k \in Kinds \ {"face"} /\ Receive(c, k, a, r, None, step)
    BY <1>1 DEF Register, Login, ForgetPassword, Verify
  <2> QED
    BY <2>1, <2>2, ReceiveLone
<1>2. ASSUME NEW c \in Calls, NEW d \in Devices, LoginWithFaceId(c, d)
      PROVE  Pairs' /\ Cleared' /\ LoneSession'
  BY <1>2, ReceiveLone DEF LoginWithFaceId, db
<1>3. ASSUME NEW c \in Calls, NEW s \in Calls, NEW d \in Devices, EnableFaceId(c, s, d)
      PROVE  Pairs' /\ Cleared' /\ LoneSession'
  BY <1>3, ReceiveLone DEF EnableFaceId, db
<1>4. ASSUME NEW c \in Calls, NEW s \in Calls, Logout(c, s)
      PROVE  Pairs' /\ Cleared' /\ LoneSession'
  BY <1>4, ReceiveLone DEF Logout, db
<1>5. ASSUME NEW c \in Calls,
             StoreCode(c) \/ VerifyDelete(c) \/ VerifyActivate(c) \/ ForgetSend(c)
               \/ EnableWrite(c) \/ LogoutDelete(c)
      PROVE  Pairs' /\ Cleared' /\ LoneSession'
  <2>1. UNCHANGED <<request, made, failed>> /\ live' \subseteq live
    BY <1>5 DEF StoreCode, VerifyDelete, VerifyActivate, ForgetSend, EnableWrite,
                LogoutDelete, db
  <2>2. PICK step \in {"done", "verified", "uncoded"} : GoTo(c, step)
    BY <1>5 DEF StoreCode, VerifyDelete, VerifyActivate, ForgetSend, EnableWrite,
                LogoutDelete
  <2>3. pc[c] \notin {"idle", "done"}
    BY <1>5 DEF StoreCode, VerifyDelete, VerifyActivate, ForgetSend, EnableWrite,
                LogoutDelete, At
  <2> QED
    BY <1>a, <2>1, <2>2, <2>3, FrameLone DEF GoTo, Shape, TypeOK
<1>6. ASSUME NEW c \in Calls, FaceClear(c) PROVE Pairs' /\ Cleared' /\ LoneSession'
  <2>1. UNCHANGED <<request, made, failed>> /\ live' \subseteq live
    BY <1>6 DEF FaceClear
  <2>2. \A x, y : Overlapped(x, y)' <=> Overlapped(x, y)
    BY <2>1 DEF Overlapped, request
  <2>3. Pairs'
    BY <1>6, <1>a, <2>1, <2>2
       DEF FaceClear, At, GoTo, LoneInv, Pairs, Making, Running, request, Shape, TypeOK
  <2>4. Cleared'
    BY <1>6, <1>a, <2>1, <2>2 DEF FaceClear, GoTo, LoneInv, Cleared, request, Shape, TypeOK
  <2>5. LoneSession'
    BY <2>1, <2>2 DEF LoneInv, LoneSession, request
  <2> QED
    BY <2>3, <2>4, <2>5
<1>7. ASSUME NEW c \in Calls, CreateSession(c) PROVE Pairs' /\ Cleared' /\ LoneSession'
  <2>1. UNCHANGED <<request, failed>> /\ live' = live \cup {c}
    BY <1>7 DEF CreateSession
  <2>2. \A x, y : Overlapped(x, y)' <=> Overlapped(x, y)
    BY <2>1 DEF Overlapped, request
  <2>3. Pairs'
    BY <1>7, <1>a, <2>1, <2>2
       DEF CreateSession, GoTo, LoneInv, Pairs, Making, Running, request, Shape, TypeOK
  <2>4. Making(c)
    BY <1>7 DEF CreateSession, Making, Running
  <2>5. Cleared'
    <3> SUFFICES ASSUME ~MultiSession, NEW f \in Calls, NEW s \in live', kind'[f] = "face",
                        pc'[f] = "allowed", f \notin failed', of'[s] = of'[f]
                 PROVE  Overlapped(s, f)'
      BY DEF Cleared
    <3>1. f # c /\ pc[f] = "allowed"
      BY <1>7, <1>a DEF CreateSession, GoTo, Shape, TypeOK
    <3>2. CASE s = c
      <4>1. Making(f)
        BY <2>1, <3>1 DEF Making, Running, Makers, request
      <4> QED
        BY <2>2, <2>4, <3>1, <3>2, <4>1 DEF LoneInv, Pairs
    <3>3. CASE s # c
      BY <2>1, <2>2, <3>1, <3>3 DEF LoneInv, Cleared, request
    <3> QED
      BY <3>2, <3>3
  <2>6. LoneSession'
    <3> SUFFICES ASSUME ~MultiSession, NEW f \in live', NEW s \in live', kind'[f] = "face",
                        of'[s] = of'[f], made'[s] < made'[f]
                 PROVE  Overlapped(s, f)'
      BY DEF LoneSession
    <3>1. \A x \in Calls \ {c} : made'[x] = made[x] /\ made[x] <= clock
      BY <1>7, <1>a DEF CreateSession, Shape, TypeOK
    <3>2. clock \in Nat /\ made'[c] = clock + 1
      BY <1>7, <1>a DEF CreateSession, Shape, TypeOK
    <3>3. f \in Calls /\ s \in Calls /\ made[s] \in Nat /\ made[f] \in Nat
      BY <1>7, <1>a, <2>1, SessionOwner DEF Shape, TypeOK
    <3>4. s # c
      BY <3>1, <3>2, <3>3
    <3>5. CASE f = c
      BY <1>7, <2>1, <2>2, <3>3, <3>4, <3>5 DEF CreateSession, LoneInv, Cleared, request
    <3>6. CASE f # c
      BY <2>1, <2>2, <3>1, <3>3, <3>4, <3>6 DEF LoneInv, LoneSession, request
    <3> QED
      BY <3>5, <3>6
  <2> QED
    BY <2>3, <2>5, <2>6
<1>8. ASSUME NEW c \in Calls, Fail(c) PROVE Pairs' /\ Cleared' /\ LoneSession'
  BY <1>8, FrameLone DEF Fail, db
<1>9. ASSUME NEW access \in BOOLEAN, DeleteExpired(access)
      PROVE  Pairs' /\ Cleared' /\ LoneSession'
  <2>1. live' \subseteq live
    BY <1>9 DEF DeleteExpired
  <2> QED
    BY <1>9, <2>1, FrameLone DEF DeleteExpired
<1>10. CASE UNCHANGED vars
  BY <1>10, FrameLone DEF vars, request
<1> QED
  BY <1>1, <1>2, <1>3, <1>4, <1>5, <1>6, <1>7, <1>8, <1>9, <1>10 DEF Next

\* With MULTI_SESSION off, the sessions of a user that are older than one of a
\* face login are of calls that ran at the same time: deleteMany and create of
\* loginWithFaceId leave nothing else behind.
THEOREM FaceLoginStandsAlone == Spec => []LoneSession
<1>1. Init => LoneInv
  BY InitShape DEF Init, LoneInv, Pairs, Cleared, LoneSession, Making, Running
<1>2. LoneInv => LoneSession
  BY DEF LoneInv
<1> QED
  BY <1>1, <1>2, NextLone, PTL DEF Spec

-----------------------------------------------------------------------------
(* Customers to be verified                                                *)

CodeInv == Shape /\ UnverifiedHasCode

LEMMA ReceiveKeepsUncoded ==
    ASSUME Shape, NEW c \in Calls, NEW k, NEW b, NEW r, NEW d, NEW step,
           Receive(c, k, b, r, d, step), NEW x \in Calls, NEW a \in Accounts, Uncoded(x, a)
    PROVE  Uncoded(x, a)'
<1>1. x # c
  BY DEF Uncoded, Receive
<1> QED
  BY <1>1 DEF Uncoded, Receive, GoTo, Shape, TypeOK

\* Who had the code, or was excused for not having it, still is when neither the
\* status nor the code changes and no excused call goes on.
LEMMA FrameCode ==
    ASSUME CodeInv, UNCHANGED <<status, coded>>,
           \A x \in Calls, a \in Accounts : Uncoded(x, a) => Uncoded(x, a)'
    PROVE  UnverifiedHasCode'
  BY DEF CodeInv, UnverifiedHasCode

LEMMA NextCode == CodeInv /\ [Next]_vars => CodeInv'
<1> SUFFICES ASSUME CodeInv, [Next]_vars PROVE UnverifiedHasCode'
  BY NextShape DEF CodeInv
<1>a. Shape
  BY DEF CodeInv
<1>1. ASSUME NEW c \in Calls, NEW b \in Accounts, Register(c, b)
      PROVE  UnverifiedHasCode'
  <2> SUFFICES ASSUME NEW a \in Accounts, status'[a] = "NOT_VERIFIED", a \notin coded'
               PROVE  \E x \in Calls : Uncoded(x, a)'
    BY DEF UnverifiedHasCode
  <2>1. CASE a = b
    BY <1>1, <1>a, <2>1 DEF Register, Receive, GoTo, Uncoded, Shape, TypeOK
  <2>2. CASE a # b
    <3>1. PICK x \in Calls : Uncoded(x, a)
      BY <1>1, <1>a, <2>2 DEF Register, CodeInv, UnverifiedHasCode, Shape, TypeOK
    <3> QED
      BY <1>1, <1>a, <3>1, ReceiveKeepsUncoded DEF Register
  <2> QED
    BY <2>1, <2>2
<1>2. ASSUME NEW c \in Calls, NEW b \in Accounts,
             Login(c, b) \/ ForgetPassword(c, b)
               \/ \E t \in Accounts \cup {None} : Verify(c, b, t)
      PROVE  UnverifiedHasCode'
  <2>1. UNCHANGED <<status, coded>>
    BY <1>2 DEF Login, ForgetPassword, Verify, db
  <2>2. PICK k, r, step : Receive(c, k, b, r, None, step)
    BY <1>2 DEF Login, ForgetPassword, Verify
  <2> QED
    BY <1>a, <2>1, <2>2, ReceiveKeepsUncoded, FrameCode
<1>3. ASSUME NEW c \in Calls, NEW d \in Devices,
             LoginWithFaceId(c, d) \/ \E s \in Calls : EnableFaceId(c, s, d)
      PROVE  UnverifiedHasCode'
  <2>1. UNCHANGED <<status, coded>>
    BY <1>3 DEF LoginWithFaceId, EnableFaceId, db
  <2>2. PICK k, b, r, e, step : Receive(c, k, b, r, e, step)
    BY <1>3 DEF LoginWithFaceId, EnableFaceId
  <2> QED
    BY <1>a, <2>1, <2>2, ReceiveKeepsUncoded, FrameCode
<1>4. ASSUME NEW c \in Calls, NEW s \in Calls, Logout(c, s) PROVE UnverifiedHasCode'
  BY <1>4, <1>a, ReceiveKeepsUncoded, FrameCode DEF Logout, db
<1>5. ASSUME NEW c \in Calls, StoreCode(c) PROVE UnverifiedHasCode'
  <2> SUFFICES ASSUME NEW a \in Accounts, status'[a] = "NOT_VERIFIED", a \notin coded'
               PROVE  \E x \in Calls : Uncoded(x, a)'
    BY DEF UnverifiedHasCode
  <2>1. a # of[c]
    BY <1>5 DEF StoreCode
  <2>2. PICK x \in Calls : Uncoded(x, a)
    BY <1>5 DEF StoreCode, CodeInv, UnverifiedHasCode
  <2>3. x # c
    BY <2>1, <2>2 DEF Uncoded
  <2> QED
    BY <1>5, <1>a, <2>2, <2>3 DEF StoreCode, GoTo, request, Uncoded, Shape, TypeOK
<1>6. ASSUME NEW c \in Calls, VerifyDelete(c) PROVE UnverifiedHasCode'
  <2> SUFFICES ASSUME NEW a \in Accounts, status'[a] = "NOT_VERIFIED", a \notin coded'
               PROVE  \E x \in Calls : Uncoded(x, a)'
    BY DEF UnverifiedHasCode
  <2>1. CASE a = of[c]
    BY <1>6, <1>a, <2>1 DEF VerifyDelete, At, GoTo, request, Uncoded, Shape, TypeOK
  <2>2. CASE a # of[c]
    <3>1. PICK x \in Calls : Uncoded(x, a)
      BY <1>6, <2>2 DEF VerifyDelete, CodeInv, UnverifiedHasCode
    <3>2. x # c
      BY <2>2, <3>1 DEF Uncoded
    <3> QED
      BY <1>6, <1>a, <3>1, <3>2 DEF VerifyDelete, GoTo, request, Uncoded, Shape, TypeOK
  <2> QED
    BY <2>1, <2>2
<1>7. ASSUME NEW c \in Calls, VerifyActivate(c) PROVE UnverifiedHasCode'
  <2> SUFFICES ASSUME NEW a \in Accounts, status'[a] = "NOT_VERIFIED", a \notin coded'
               PROVE  \E x \in Calls : Uncoded(x, a)'
    BY DEF UnverifiedHasCode
  <2>1. a # ref[c] /\ status[a] = "NOT_VERIFIED"
    BY <1>7, <1>a DEF VerifyActivate, Shape, TypeOK
  <2>2. PICK x \in Calls : Uncoded(x, a)
    BY <1>7, <2>1 DEF VerifyActivate, CodeInv, UnverifiedHasCode
  <2>3. Uncoded(x, a)'
    <3>1. CASE x = c
      BY <1>7, <1>a, <2>1, <2>2, <3>1
         DEF VerifyActivate, At, GoTo, request, Uncoded, Shape, TypeOK
    <3>2. CASE x # c
      BY <1>7, <1>a, <2>2, <3>2 DEF VerifyActivate, GoTo, request, Uncoded, Shape, TypeOK
    <3> QED
      BY <3>1, <3>2
  <2> QED
    BY <2>3
<1>8. ASSUME NEW c \in Calls,
             FaceClear(c) \/ CreateSession(c) \/ ForgetSend(c) \/ EnableWrite(c)
               \/ LogoutDelete(c)
      PROVE  UnverifiedHasCode'
  <2>1. UNCHANGED <<status, coded, request>>
    BY <1>8 DEF FaceClear, CreateSession, ForgetSend, EnableWrite, LogoutDelete, db
  <2>2. PICK step : GoTo(c, step)
    BY <1>8 DEF FaceClear, CreateSession, ForgetSend, EnableWrite, LogoutDelete
  <2>3. kind[c] \notin {"register", "verify"}
    BY <1>8 DEF FaceClear, CreateSession, ForgetSend, EnableWrite, LogoutDelete, At, Makers
  <2>4. ASSUME NEW x \in Calls, NEW a \in Accounts, Uncoded(x, a) PROVE Uncoded(x, a)'
    <3>1. x # c
      BY <2>3, <2>4 DEF Uncoded
    <3> QED
      BY <1>a, <2>1, <2>2, <2>4, <3>1 DEF GoTo, request, Uncoded, Shape, TypeOK
  <2> QED
    BY <2>1, <2>4, FrameCode
<1>9. ASSUME NEW c \in Calls, Fail(c) PROVE UnverifiedHasCode'
  BY <1>9, FrameCode DEF Fail, db, request, Uncoded
<1>10. ASSUME NEW access \in BOOLEAN, DeleteExpired(access) PROVE UnverifiedHasCode'
  BY <1>10, FrameCode DEF DeleteExpired, request, Uncoded
<1>11. CASE UNCHANGED vars
  BY <1>11, FrameCode DEF vars, Uncoded
<1> QED
  BY <1>1, <1>2, <1>3, <1>4, <1>5, <1>6, <1>7, <1>8, <1>9, <1>10, <1>11 DEF Next

\* A customer to be verified has a code stored, unless a registration or a
\* verification is between two of its statements, was cut off there, or used the
\* customer's phone for another account.
THEOREM UnverifiedCanVerify == Spec => []UnverifiedHasCode
<1>1. Init => CodeInv
  BY InitShape DEF Init, CodeInv, UnverifiedHasCode
<1>2. CodeInv => UnverifiedHasCode
  BY DEF CodeInv
<1> QED
  BY <1>1, <1>2, NextCode, PTL DEF Spec

-----------------------------------------------------------------------------
(* Accounts implements SessionControl                                      *)

\* What a call is about is fixed when it arrives.
LEMMA CallFixed ==
    ASSUME Shape, [Next]_vars, NEW x \in Calls, pc[x] # "idle"
    PROVE  /\ kind'[x] = kind[x] /\ of'[x] = of[x] /\ ref'[x] = ref[x]
           /\ pc'[x] # "idle"
<1>1. ASSUME NEW c \in Calls, NEW k, NEW a, NEW r, NEW d, NEW step,
             Receive(c, k, a, r, d, step)
      PROVE  /\ kind'[x] = kind[x] /\ of'[x] = of[x] /\ ref'[x] = ref[x]
             /\ pc'[x] # "idle"
  BY <1>1 DEF Receive, GoTo, Shape, TypeOK
<1>2. ASSUME NEW c \in Calls, NEW step, step # "idle", GoTo(c, step), UNCHANGED request
      PROVE  /\ kind'[x] = kind[x] /\ of'[x] = of[x] /\ ref'[x] = ref[x]
             /\ pc'[x] # "idle"
  BY <1>2 DEF GoTo, request, Shape, TypeOK
<1>3. ASSUME NEW c \in Calls, NEW a \in Accounts,
             \/ Register(c, a) \/ Login(c, a) \/ ForgetPassword(c, a)
             \/ \E t \in Accounts \cup {None} : Verify(c, a, t)
      PROVE  \E k, r, step : Receive(c, k, a, r, None, step)
  BY <1>3 DEF Register, Login, ForgetPassword, Verify
<1>4. ASSUME NEW c \in Calls, NEW d \in Devices,
             LoginWithFaceId(c, d) \/ \E s \in Calls : EnableFaceId(c, s, d)
      PROVE  \E k, a, r, e, step : Receive(c, k, a, r, e, step)
  BY <1>4 DEF LoginWithFaceId, EnableFaceId
<1>5. ASSUME NEW c \in Calls,
             \/ StoreCode(c) \/ VerifyDelete(c) \/ VerifyActivate(c) \/ FaceClear(c)
             \/ ForgetSend(c) \/ EnableWrite(c) \/ LogoutDelete(c)
      PROVE  \E step : step # "idle" /\ GoTo(c, step) /\ UNCHANGED request
  <2>1. \E step \in {"done", "verified", "uncoded", "allowed"} : GoTo(c, step)
    BY <1>5 DEF StoreCode, VerifyDelete, VerifyActivate, FaceClear, ForgetSend,
                EnableWrite, LogoutDelete
  <2>2. UNCHANGED request
    BY <1>5 DEF StoreCode, VerifyDelete, VerifyActivate, FaceClear, ForgetSend,
                EnableWrite, LogoutDelete
  <2> QED
    BY <2>1, <2>2
<1>6. ASSUME NEW c \in Calls, CreateSession(c)
      PROVE  \E step : step # "idle" /\ GoTo(c, step) /\ UNCHANGED request
  BY <1>6 DEF CreateSession
<1>7. ASSUME NEW c \in Calls, NEW s \in Calls, Logout(c, s)
      PROVE  Receive(c, "logout", of[s], s, None, "allowed")
  BY <1>7 DEF Logout
<1>8. CASE UNCHANGED <<request, pc>>
  BY <1>8 DEF request
<1> QED
  BY <1>1, <1>2, <1>3, <1>4, <1>5, <1>6, <1>7, <1>8
     DEF Next, vars, request, Fail, DeleteExpired

\* A logout is for a session of its own customer, created before.
LogoutOwn ==
    \A c \in Calls : (kind[c] = "logout" /\ pc[c] # "idle") =>
        ref[c] \in Calls /\ pc[ref[c]] # "idle" /\ of[ref[c]] = of[c]

LEMMA NextLogoutOwn == Shape /\ LogoutOwn /\ [Next]_vars => LogoutOwn'
<1> SUFFICES ASSUME Shape, LogoutOwn, [Next]_vars, NEW c \in Calls,
                    kind'[c] = "logout", pc'[c] # "idle"
             PROVE  ref'[c] \in Calls /\ pc'[ref'[c]] # "idle" /\ of'[ref'[c]] = of'[c]
  BY DEF LogoutOwn
<1>1. CASE pc[c] # "idle"
  <2>1. /\ kind[c] = "logout" /\ ref'[c] = ref[c] /\ of'[c] = of[c]
        /\ ref[c] \in Calls /\ pc[ref[c]] # "idle" /\ of[ref[c]] = of[c]
    BY <1>1, CallFixed DEF LogoutOwn
  <2> QED
    BY <2>1, CallFixed
<1>2. CASE pc[c] = "idle"
  <2>1. ASSUME NEW x \in Calls, NEW s \in Calls, Logout(x, s)
        PROVE  ref'[c] \in Calls /\ pc'[ref'[c]] # "idle" /\ of'[ref'[c]] = of'[c]
    <3>1. s \in live /\ pc[s] # "idle" /\ pc[x] = "idle"
      BY <2>1, SessionOwner DEF Logout, Authorised, Receive
    <3>2. c = x
      BY <1>2, <2>1 DEF Logout, Receive, GoTo, Shape, TypeOK
    <3>3. ref'[c] = s /\ of'[c] = of[s]
      BY <2>1, <3>2 DEF Logout, Receive, Shape, TypeOK
    <3> QED
      BY <3>1, <3>3, CallFixed
  <2>2. ASSUME NEW x \in Calls, NEW k, NEW a, NEW r, NEW d, NEW step,
               Receive(x, k, a, r, d, step), k # "logout"
        PROVE  FALSE
    BY <1>2, <2>2 DEF Receive, GoTo, Shape, TypeOK
  <2>3. ASSUME NEW x \in Calls, NEW a \in Accounts,
               \/ Register(x, a) \/ Login(x, a) \/ ForgetPassword(x, a)
               \/ \E t \in Accounts \cup {None} : Verify(x, a, t)
        PROVE  FALSE
    <3>1. PICK k, r, step : k # "logout" /\ Receive(x, k, a, r, None, step)
      BY <2>3 DEF Register, Login, ForgetPassword, Verify
    <3> QED
      BY <2>2, <3>1
  <2>4. ASSUME NEW x \in Calls, NEW d \in Devices,
               LoginWithFaceId(x, d) \/ \E s \in Calls : EnableFaceId(x, s, d)
        PROVE  FALSE
    <3>1. PICK k, a, r, e, step : k # "logout" /\ Receive(x, k, a, r, e, step)
      BY <2>4 DEF LoginWithFaceId, EnableFaceId
    <3> QED
      BY <2>2, <3>1
  <2>5. ASSUME NEW x \in Calls,
               \/ StoreCode(x) \/ VerifyDelete(x) \/ VerifyActivate(x) \/ FaceClear(x)
               \/ CreateSession(x) \/ ForgetSend(x) \/ EnableWrite(x) \/ LogoutDelete(x)
        PROVE  FALSE
    <3>1. pc[x] # "idle" /\ \E step : GoTo(x, step)
      BY <2>5 DEF StoreCode, VerifyDelete, VerifyActivate, FaceClear, CreateSession,
                  ForgetSend, EnableWrite, LogoutDelete, At
    <3> QED
      BY <1>2, <3>1 DEF GoTo, Shape, TypeOK
  <2>6. ASSUME UNCHANGED pc PROVE FALSE
    BY <1>2, <2>6
  <2> QED
    BY <2>1, <2>3, <2>4, <2>5, <2>6 DEF Next, vars, Fail, DeleteExpired
<1> QED
  BY <1>1, <1>2

\* As long as no session is made and no status set, the calls that arrive or go
\* on change nothing the guards see.
LEMMA GuardsSeeNothing ==
    ASSUME Shape, [Next]_vars, UNCHANGED <<live, made>>
    PROVE  UNCHANGED <<AccessSessions, Ages>>
<1>1. \A s \in live : s \in Calls /\ kind'[s] = kind[s] /\ of'[s] = of[s]
  BY SessionOwner, CallFixed
<1>2. AccessSessions' = AccessSessions
  BY <1>1 DEF AccessSessions, IsAccess
<1>3. ASSUME NEW c \in Calls
      PROVE  (IF IsAccess(c) THEN made[c] ELSE 0)' = (IF IsAccess(c) THEN made[c] ELSE 0)
  <2>1. CASE pc[c] # "idle"
    BY <2>1, CallFixed DEF IsAccess
  <2>2. CASE pc[c] = "idle"
    BY <2>2 DEF Shape, TypeOK, Calling, IsAccess
  <2> QED
    BY <2>1, <2>2
<1>4. Ages' = Ages
  BY <1>3 DEF Ages
<1> QED
  BY <1>2, <1>4

\* A session ends: what is left are the sessions of those left in the table.
LEMMA SessionsEnd ==
    ASSUME Shape, [Next]_vars, live' \subseteq live, UNCHANGED <<kind, of, made>>
    PROVE  /\ AccessSessions' \subseteq AccessSessions
           /\ UNCHANGED Ages
           /\ \A row \in AccessSessions \ AccessSessions' :
                 \E s \in live \ live' : IsAccess(s) /\ row = [id |-> s, of |-> of[s]]
           /\ \A row \in AccessSessions' :
                 \E s \in live' : IsAccess(s) /\ row = [id |-> s, of |-> of[s]]
  BY DEF AccessSessions, IsAccess, Ages

LEMMA StepIsControlled ==
    ASSUME ActiveInv, LogoutOwn, [Next]_vars
    PROVE  [Control!Next]_<<VerifiedAccounts, AccessSessions, Ages>>
<1>a. Shape
  BY DEF ActiveInv
<1>1. ASSUME UNCHANGED <<status, live, made>>
      PROVE  UNCHANGED <<VerifiedAccounts, AccessSessions, Ages>>
  BY <1>a, <1>1, GuardsSeeNothing DEF VerifiedAccounts
<1>2. ASSUME NEW c \in Calls, NEW a \in Accounts, Register(c, a)
      PROVE  UNCHANGED <<VerifiedAccounts, AccessSessions, Ages>>
  <2>1. UNCHANGED VerifiedAccounts
    BY <1>a, <1>2 DEF Register, VerifiedAccounts, Shape, TypeOK
  <2> QED
    BY <1>a, <1>2, <2>1, GuardsSeeNothing DEF Register
<1>3. ASSUME NEW c \in Calls, VerifyActivate(c)
      PROVE  Control!Next \/ UNCHANGED <<VerifiedAccounts, AccessSessions, Ages>>
  <2>1. UNCHANGED <<AccessSessions, Ages>>
    BY <1>a, <1>3, GuardsSeeNothing DEF VerifyActivate
  <2>2. CASE ref[c] \in Accounts /\ status[ref[c]] # "none"
    <3>1. VerifiedAccounts' = VerifiedAccounts \cup {ref[c]}
      BY <1>3, <2>2 DEF VerifyActivate, VerifiedAccounts
    <3>2. Control!Verify(ref[c])
      BY <2>1, <3>1 DEF Control!Verify
    <3> QED
      BY <2>2, <3>2 DEF Control!Next
  <2>3. CASE ~(ref[c] \in Accounts /\ status[ref[c]] # "none")
    <3>1. VerifiedAccounts' = VerifiedAccounts
      BY <1>3, <2>3 DEF VerifyActivate, VerifiedAccounts
    <3> QED
      BY <2>1, <3>1
  <2> QED
    BY <2>2, <2>3
<1>4. ASSUME NEW c \in Calls, NEW s \in SUBSET live,
             live' = live \ s, \A x \in s : of[x] = of[c],
             of[c] \in Accounts, UNCHANGED <<status, kind, of, made>>
      PROVE  Control!Next
  <2>1. /\ AccessSessions' \subseteq AccessSessions
        /\ UNCHANGED <<Ages, VerifiedAccounts>>
        /\ \A row \in AccessSessions \ AccessSessions' : row.of = of[c]
    BY <1>a, <1>4, SessionsEnd DEF VerifiedAccounts
  <2>2. Control!End(of[c])
    BY <2>1 DEF Control!End
  <2> QED
    BY <1>4, <2>2 DEF Control!Next
<1>5. ASSUME NEW c \in Calls, FaceClear(c) PROVE Control!Next
  <2> DEFINE ended == IF MultiSession THEN {} ELSE {x \in live : of[x] = of[c]}
  <2>1. /\ live' = live \ ended /\ UNCHANGED <<status, kind, of, made>>
        /\ pc[c] = "found"
    BY <1>5, MultiSessionAssumption DEF FaceClear, request, At
  <2>2. of[c] \in Accounts
    BY <1>a, <2>1 DEF Shape, Calling
  <2>3. ended \in SUBSET live /\ \A x \in ended : of[x] = of[c]
    OBVIOUS
  <2> HIDE DEF ended
  <2> QED
    BY <2>1, <2>2, <2>3, <1>4
<1>6. ASSUME NEW c \in Calls, LogoutDelete(c) PROVE Control!Next
  <2>1. /\ live' = live \ {ref[c]} /\ UNCHANGED <<status, kind, of, made>>
        /\ pc[c] # "idle" /\ kind[c] = "logout"
    BY <1>6 DEF LogoutDelete, request, At
  <2>2. of[c] \in Accounts /\ of[ref[c]] = of[c]
    BY <1>a, <2>1 DEF Shape, Calling, LogoutOwn
  <2>3. live' = live \ (live \cap {ref[c]})
    BY <2>1
  <2> QED
    BY <2>1, <2>2, <2>3, <1>4
<1>7. ASSUME NEW c \in Calls, CreateSession(c)
      PROVE  Control!Next \/ UNCHANGED <<VerifiedAccounts, AccessSessions, Ages>>
  <2>1. /\ live' = live \cup {c} /\ UNCHANGED <<status, kind, of>>
        /\ pc[c] = "allowed" /\ made' = [made EXCEPT ![c] = clock + 1]
        /\ of[c] \in Accounts /\ made[c] = 0
    <3>1. /\ live' = live \cup {c} /\ UNCHANGED <<status, kind, of>>
          /\ pc[c] = "allowed" /\ made' = [made EXCEPT ![c] = clock + 1]
      BY <1>7 DEF CreateSession, request
    <3>2. of[c] \in Accounts /\ ~(made[c] > 0) /\ made[c] \in Nat
      BY <1>a, <3>1 DEF Shape, TypeOK, Calling
    <3> QED
      BY <3>1, <3>2
  <2>2. VerifiedAccounts' = VerifiedAccounts /\ \A x : IsAccess(x)' <=> IsAccess(x)
    BY <2>1 DEF VerifiedAccounts, IsAccess
  <2>3. CASE ~IsAccess(c)
    <3>1. AccessSessions' = AccessSessions
      BY <2>1, <2>2, <2>3 DEF AccessSessions
    <3>2. Ages' = Ages
      BY <1>a, <2>1, <2>2, <2>3 DEF Ages, Shape, TypeOK
    <3> QED
      BY <2>2, <3>1, <3>2
  <2>4. CASE IsAccess(c)
    <3>1. of[c] \in VerifiedAccounts
      BY <2>1, <2>4 DEF ActiveInv, Verified, VerifiedAccounts, IsAccess
    <3>2. AccessSessions' = AccessSessions \cup {[id |-> c, of |-> of[c]]}
      BY <2>1, <2>2, <2>4 DEF AccessSessions
    <3>3. Ages[c] = 0 /\ Ages' = [Ages EXCEPT ![c] = clock + 1]
      BY <1>a, <2>1, <2>2, <2>4 DEF Ages, Shape, TypeOK
    <3>4. Ages'[c] = clock + 1
      BY <3>3 DEF Ages
    <3>5. \A x \in Calls : Ages[x] < clock + 1
      BY <1>a DEF Ages, Shape, TypeOK
    <3>6. Control!Grant(c, of[c])
      BY <2>2, <3>1, <3>2, <3>3, <3>4, <3>5 DEF Control!Grant
    <3> QED
      BY <2>1, <3>6 DEF Control!Next
  <2> QED
    BY <2>3, <2>4
<1>8. ASSUME NEW access \in BOOLEAN, DeleteExpired(access) PROVE Control!Next
  <2>1. PICK t \in 1 .. clock :
           live' = {s \in live : IsAccess(s) # access \/ made[s] > t}
    BY <1>8 DEF DeleteExpired
  <2>2. live' \subseteq live /\ UNCHANGED <<status, kind, of, made>>
    BY <1>8, <2>1 DEF DeleteExpired, request
  <2>3. VerifiedAccounts' = VerifiedAccounts
    BY <2>2 DEF VerifiedAccounts
  <2>4. /\ AccessSessions' \subseteq AccessSessions /\ UNCHANGED Ages
        /\ \A row \in AccessSessions \ AccessSessions' :
              \E s \in live \ live' : IsAccess(s) /\ row = [id |-> s, of |-> of[s]]
        /\ \A row \in AccessSessions' :
              \E s \in live' : IsAccess(s) /\ row = [id |-> s, of |-> of[s]]
    BY <1>a, <2>2, SessionsEnd
  <2>5. ASSUME NEW row \in AccessSessions \ AccessSessions', NEW kept \in AccessSessions'
        PROVE  Ages[row.id] < Ages[kept.id]
    <3>1. PICK s \in live \ live' : IsAccess(s) /\ row = [id |-> s, of |-> of[s]]
      BY <2>4
    <3>2. PICK k \in live' : IsAccess(k) /\ kept = [id |-> k, of |-> of[k]]
      BY <2>4
    <3>3. s \in Calls /\ k \in Calls /\ made[s] \in Nat /\ made[k] \in Nat
      BY <1>a, <2>2, SessionOwner DEF Shape, TypeOK
    <3>4. ~(made[s] > t) /\ access = TRUE
      BY <2>1, <3>1 DEF IsAccess
    <3>5. made[k] > t
      BY <2>1, <3>2, <3>4 DEF IsAccess
    <3>6. Ages[row.id] = made[s] /\ Ages[kept.id] = made[k] /\ t \in Nat
      BY <3>1, <3>2, <3>3 DEF Ages
    <3> QED
      BY <3>3, <3>4, <3>5, <3>6
  <2>6. Control!Expire
    BY <2>3, <2>4, <2>5 DEF Control!Expire
  <2> QED
    BY <2>6 DEF Control!Next
<1>9. ASSUME \/ \E c \in Calls : \E a \in Accounts :
                   \/ Login(c, a) \/ ForgetPassword(c, a)
                   \/ \E t \in Accounts \cup {None} : Verify(c, a, t)
             \/ \E c \in Calls : \E d \in Devices :
                   LoginWithFaceId(c, d) \/ \E s \in Calls : EnableFaceId(c, s, d)
             \/ \E c \in Calls : \E s \in Calls : Logout(c, s)
             \/ \E c \in Calls : \/ StoreCode(c) \/ VerifyDelete(c) \/ ForgetSend(c)
                                 \/ EnableWrite(c) \/ Fail(c)
             \/ UNCHANGED vars
      PROVE  UNCHANGED <<status, live, made>>
  BY <1>9 DEF Login, ForgetPassword, Verify, LoginWithFaceId, EnableFaceId, Logout,
              StoreCode, VerifyDelete, ForgetSend, EnableWrite, Fail, vars, db
<1> QED
  BY <1>1, <1>2, <1>3, <1>5, <1>6, <1>7, <1>8, <1>9 DEF Next

\* Whatever requests of whichever customers overlap and are cut off, the access
\* sessions are granted to verified customers only, end by their own customer
\* or in the order of their age, and stay ended.
THEOREM SessionsControlled == Spec => ControlsAccess
<1>1. Init => ActiveInv /\ LogoutOwn
  BY InitShape DEF Init, ActiveInv, Verified, AccessOnlyActive, LogoutOwn
<1>2. Init => Control!Init
  <2> SUFFICES ASSUME Init PROVE Control!Init
    OBVIOUS
  <2>1. AccessSessions = {} /\ VerifiedAccounts \in SUBSET Accounts
    BY DEF Init, AccessSessions, VerifiedAccounts
  <2>2. Ages = [c \in Calls |-> 0]
    BY DEF Init, Ages, IsAccess
  <2> QED
    BY <2>1, <2>2 DEF Control!Init
<1>3. ActiveInv => Shape
  BY DEF ActiveInv
<1> QED
  BY <1>1, <1>2, <1>3, NextActive, NextLogoutOwn, StepIsControlled, PTL
     DEF Spec, ControlsAccess, Control!Spec

=============================================================================

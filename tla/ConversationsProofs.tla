------------------------- MODULE ConversationsProofs -------------------------
(***************************************************************************)
(* Theorems about Conversations, and then about ChatMessages, which extends *)
(* it, for any requests, accounts, orders, messages and fetches.            *)
(***************************************************************************)
EXTENDS ChatMessages, TLAPS

\* What a request says, by its kind.
LEMMA RequestFields ==
    ASSUME TypeOK, NEW r \in Requests
    PROVE  /\ req[r].by \in Account
           /\ req[r].kind = "post" => req[r].to \in Account
           /\ req[r].kind = "order" => req[r].order \in Orders
  BY InputsAssumption, RolesAssumption DEF TypeOK, Request

LEMMA MembersTyped ==
    ASSUME TypeOK, NEW r \in Requests
    PROVE  /\ req[r].kind = "post" => PostMembers(r) \subseteq Account
           /\ req[r].kind = "order" /\ DeliveryMan[req[r].order] # Nobody
              => OrderMembers(r) \subseteq Account
<1>1. req[r].by.user \in Users
  BY RequestFields DEF Account
<1>2. CASE req[r].kind = "order" /\ DeliveryMan[req[r].order] # Nobody
  <2>1. /\ Customer[req[r].order] \in Users
        /\ DeliveryMan[req[r].order] \in Users
    BY <1>2, RequestFields, OrdersAssumption
  <2> QED
    BY <1>1, <1>2, <2>1, RolesAssumption DEF OrderMembers, As, Account
<1> QED
  BY <1>2, RequestFields DEF PostMembers

-----------------------------------------------------------------------------
\* Only an order that has a courier gets beyond the lookup.
CourierKnown ==
    \A r \in Requests :
        /\ pc[r] = "fill" => req[r].kind = "order"
        /\ req[r].kind = "order" /\ pc[r] \in {"create", "fill"}
           => DeliveryMan[req[r].order] # Nobody

LEMMA StepTyped ==
    TypeOK /\ CourierKnown /\ [Next]_vars => TypeOK' /\ CourierKnown'
<1> SUFFICES ASSUME TypeOK, CourierKnown, [Next]_vars
    PROVE  TypeOK' /\ CourierKnown'
  OBVIOUS
<1>1. ASSUME NEW r \in Requests, PostFind(r) PROVE TypeOK' /\ CourierKnown'
  BY <1>1 DEF TypeOK, CourierKnown, PostFind, PostMatches
<1>2. ASSUME NEW r \in Requests, PostCreate(r) PROVE TypeOK' /\ CourierKnown'
  BY <1>2, MembersTyped DEF TypeOK, CourierKnown, PostCreate
<1>3. ASSUME NEW r \in Requests, OrderFind(r) PROVE TypeOK' /\ CourierKnown'
  BY <1>3 DEF TypeOK, CourierKnown, OrderFind, OrderMatches
<1>4. ASSUME NEW r \in Requests, OrderCreate(r) PROVE TypeOK' /\ CourierKnown'
  BY <1>4 DEF TypeOK, CourierKnown, OrderCreate
<1>5. ASSUME NEW r \in Requests, OrderFill(r) PROVE TypeOK' /\ CourierKnown'
  BY <1>5, MembersTyped DEF TypeOK, CourierKnown, OrderFill
<1>6. ASSUME NEW r \in Requests, Fail(r) PROVE TypeOK' /\ CourierKnown'
  BY <1>6 DEF TypeOK, CourierKnown, Fail
<1>7. CASE UNCHANGED vars
  BY <1>7 DEF TypeOK, CourierKnown, vars
<1> QED
  BY <1>1, <1>2, <1>3, <1>4, <1>5, <1>6, <1>7 DEF Next

LEMMA TypedAlways == Spec => [](TypeOK /\ CourierKnown)
<1>1. Init => TypeOK /\ CourierKnown
  BY DEF Init, TypeOK, CourierKnown
<1> QED
  BY <1>1, StepTyped, PTL DEF Spec

\* Type correctness of the conversations and their requests: no member row is
\* ever written for a courier an order does not have.
THEOREM TypeCorrect == Spec => []TypeOK
  BY TypedAlways, PTL

-----------------------------------------------------------------------------
Wanted(r) == IF req[r].kind = "post" THEN PostMembers(r) ELSE OrderMembers(r)

\* How far each request has come, and what that says of its conversation.
Progress ==
    \A r \in Requests :
        /\ pc[r] \in {"find", "create"} => r \notin made
        /\ pc[r] = "find" => seen[r] = {}
        /\ r \notin made => members[r] = {}
        /\ pc[r] = "fill" => r \in made /\ members[r] = {}
        /\ members[r] # {} => members[r] = Wanted(r)
        /\ r \in made /\ members[r] = {}
           => req[r].kind = "order" /\ pc[r] \in {"fill", "failed"}

\* A request that did not find a conversation saw none with the members it is
\* about to write, or has written.
Looked ==
    \A r \in Requests :
        /\ \A c \in seen[r] : c \in made /\ members[c] # {}
        /\ FindsItsOwn(r) /\ (pc[r] \in {"create", "fill"} \/ r \in made)
           => \A c \in seen[r] : ~(Wanted(r) \subseteq members[c])

LEMMA WantedNonEmpty == \A r \in Requests : Wanted(r) # {}
  BY DEF Wanted, PostMembers, OrderMembers

LEMMA StepProgress ==
    TypeOK /\ CourierKnown /\ Progress /\ [Next]_vars => Progress'
<1> SUFFICES ASSUME TypeOK, CourierKnown, Progress, [Next]_vars PROVE Progress'
  OBVIOUS
<1>0. ASSUME UNCHANGED req
      PROVE  \A r \in Requests : Wanted(r)' = Wanted(r)
  BY <1>0 DEF Wanted, PostMembers, OrderMembers
<1>1. ASSUME NEW r \in Requests, PostFind(r) PROVE Progress'
  BY <1>0, <1>1 DEF TypeOK, Progress, PostFind
<1>2. ASSUME NEW r \in Requests, PostCreate(r) PROVE Progress'
  <2>1. PostMembers(r) = Wanted(r) /\ Wanted(r) # {}
    BY <1>2, WantedNonEmpty DEF PostCreate, Wanted
  <2> QED
    BY <1>0, <1>2, <2>1 DEF TypeOK, Progress, PostCreate
<1>3. ASSUME NEW r \in Requests, OrderFind(r) PROVE Progress'
  BY <1>0, <1>3 DEF TypeOK, Progress, OrderFind
<1>4. ASSUME NEW r \in Requests, OrderCreate(r) PROVE Progress'
  BY <1>0, <1>4 DEF TypeOK, Progress, OrderCreate
<1>5. ASSUME NEW r \in Requests, OrderFill(r) PROVE Progress'
  <2>1. OrderMembers(r) = Wanted(r) /\ Wanted(r) # {}
    BY <1>5, WantedNonEmpty DEF OrderFill, CourierKnown, Wanted
  <2> QED
    BY <1>0, <1>5, <2>1 DEF TypeOK, Progress, OrderFill
<1>6. ASSUME NEW r \in Requests, Fail(r) PROVE Progress'
  BY <1>0, <1>6 DEF TypeOK, Progress, Fail
<1>7. CASE UNCHANGED vars
  BY <1>0, <1>7 DEF Progress, vars
<1> QED
  BY <1>1, <1>2, <1>3, <1>4, <1>5, <1>6, <1>7 DEF Next

LEMMA ProgressAlways == Spec => []Progress
<1>1. Init => Progress
  BY DEF Init, Progress
<1> QED
  BY <1>1, TypedAlways, StepProgress, PTL DEF Spec

\* An empty conversation always belongs to a request that is between its two
\* statements or failed there.
THEOREM EmptyAreUnfilled == Spec => []EmptyOnlyUnfilled
<1>1. TypeOK /\ Progress => EmptyOnlyUnfilled
  BY DEF TypeOK, Progress, EmptyOnlyUnfilled
<1> QED
  BY <1>1, TypedAlways, ProgressAlways, PTL

-----------------------------------------------------------------------------
\* The members of a conversation are written once, after every request that
\* has it in seen looked: what a request saw stays what it saw.
LEMMA SeenStays ==
    ASSUME TypeOK, Progress, Looked, UNCHANGED req,
           NEW r \in Requests, r \notin made \/ members[r] = {},
           \A c \in Requests \ {r} : members'[c] = members[c],
           made \subseteq made'
    PROVE  \A q \in Requests : \A c \in seen[q] :
               /\ c \in made' /\ members'[c] = members[c] /\ members[c] # {}
               /\ Wanted(q)' = Wanted(q)
<1> SUFFICES ASSUME NEW q \in Requests, NEW c \in seen[q]
             PROVE  /\ c \in made' /\ members'[c] = members[c] /\ members[c] # {}
                    /\ Wanted(q)' = Wanted(q)
  OBVIOUS
<1>1. c \in made /\ members[c] # {}
  BY DEF Looked
<1>2. c \in Requests \ {r}
  BY <1>1 DEF TypeOK, Progress
<1>3. Wanted(q)' = Wanted(q)
  BY DEF Wanted, PostMembers, OrderMembers
<1> QED
  BY <1>1, <1>2, <1>3

\* A lookup that found nothing saw no conversation with the wanted members.
LEMMA FoundNothing ==
    ASSUME TypeOK, NEW r \in Requests, FindsItsOwn(r),
           \/ req[r].kind = "post" /\ PostMatches(r) = {}
           \/ req[r].kind = "order" /\ OrderMatches(r) = {}
    PROVE  \A c \in made : ~(Wanted(r) \subseteq members[c])
<1>1. CASE req[r].kind = "post"
  BY <1>1 DEF Wanted, PostMembers, PostMatches
<1>2. CASE req[r].kind = "order"
  BY <1>2 DEF Wanted, OrderMembers, OrderMatches, FindsItsOwn
<1> QED
  BY <1>1, <1>2

LEMMA StepLooked ==
    TypeOK /\ CourierKnown /\ Progress /\ Looked /\ [Next]_vars => Looked'
<1> SUFFICES ASSUME TypeOK, CourierKnown, Progress, Looked, [Next]_vars
    PROVE  Looked'
  OBVIOUS
<1>0. ASSUME UNCHANGED req
      PROVE  \A q \in Requests : /\ Wanted(q)' = Wanted(q)
                                 /\ FindsItsOwn(q)' = FindsItsOwn(q)
  BY <1>0 DEF Wanted, PostMembers, OrderMembers, FindsItsOwn
<1>1. ASSUME NEW r \in Requests, PostFind(r) \/ OrderFind(r) PROVE Looked'
  <2>1. /\ UNCHANGED <<made, members, req>>
        /\ \A q \in Requests \ {r} : pc'[q] = pc[q] /\ seen'[q] = seen[q]
        /\ seen'[r] = {c \in made : members[c] # {}}
        /\ r \notin made
        /\ pc'[r] \in {"create", "done"}
    BY <1>1 DEF TypeOK, Progress, PostFind, OrderFind
  <2>2. pc'[r] = "create" =>
            \/ req[r].kind = "post" /\ PostMatches(r) = {}
            \/ req[r].kind = "order" /\ OrderMatches(r) = {}
    BY <1>1 DEF TypeOK, PostFind, OrderFind
  <2>3. pc'[r] = "create" /\ FindsItsOwn(r)
        => \A c \in made : ~(Wanted(r) \subseteq members[c])
    BY <2>2, FoundNothing
  <2> QED
    BY <1>0, <2>1, <2>3 DEF Looked
<1>2. ASSUME NEW r \in Requests,
             PostCreate(r) \/ OrderCreate(r) \/ OrderFill(r)
      PROVE  Looked'
  <2>1. /\ UNCHANGED <<req, seen>>
        /\ r \notin made \/ members[r] = {}
        /\ made \subseteq made' /\ made' \subseteq made \cup {r}
        /\ pc[r] \in {"create", "fill"}
        /\ \A q \in Requests \ {r} : pc'[q] = pc[q] /\ members'[q] = members[q]
    BY <1>2 DEF TypeOK, Progress, PostCreate, OrderCreate, OrderFill
  <2>2. \A q \in Requests : \A c \in seen[q] :
            c \in made' /\ members'[c] = members[c] /\ members[c] # {}
    BY <2>1, SeenStays
  <2>3. ASSUME NEW q \in Requests, FindsItsOwn(q),
               pc'[q] \in {"create", "fill"} \/ q \in made',
               NEW c \in seen[q]
        PROVE  ~(Wanted(q) \subseteq members[c])
    BY <2>1, <2>3 DEF Looked
  <2> QED
    BY <1>0, <2>1, <2>2, <2>3 DEF Looked
<1>3. ASSUME NEW r \in Requests, Fail(r) PROVE Looked'
  BY <1>0, <1>3 DEF TypeOK, Looked, Fail
<1>4. CASE UNCHANGED vars
  BY <1>0, <1>4 DEF Looked, vars
<1> QED
  BY <1>1, <1>2, <1>3, <1>4 DEF Next

\* Two conversations of the same accounts come from an overlap, or from a
\* courier's request: whoever looks up what it would make saw no other one.
THEOREM DuplicatesOverlap == Spec => []DuplicateOnlyFromOverlap
<1>1. Init => Looked
  BY DEF Init, Looked
<1>2. TypeOK /\ Progress /\ Looked => DuplicateOnlyFromOverlap
  <2> SUFFICES ASSUME TypeOK, Progress, Looked, NEW c \in made, NEW d \in made,
                      members[c] = members[d], members[d] # {}, FindsItsOwn(d)
               PROVE  c \notin seen[d]
    BY DEF DuplicateOnlyFromOverlap
  <2>1. d \in Requests /\ members[c] = Wanted(d)
    BY DEF TypeOK, Progress
  <2> QED
    BY <2>1 DEF Looked
<1> QED
  BY <1>1, <1>2, TypedAlways, ProgressAlways, StepLooked, PTL DEF Spec

-----------------------------------------------------------------------------
\* A conversation that has members keeps them, so an answer stays right.
LEMMA StepAnswer ==
    TypeOK /\ CourierKnown /\ Progress /\ AnswerIsTheirs /\ [Next]_vars
    => AnswerIsTheirs'
<1> SUFFICES ASSUME TypeOK, CourierKnown, Progress, AnswerIsTheirs, [Next]_vars
    PROVE  AnswerIsTheirs'
  OBVIOUS
<1> DEFINE Right(r, S) ==
      IF req[r].kind = "post"
      THEN PostMembers(r) \subseteq S
      ELSE \E a, b \in S : /\ {a.role, b.role} = {"CUSTOMER", "DELIVERY"}
                           /\ a.user = req[r].by.user
                           /\ b.user \in {Customer[req[r].order],
                                          DeliveryMan[req[r].order]}
<1>0. ASSUME NEW r \in Requests, UNCHANGED req,
             \A q \in Requests \ {r} : pc'[q] = pc[q] /\ answer'[q] = answer[q],
             \A c \in made : c \in made' /\ members[c] \subseteq members'[c],
             pc'[r] = "done" => answer'[r] \in made'
                                /\ Right(r, members'[answer'[r]])
      PROVE  AnswerIsTheirs'
  <2>1. ASSUME NEW q \in Requests, pc'[q] = "done"
        PROVE  answer'[q] \in made' /\ Right(q, members'[answer'[q]])
    <3>1. CASE q = r
      BY <1>0, <2>1, <3>1
    <3>2. CASE q # r
      <4>1. answer[q] \in made /\ Right(q, members[answer[q]])
        BY <1>0, <2>1, <3>2 DEF AnswerIsTheirs
      <4> QED
        BY <1>0, <3>2, <4>1
    <3> QED
      BY <3>1, <3>2
  <2> QED
    BY <1>0, <2>1 DEF AnswerIsTheirs, PostMembers
<1>1. ASSUME NEW r \in Requests, PostFind(r) PROVE AnswerIsTheirs'
  <2>1. pc'[r] = "done" => answer'[r] \in made
                           /\ Right(r, members[answer'[r]])
    BY <1>1 DEF TypeOK, PostFind, PostMatches, PostMembers
  <2> QED
    BY <1>0, <1>1, <2>1 DEF TypeOK, PostFind
<1>2. ASSUME NEW r \in Requests, PostCreate(r) PROVE AnswerIsTheirs'
  <2>1. Right(r, members'[answer'[r]]) /\ answer'[r] \in made'
    BY <1>2 DEF TypeOK, PostCreate
  <2> QED
    BY <1>0, <1>2, <2>1 DEF TypeOK, Progress, PostCreate
<1>3. ASSUME NEW r \in Requests, OrderFind(r) PROVE AnswerIsTheirs'
  <2>1. ASSUME pc'[r] = "done"
        PROVE  answer'[r] \in made /\ Right(r, members[answer'[r]])
    <3>1. PICK c \in OrderMatches(r) : answer' = [answer EXCEPT ![r] = c]
      BY <1>3, <2>1 DEF TypeOK, OrderFind
    <3>2. answer'[r] = c
      BY <3>1 DEF TypeOK
    <3>3. PICK other \in {DeliveryMan[req[r].order], Customer[req[r].order]} :
              {As(req[r].by.user, "CUSTOMER"), As(other, "DELIVERY")}
                  \subseteq members[c]
      BY <3>1 DEF OrderMatches
    <3>4. Right(r, members[c])
      <4> DEFINE me == As(req[r].by.user, "CUSTOMER")
                 them == As(other, "DELIVERY")
      <4>1. /\ me.role = "CUSTOMER" /\ me.user = req[r].by.user
            /\ them.role = "DELIVERY" /\ them.user = other
        BY DEF As
      <4>2. me \in members[c] /\ them \in members[c]
        BY <3>3
      <4>3. req[r].kind # "post"
        BY <1>3 DEF OrderFind
      <4> HIDE DEF me, them
      <4> QED
        BY <3>3, <4>1, <4>2, <4>3
    <3> QED
      BY <3>1, <3>2, <3>4 DEF OrderMatches
  <2> QED
    BY <1>0, <1>3, <2>1 DEF TypeOK, OrderFind
<1>4. ASSUME NEW r \in Requests, OrderCreate(r) PROVE AnswerIsTheirs'
  BY <1>0, <1>4 DEF TypeOK, OrderCreate
<1>5. ASSUME NEW r \in Requests, OrderFill(r) PROVE AnswerIsTheirs'
  <2>1. Right(r, OrderMembers(r))
    BY <1>5 DEF OrderFill, CourierKnown, OrderMembers, As
  <2>2. answer'[r] = r /\ members'[r] = OrderMembers(r) /\ r \in made
    BY <1>5 DEF TypeOK, Progress, OrderFill
  <2> QED
    BY <1>0, <1>5, <2>1, <2>2 DEF TypeOK, Progress, OrderFill
<1>6. ASSUME NEW r \in Requests, Fail(r) PROVE AnswerIsTheirs'
  BY <1>0, <1>6 DEF TypeOK, Fail
<1>7. CASE UNCHANGED vars
  BY <1>7 DEF AnswerIsTheirs, vars, PostMembers
<1> QED
  BY <1>1, <1>2, <1>3, <1>4, <1>5, <1>6, <1>7 DEF Next

\* Whoever is answered is a member of the conversation, and so is somebody the
\* request was about.
THEOREM AnswersAreTheirs == Spec => []AnswerIsTheirs
<1>1. Init => AnswerIsTheirs
  BY DEF Init, AnswerIsTheirs
<1> QED
  BY <1>1, TypedAlways, ProgressAlways, StepAnswer, PTL DEF Spec

-----------------------------------------------------------------------------
(* Messages.                                                               *)

\* Messages read conversations and never write them: every theorem about
\* Conversations holds of the two together.
THEOREM ConversationsUnaffected == ChatSpec => Spec
<1>1. ChatInit => Init
  BY DEF ChatInit
<1>2. [ChatNext]_allVars => [Next]_vars
  BY DEF ChatNext, allVars
<1> QED
  BY <1>1, <1>2, PTL DEF ChatSpec, Spec

-----------------------------------------------------------------------------
(* Type correctness                                                        *)

LEMMA InitChatTyped == ChatInit /\ TypeOK => ChatTypeOK
  BY DEF ChatInit, ChatTypeOK, Notifying

LEMMA StepChatTyped == ChatTypeOK /\ TypeOK' /\ [ChatNext]_allVars => ChatTypeOK'
<1> SUFFICES ASSUME ChatTypeOK, TypeOK', [ChatNext]_allVars PROVE ChatTypeOK'
  OBVIOUS
<1>a. TypeOK /\ None \notin Requests
  BY InputsAssumption DEF ChatTypeOK
<1>1. ASSUME NEW m \in Messages, NEW c \in Requests, NEW from \in Accounts,
             CreateMessage(m, c, from), UNCHANGED vars
      PROVE  ChatTypeOK'
  <2>1. members[c] \subseteq Account
    BY <1>a DEF TypeOK
  <2>2. to' \in [Messages -> Users \cup {Nobody}]
    BY <1>1, <2>1 DEF CreateMessage, ChatTypeOK, Account
  <2>3. conv' \in [Messages -> Requests \cup {None}]
    BY <1>1 DEF CreateMessage, ChatTypeOK
  <2>4. looking' \in [Messages -> SUBSET Account]
    BY <1>1, <2>1 DEF CreateMessage, ChatTypeOK
  <2>5. \A n \in Messages : Inserted(n)' <=> (n = m \/ Inserted(n))
    BY <1>1, <1>a DEF CreateMessage, ChatTypeOK, Inserted
  <2>6. \A n \in Messages : Notifying(n)' => (n = m \/ Notifying(n))
    BY <1>1 DEF CreateMessage, ChatTypeOK, Notifying
  <2> QED
    BY <1>1, <2>2, <2>3, <2>4, <2>5, <2>6 DEF CreateMessage, fetch, ChatTypeOK
<1>2. ASSUME NEW m \in Messages, NEW p \in Account, LookFor(m, p), UNCHANGED vars
      PROVE  ChatTypeOK'
  <2>1. looking' \in [Messages -> SUBSET Account] /\ marking' \in [Messages -> SUBSET Account]
    BY <1>2 DEF LookFor, ChatTypeOK
  <2>2. \A n \in Messages : Notifying(n)' => Notifying(n)
    BY <1>2 DEF LookFor, ChatTypeOK, Notifying
  <2> QED
    BY <1>2, <2>1, <2>2 DEF LookFor, fetch, ChatTypeOK, Inserted
<1>3. ASSUME NEW m \in Messages, NEW p \in Account, MarkMessageAsUnRead(m, p),
             UNCHANGED vars
      PROVE  ChatTypeOK'
  <2>1. marking' \in [Messages -> SUBSET Account]
    BY <1>3 DEF MarkMessageAsUnRead, ChatTypeOK
  <2>2. \A n \in Messages : Notifying(n)' => Notifying(n)
    BY <1>3 DEF MarkMessageAsUnRead, ChatTypeOK, Notifying
  <2>3. Inserted(m)
    BY <1>3 DEF MarkMessageAsUnRead, ChatTypeOK, Notifying
  <2> QED
    BY <1>3, <2>1, <2>2, <2>3 DEF MarkMessageAsUnRead, fetch, ChatTypeOK, Inserted
<1>4. ASSUME NEW m \in Messages, CutOff(m), UNCHANGED vars PROVE ChatTypeOK'
  <2>1. looking' \in [Messages -> SUBSET Account] /\ marking' \in [Messages -> SUBSET Account]
    BY <1>4 DEF CutOff, ChatTypeOK
  <2>2. \A n \in Messages : Notifying(n)' => Notifying(n)
    BY <1>4 DEF CutOff, ChatTypeOK, Notifying
  <2> QED
    BY <1>4, <2>1, <2>2 DEF CutOff, fetch, ChatTypeOK, Inserted
<1>5. ASSUME NEW f \in Fetches, NEW c \in Requests, NEW u \in Users,
             FindMessages(f, c, u), UNCHANGED vars
      PROVE  ChatTypeOK'
  <2>1. /\ asked' \in [Fetches -> Requests \cup {None}]
        /\ reader' \in [Fetches -> Users \cup {Nobody}]
    BY <1>5 DEF FindMessages, ChatTypeOK
  <2>2. \A n \in Messages : (Inserted(n)' <=> Inserted(n)) /\ (Notifying(n)' <=> Notifying(n))
    BY <1>5 DEF FindMessages, message, Inserted, Notifying
  <2>3. returned' \in [Fetches -> SUBSET {m \in Messages : Inserted(m)}]
    BY <1>5, <1>a DEF FindMessages, ChatTypeOK, Inserted
  <2>4. \A g \in fetched : asked'[g] # None
    BY <1>5, <1>a DEF FindMessages, ChatTypeOK
  <2> QED
    BY <1>5, <2>1, <2>2, <2>3, <2>4 DEF FindMessages, message, ChatTypeOK
<1>6. ASSUME NEW f \in Fetches, MarkRead(f), UNCHANGED vars PROVE ChatTypeOK'
  <2>1. late' \in [Fetches -> SUBSET Messages]
    BY <1>6 DEF MarkRead, ChatTypeOK
  <2> QED
    BY <1>6, <2>1 DEF MarkRead, ChatTypeOK, Inserted, Notifying
<1>7. CASE UNCHANGED chat
  BY <1>7 DEF chat, message, fetch, ChatTypeOK, Inserted, Notifying
<1> QED
  BY <1>1, <1>2, <1>3, <1>4, <1>5, <1>6, <1>7 DEF ChatNext, ChatStep, allVars

LEMMA ChatTypedAlways == ChatSpec => []ChatTypeOK
<1>1. ChatSpec => []TypeOK
  BY ConversationsUnaffected, TypeCorrect, PTL
<1> QED
  BY <1>1, InitChatTyped, StepChatTyped, PTL DEF ChatSpec

\* Messages, notifications and fetches are well formed, for any number of them;
\* only inserted messages are notified, marked or returned.
THEOREM ChatTypeCorrect == ChatSpec => []ChatTypeOK
  BY ChatTypedAlways, PTL

-----------------------------------------------------------------------------
(* The read flag                                                           *)

\* A notification that outlives the update of a fetch was running at it.
LateKnown ==
    \A f \in fetched : \A m \in returned[f] :
        (FetchedBy(f, m) /\ Notifying(m)) => m \in late[f]

ReadInv == UnreadUntilFetched /\ LateKnown

\* A step that keeps what was fetched, and starts no notification of a message
\* a fetch has returned, can only mark one that is being notified.
LEMMA FrameRead ==
    ASSUME ChatTypeOK, ReadInv, UNCHANGED <<fetch, conv, to>>,
           unread \subseteq unread', marked' \ marked \subseteq unread',
           \A m \in unread' \ unread : m \in Messages /\ Notifying(m),
           \A m \in Messages : Notifying(m)' => Notifying(m)
    PROVE  ReadInv'
<1>a. \A f, m : FetchedBy(f, m)' <=> FetchedBy(f, m)
  BY DEF FetchedBy, fetch
<1>b. \A f \in Fetches : returned[f] \subseteq Messages
  BY DEF ChatTypeOK
<1>1. \A m \in (marked \ unread)' : \E f \in Fetches : FetchedBy(f, m)'
  BY <1>a DEF ReadInv, UnreadUntilFetched
<1>2. ASSUME NEW f \in Fetches, NEW m \in returned'[f] \cap unread', FetchedBy(f, m)'
      PROVE  m \in late'[f]
  <2>1. m \in returned[f] /\ FetchedBy(f, m) /\ late' = late
    BY <1>2, <1>a DEF fetch
  <2>2. CASE m \in unread
    BY <2>1, <2>2 DEF ReadInv, UnreadUntilFetched
  <2>3. CASE m \notin unread
    BY <1>2, <2>1, <2>3 DEF ReadInv, LateKnown, FetchedBy
  <2> QED
    BY <2>2, <2>3
<1>3. LateKnown'
  <2> SUFFICES ASSUME NEW f \in fetched', NEW m \in returned'[f], FetchedBy(f, m)',
                      Notifying(m)'
               PROVE  m \in late'[f]
    BY DEF LateKnown
  <2>1. f \in fetched /\ f \in Fetches /\ m \in returned[f] /\ late' = late
    BY DEF fetch, ChatTypeOK
  <2>2. FetchedBy(f, m) /\ Notifying(m)
    BY <1>a, <1>b, <2>1
  <2> QED
    BY <2>1, <2>2 DEF ReadInv, LateKnown
<1> QED
  BY <1>1, <1>2, <1>3 DEF ReadInv, UnreadUntilFetched

LEMMA StepRead == ChatTypeOK /\ ReadInv /\ [ChatNext]_allVars => ReadInv'
<1> SUFFICES ASSUME ChatTypeOK, ReadInv, [ChatNext]_allVars PROVE ReadInv'
  OBVIOUS
<1>a. None \notin Requests
  BY InputsAssumption
<1>1. ASSUME NEW m \in Messages, NEW c \in Requests, NEW from \in Accounts,
             CreateMessage(m, c, from)
      PROVE  ReadInv'
  <2>1. /\ ~Inserted(m)
        /\ UNCHANGED <<unread, marking, marked, asked, reader, returned, fetched, late>>
    BY <1>1 DEF CreateMessage, fetch
  <2>2. \A n \in Messages \ {m} :
           conv'[n] = conv[n] /\ to'[n] = to[n] /\ (Notifying(n)' <=> Notifying(n))
    BY <1>1 DEF CreateMessage, ChatTypeOK, Notifying
  <2>3. m \notin marked /\ (\A f \in Fetches : m \notin returned[f])
    BY <2>1 DEF ChatTypeOK
  <2>4. marked \subseteq Messages /\ (\A f \in Fetches : returned[f] \subseteq Messages)
    BY DEF ChatTypeOK
  <2>5. \A f \in Fetches, n \in Messages \ {m} : FetchedBy(f, n)' <=> FetchedBy(f, n)
    BY <2>1, <2>2 DEF FetchedBy
  <2>6. UnreadUntilFetched'
    BY <2>1, <2>3, <2>4, <2>5 DEF ReadInv, UnreadUntilFetched
  <2>7. fetched \subseteq Fetches
    BY DEF ChatTypeOK
  <2>8. LateKnown'
    BY <2>1, <2>2, <2>3, <2>4, <2>5, <2>7 DEF ReadInv, LateKnown
  <2> QED
    BY <2>6, <2>8 DEF ReadInv
<1>2. ASSUME NEW m \in Messages, NEW p \in Account, LookFor(m, p) PROVE ReadInv'
  <2>1. \A n \in Messages : Notifying(n)' => Notifying(n)
    BY <1>2 DEF LookFor, ChatTypeOK, Notifying
  <2> QED
    BY <1>2, <2>1, FrameRead DEF LookFor
<1>3. ASSUME NEW m \in Messages, NEW p \in Account, MarkMessageAsUnRead(m, p)
      PROVE  ReadInv'
  <2>1. \A n \in Messages : Notifying(n)' => Notifying(n)
    BY <1>3 DEF MarkMessageAsUnRead, ChatTypeOK, Notifying
  <2>2. Notifying(m)
    BY <1>3 DEF MarkMessageAsUnRead, Notifying
  <2>3. unread' = unread \cup {m} /\ marked' = marked \cup {m}
    BY <1>3 DEF MarkMessageAsUnRead
  <2> QED
    BY <1>3, <2>1, <2>2, <2>3, FrameRead DEF MarkMessageAsUnRead
<1>4. ASSUME NEW m \in Messages, CutOff(m) PROVE ReadInv'
  <2>1. \A n \in Messages : Notifying(n)' => Notifying(n)
    BY <1>4 DEF CutOff, ChatTypeOK, Notifying
  <2> QED
    BY <1>4, <2>1, FrameRead DEF CutOff
<1>5. ASSUME NEW f \in Fetches, NEW c \in Requests, NEW u \in Users, FindMessages(f, c, u)
      PROVE  ReadInv'
  <2>1. UNCHANGED <<message, fetched, late>> /\ f \notin fetched /\ fetched \subseteq Fetches
    BY <1>5 DEF FindMessages, ChatTypeOK
  <2>2. \A g \in fetched :
           asked'[g] = asked[g] /\ reader'[g] = reader[g] /\ returned'[g] = returned[g]
    BY <1>5, <2>1 DEF FindMessages, ChatTypeOK
  <2>3. \A g, n : FetchedBy(g, n)' <=> FetchedBy(g, n)
    BY <2>1, <2>2 DEF FetchedBy, message
  <2>4. \A n : Notifying(n)' <=> Notifying(n)
    BY <2>1 DEF Notifying, message
  <2>5. LateKnown'
    BY <2>1, <2>2, <2>3, <2>4 DEF ReadInv, LateKnown
  <2>6. UnreadUntilFetched'
    <3>1. \A n \in (marked \ unread)' : \E g \in Fetches : FetchedBy(g, n)'
      BY <2>1, <2>3 DEF ReadInv, UnreadUntilFetched, message
    <3>2. ASSUME NEW g \in Fetches, NEW n \in returned'[g] \cap unread', FetchedBy(g, n)'
          PROVE  n \in late'[g]
      <4>1. g \in fetched /\ FetchedBy(g, n)
        BY <2>3, <3>2 DEF FetchedBy
      <4>2. n \in returned[g] \cap unread
        BY <2>1, <2>2, <3>2, <4>1 DEF message
      <4> QED
        BY <2>1, <4>1, <4>2 DEF ReadInv, UnreadUntilFetched
    <3> QED
      BY <3>1, <3>2 DEF UnreadUntilFetched
  <2> QED
    BY <2>5, <2>6 DEF ReadInv
<1>6. ASSUME NEW f \in Fetches, MarkRead(f) PROVE ReadInv'
  <2>1. /\ UNCHANGED <<conv, to, looking, marking, marked, asked, reader, returned>>
        /\ fetched' = fetched \cup {f} /\ f \notin fetched /\ unread' \subseteq unread
        /\ late'[f] = {m \in Messages : Notifying(m)}
        /\ \A g \in Fetches \ {f} : late'[g] = late[g]
    BY <1>6 DEF MarkRead, ChatTypeOK
  <2>2. \A g, n : g # f => (FetchedBy(g, n)' <=> FetchedBy(g, n))
    BY <2>1 DEF FetchedBy
  <2>3. \A n : Notifying(n)' <=> Notifying(n)
    BY <2>1 DEF Notifying
  <2>4. \A n \in unread : n \in unread' \/ FetchedBy(f, n)'
    BY <1>6 DEF MarkRead, FetchedBy
  <2>5. \A n \in unread' : ~FetchedBy(f, n)'
    BY <1>6 DEF MarkRead, FetchedBy
  <2>6. \A n \in (marked \ unread)' : \E g \in Fetches : FetchedBy(g, n)'
    <3> SUFFICES ASSUME NEW n \in (marked \ unread)' PROVE \E g \in Fetches : FetchedBy(g, n)'
      OBVIOUS
    <3>1. CASE n \in unread
      BY <2>4, <3>1
    <3>2. CASE n \notin unread
      <4>1. PICK g \in Fetches : FetchedBy(g, n)
        BY <2>1, <3>2 DEF ReadInv, UnreadUntilFetched
      <4>2. g # f
        BY <2>1, <4>1 DEF FetchedBy
      <4> QED
        BY <2>2, <4>1, <4>2
    <3> QED
      BY <3>1, <3>2
  <2>7. UnreadUntilFetched'
    BY <2>1, <2>2, <2>5, <2>6 DEF ReadInv, UnreadUntilFetched
  <2>8. LateKnown'
    <3> SUFFICES ASSUME NEW g \in fetched', NEW n \in returned'[g], FetchedBy(g, n)',
                        Notifying(n)'
                 PROVE  n \in late'[g]
      BY DEF LateKnown
    <3>1. CASE g = f
      BY <2>1, <2>3, <3>1 DEF ChatTypeOK
    <3>2. CASE g # f
      <4>1. g \in fetched /\ g \in Fetches /\ n \in returned[g]
        BY <2>1, <3>2 DEF ChatTypeOK
      <4>2. late'[g] = late[g]
        BY <2>1, <3>2, <4>1
      <4> QED
        BY <2>2, <2>3, <3>2, <4>1, <4>2 DEF ReadInv, LateKnown
    <3> QED
      BY <3>1, <3>2
  <2> QED
    BY <2>7, <2>8 DEF ReadInv
<1>7. CASE UNCHANGED chat
  BY <1>7 DEF chat, message, fetch, ReadInv, UnreadUntilFetched, LateKnown, FetchedBy,
              Notifying
<1> QED
  BY <1>1, <1>2, <1>3, <1>4, <1>5, <1>6, <1>7 DEF ChatNext, ChatStep, allVars

\* The read flag follows its receiver: only the receiver's fetch sets it back, and
\* after a fetch that returned the message only a notification that was running
\* then clears it again.
THEOREM ReadFollowsReceiver == ChatSpec => []UnreadUntilFetched
<1>1. ChatInit => ReadInv
  BY DEF ChatInit, ReadInv, UnreadUntilFetched, LateKnown
<1>2. ReadInv => UnreadUntilFetched
  BY DEF ReadInv
<1> QED
  BY <1>1, <1>2, ChatTypedAlways, StepRead, PTL DEF ChatSpec

-----------------------------------------------------------------------------
(* ChatMessages implements Mailbox                                         *)

ReaderKnown == \A f \in Fetches : asked[f] # None => reader[f] \in Users

LEMMA StepReader == ChatTypeOK /\ ReaderKnown /\ [ChatNext]_allVars => ReaderKnown'
<1> SUFFICES ASSUME ChatTypeOK, ReaderKnown, [ChatNext]_allVars PROVE ReaderKnown'
  OBVIOUS
<1>1. ASSUME NEW f \in Fetches, NEW c \in Requests, NEW u \in Users, FindMessages(f, c, u)
      PROVE  ReaderKnown'
  BY <1>1 DEF FindMessages, ChatTypeOK, ReaderKnown
<1>2. ASSUME UNCHANGED <<asked, reader>> PROVE ReaderKnown'
  BY <1>2 DEF ReaderKnown
<1> QED
  BY <1>1, <1>2 DEF ChatNext, ChatStep, CreateMessage, LookFor, MarkMessageAsUnRead,
                    CutOff, MarkRead, chat, fetch, allVars

\* What an update of one message, or of one fetch, leaves of the mailbox.
LEMMA MailKept ==
    ASSUME UNCHANGED <<conv, to>>
    PROVE  Mail' = Mail
  BY DEF Mail, Inserted

LEMMA AsksKept ==
    ASSUME UNCHANGED <<asked, reader>>
    PROVE  Asks' = Asks
  BY DEF Asks

LEMMA DeliveringKept ==
    ASSUME UNCHANGED <<looking, marking>>
    PROVE  Delivering' = Delivering
  BY DEF Delivering, Notifying

LEMMA DeliveringOne ==
    ASSUME NEW m \in Messages,
           \A n \in Messages \ {m} : looking'[n] = looking[n] /\ marking'[n] = marking[n]
    PROVE  Delivering' \in {Delivering \ {m}, Delivering \cup {m}}
<1>1. \A n \in Messages \ {m} : Notifying(n)' <=> Notifying(n)
  BY DEF Notifying
<1> QED
  BY <1>1 DEF Delivering

\* A step of Conversations opens one conversation or none.
LEMMA ConversationsOpen ==
    ASSUME TypeOK, CourierKnown, Progress, Next
    PROVE  \/ UNCHANGED members
           \/ \E r \in Requests :
                 /\ members[r] = {}
                 /\ \E a, b \in Account : members' = [members EXCEPT ![r] = {a, b}]
<1>1. ASSUME NEW r \in Requests, PostCreate(r)
      PROVE  /\ members[r] = {}
             /\ \E a, b \in Account : members' = [members EXCEPT ![r] = {a, b}]
  <2>1. req[r].by \in Account /\ req[r].to \in Account
    BY <1>1, RequestFields DEF PostCreate
  <2>2. members' = [members EXCEPT ![r] = {req[r].by, req[r].to}]
    BY <1>1 DEF PostCreate, PostMembers
  <2>3. members[r] = {}
    BY <1>1 DEF PostCreate, Progress
  <2> QED
    BY <2>1, <2>2, <2>3
<1>2. ASSUME NEW r \in Requests, OrderFill(r)
      PROVE  /\ members[r] = {}
             /\ \E a, b \in Account : members' = [members EXCEPT ![r] = {a, b}]
  <2>1. OrderMembers(r) \subseteq Account
    BY <1>2, MembersTyped DEF OrderFill, CourierKnown
  <2>2. \E a, b : OrderMembers(r) = {a, b}
    BY DEF OrderMembers
  <2>3. \E a, b \in Account : OrderMembers(r) = {a, b}
    BY <2>1, <2>2
  <2>4. members' = [members EXCEPT ![r] = OrderMembers(r)] /\ members[r] = {}
    BY <1>2 DEF OrderFill, Progress
  <2> QED
    BY <2>3, <2>4
<1>3. ASSUME NEW r \in Requests,
             PostFind(r) \/ OrderFind(r) \/ OrderCreate(r) \/ Fail(r)
      PROVE  UNCHANGED members
  BY <1>3 DEF PostFind, OrderFind, OrderCreate, Fail
<1> QED
  BY <1>1, <1>2, <1>3 DEF Next

LEMMA StepIsMailbox ==
    ASSUME ChatTypeOK, ReaderKnown, CourierKnown, Progress, [ChatNext]_allVars
    PROVE  [Box!Next]_<<members, Mail, Delivering, unread, Asks>>
<1>1. ASSUME UNCHANGED chat
      PROVE  UNCHANGED <<Mail, Delivering, unread, Asks>>
  BY <1>1, MailKept, AsksKept, DeliveringKept DEF chat, message, fetch
<1>2. ASSUME Next, UNCHANGED chat
      PROVE  Box!Next \/ UNCHANGED <<members, Mail, Delivering, unread, Asks>>
  <2>1. TypeOK
    BY DEF ChatTypeOK
  <2>2. ASSUME NEW r \in Requests, members[r] = {},
               \E a, b \in Account : members' = [members EXCEPT ![r] = {a, b}]
        PROVE  Box!Next
    <3>1. Box!Open(r)
      BY <1>1, <1>2, <2>2 DEF Box!Open
    <3> QED
      BY <3>1 DEF Box!Next
  <2> QED
    BY <1>1, <1>2, <2>1, <2>2, ConversationsOpen
<1>3. ASSUME UNCHANGED vars PROVE UNCHANGED members
  BY <1>3 DEF vars
<1>4. ASSUME NEW m \in Messages, NEW c \in Requests, NEW from \in Accounts,
             CreateMessage(m, c, from), UNCHANGED vars
      PROVE  Box!Next
  <2>1. PICK other \in members[c] \ {from} : to' = [to EXCEPT ![m] = other.user]
    BY <1>4 DEF CreateMessage
  <2>2. /\ ~Inserted(m) /\ conv' = [conv EXCEPT ![m] = c]
        /\ looking' = [looking EXCEPT ![m] = members[c]]
        /\ UNCHANGED <<unread, marking, asked, reader>>
    BY <1>4 DEF CreateMessage, fetch
  <2>3. Mail' = Mail \cup {[id |-> m, in |-> c, to |-> other.user]}
    <3>1. /\ conv'[m] = c /\ to'[m] = other.user /\ c # None
          /\ \A n \in Messages \ {m} : conv'[n] = conv[n] /\ to'[n] = to[n]
      BY <2>1, <2>2, InputsAssumption DEF ChatTypeOK
    <3> QED
      BY <2>2, <3>1 DEF Mail, Inserted
  <2>4. Delivering' = Delivering \cup {m}
    <3>1. Notifying(m)'
      BY <2>1, <2>2 DEF Notifying, ChatTypeOK
    <3>2. \A n \in Messages \ {m} : Notifying(n)' <=> Notifying(n)
      BY <2>2 DEF Notifying, ChatTypeOK
    <3> QED
      BY <3>1, <3>2 DEF Delivering
  <2>5. \A sent \in Mail : sent.id # m
    BY <2>2 DEF Mail
  <2>6. Box!Send(m, c)
    BY <1>3, <1>4, <2>1, <2>2, <2>3, <2>4, <2>5, AsksKept DEF Box!Send
  <2> QED
    BY <2>6 DEF Box!Next
<1>5. ASSUME NEW m \in Messages, NEW p \in Account, LookFor(m, p), UNCHANGED vars
      PROVE  Box!Next \/ UNCHANGED <<members, Mail, Delivering, unread, Asks>>
  <2>1. /\ UNCHANGED <<conv, to, unread, asked, reader>>
        /\ \A n \in Messages \ {m} : looking'[n] = looking[n] /\ marking'[n] = marking[n]
        /\ m \in Delivering
    BY <1>5 DEF LookFor, fetch, ChatTypeOK, Delivering, Notifying
  <2>2. Delivering' = Delivering \/ Delivering' = Delivering \ {m}
    BY <2>1, DeliveringOne
  <2>3. UNCHANGED <<members, Mail, unread, Asks>>
    BY <1>3, <1>5, <2>1, MailKept, AsksKept
  <2>4. CASE Delivering' = Delivering \ {m}
    BY <2>3, <2>4 DEF Box!Deliver, Box!Next
  <2> QED
    BY <2>2, <2>3, <2>4
<1>6. ASSUME NEW m \in Messages, NEW p \in Account, MarkMessageAsUnRead(m, p), UNCHANGED vars
      PROVE  Box!Next
  <2>1. /\ UNCHANGED <<conv, to, asked, reader>>
        /\ \A n \in Messages \ {m} : looking'[n] = looking[n] /\ marking'[n] = marking[n]
        /\ m \in Delivering /\ unread' = unread \cup {m}
    BY <1>6 DEF MarkMessageAsUnRead, fetch, ChatTypeOK, Delivering, Notifying
  <2>2. Delivering' \in {Delivering, Delivering \ {m}}
    BY <2>1, DeliveringOne
  <2>3. UNCHANGED <<members, Mail, Asks>>
    BY <1>3, <1>6, <2>1, MailKept, AsksKept
  <2> QED
    BY <2>1, <2>2, <2>3 DEF Box!MarkUnread, Box!Next
<1>7. ASSUME NEW m \in Messages, CutOff(m), UNCHANGED vars PROVE Box!Next
  <2>1. /\ UNCHANGED <<conv, to, unread, asked, reader>>
        /\ \A n \in Messages \ {m} : looking'[n] = looking[n] /\ marking'[n] = marking[n]
        /\ ~Notifying(m)'
    BY <1>7 DEF CutOff, fetch, ChatTypeOK, Notifying
  <2>2. Delivering' = Delivering \ {m}
    BY <2>1, DeliveringOne DEF Delivering
  <2>3. UNCHANGED <<members, Mail, unread, Asks>>
    BY <1>3, <1>7, <2>1, MailKept, AsksKept
  <2> QED
    BY <2>2, <2>3 DEF Box!Deliver, Box!Next
<1>8. ASSUME NEW f \in Fetches, NEW c \in Requests, NEW u \in Users,
             FindMessages(f, c, u), UNCHANGED vars
      PROVE  Box!Next
  <2>1. UNCHANGED <<conv, to, unread, looking, marking>>
    BY <1>8 DEF FindMessages, message
  <2>2. /\ asked[f] = None /\ asked'[f] = c /\ reader'[f] = u /\ c # None
        /\ \A g \in Fetches \ {f} : asked'[g] = asked[g] /\ reader'[g] = reader[g]
    BY <1>8, InputsAssumption DEF FindMessages, ChatTypeOK
  <2>3. Asks' = Asks \cup {[in |-> c, by |-> u]}
    BY <2>2 DEF Asks
  <2>4. Box!Ask(c, u)
    BY <1>3, <1>8, <2>1, <2>3, MailKept, DeliveringKept DEF Box!Ask
  <2> QED
    BY <2>4 DEF Box!Next
<1>9. ASSUME NEW f \in Fetches, MarkRead(f), UNCHANGED vars PROVE Box!Next
  <2>1. /\ UNCHANGED <<conv, to, looking, marking, asked, reader>> /\ asked[f] # None
        /\ unread' = {m \in unread : ~(conv[m] = asked[f] /\ to[m] = reader[f])}
    BY <1>9 DEF MarkRead
  <2>2. asked[f] \in Requests /\ reader[f] \in Users
    BY <2>1 DEF ChatTypeOK, ReaderKnown
  <2>3. \A m \in unread : [id |-> m, in |-> asked[f], to |-> reader[f]] \in Mail
                          <=> conv[m] = asked[f] /\ to[m] = reader[f]
    <3>1. \A m \in unread : m \in Messages /\ Inserted(m)
      BY DEF ChatTypeOK
    <3> QED
      BY <3>1 DEF Mail
  <2>4. unread' = {m \in unread : [id |-> m, in |-> asked[f], to |-> reader[f]] \notin Mail}
    BY <2>1, <2>3
  <2>5. [in |-> asked[f], by |-> reader[f]] \in Asks
    BY <2>1 DEF Asks
  <2>6. Box!Read(asked[f], reader[f])
    BY <1>3, <1>9, <2>1, <2>4, <2>5, MailKept, AsksKept, DeliveringKept DEF Box!Read
  <2> QED
    BY <2>2, <2>6 DEF Box!Next
<1>10. CASE UNCHANGED allVars
  BY <1>1, <1>3, <1>10 DEF allVars
<1> QED
  BY <1>2, <1>4, <1>5, <1>6, <1>7, <1>8, <1>9, <1>10 DEF ChatNext, ChatStep

\* Conversations and messages together are a mailbox, for any number of requests,
\* messages and fetches: an open conversation keeps its members, a message its
\* place and receiver; unread comes of a delivery that goes on, read of the
\* receiver's own request.
THEOREM ChatIsMailbox == ChatSpec => ImplementsMailbox
<1>1. ChatInit => ReaderKnown
  BY DEF ChatInit, ReaderKnown
<1>2. ChatInit => Box!Init
  <2> SUFFICES ASSUME ChatInit PROVE Box!Init
    OBVIOUS
  <2>1. members = [c \in Requests |-> {}] /\ unread = {}
    BY DEF ChatInit, Init
  <2>2. Mail = {} /\ Delivering = {} /\ Asks = {}
    BY DEF ChatInit, Mail, Inserted, Delivering, Notifying, Asks
  <2> QED
    BY <2>1, <2>2 DEF Box!Init
<1>3. ChatSpec => [](CourierKnown /\ Progress)
  BY ConversationsUnaffected, TypedAlways, ProgressAlways, PTL
<1> QED
  BY <1>1, <1>2, <1>3, ChatTypedAlways, StepReader, StepIsMailbox, PTL
     DEF ChatSpec, ImplementsMailbox, Box!Spec

=============================================================================

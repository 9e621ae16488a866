----------------------------- MODULE Chat_proofs -----------------------------
(***************************************************************************)
(* Theorems about Chat, for any number of windows, requests and messages:  *)
(* no message is listed twice, and the client is told once of an accepted  *)
(* invitation; and the types of Chat and DisputeChat, with the ids written *)
(* so far as their bound.                                                  *)
(***************************************************************************)
EXTENDS Chat, DisputeChat, SequenceTheorems, TLAPS

Msg == [id : Nat, by : {"client", "freelancer"}, job : BOOLEAN, accepts : BOOLEAN]
Frame == [type : {"thread_deleted"}] \union [type : {"new_message"}, message : Msg]

\* Lists in which no id is repeated.
Distinct(s) == \A i, j \in DOMAIN s : s[i].id = s[j].id => i = j
Listing == {s \in Seq(Msg) : Distinct(s)}

Page == [on : BOOLEAN, load : {"none", "asked", "inbox", "rest", "done"}, shown : Listing,
         inbox : Listing, open : BOOLEAN, socket : {"none", "opening", "open", "deaf"},
         applied : BOOLEAN, declined : BOOLEAN]

Ops == {"reply", "apply", "bid", "accept", "dismiss", "delete"}
Request == [op : Ops, at : Windows \union {"board"}, job : BOOLEAN, live : BOOLEAN, id : Nat,
            stage : {"sent", "checked", "stored", "ok", "error"}]
\* Only the job board's request is not a messages page's.
Placed == {q \in Request : q.op # "bid" => q.at \in Windows}

\* The inductive invariant behind ShownOnce.
ListInv == /\ talk \in Chats
           /\ written \in Nat
           /\ thread \in Listing
           /\ \A i \in DOMAIN thread : thread[i].id <= written
           /\ window \in [Windows -> Page]
           /\ wire \in [Windows -> Seq(Frame)]
           /\ posts \in [Posts -> {NoPost} \union Placed]

LEMMA EmptyListing == <<>> \in Listing
  BY DEF Listing, Distinct

LEMMA AppendListing ==
    ASSUME NEW s \in Listing, NEW m \in Msg, \A i \in DOMAIN s : s[i].id # m.id
    PROVE  Append(s, m) \in Listing
<1>1. s \in Seq(Msg) /\ Distinct(s)
  BY DEF Listing
<1>2. /\ Append(s, m) \in Seq(Msg)
      /\ Len(Append(s, m)) = Len(s) + 1
      /\ \A i \in 1 .. Len(s) : Append(s, m)[i] = s[i]
      /\ Append(s, m)[Len(s) + 1] = m
  BY <1>1, AppendProperties
<1>3. DOMAIN s = 1 .. Len(s) /\ DOMAIN Append(s, m) = 1 .. Len(s) + 1 /\ Len(s) \in Nat
  BY <1>1, <1>2, LenProperties
<1>4. Distinct(Append(s, m))
  BY <1>1, <1>2, <1>3 DEF Distinct
<1> QED BY <1>2, <1>4 DEF Listing

LEMMA PageFields ==
    ASSUME NEW p \in Page
    PROVE  /\ \A s \in Listing : [p EXCEPT !.shown = s] \in Page
           /\ \A s \in Listing : [p EXCEPT !.load = "inbox", !.inbox = s] \in Page
           /\ \A s \in Listing : [p EXCEPT !.shown = s, !.open = FALSE] \in Page
           /\ [p EXCEPT !.shown = p.inbox, !.inbox = <<>>, !.load = "rest"] \in Page
           /\ [p EXCEPT !.load = "rest"] \in Page
           /\ [p EXCEPT !.socket = "open"] \in Page
           /\ [p EXCEPT !.socket = "deaf"] \in Page
           /\ \A b \in BOOLEAN : [p EXCEPT !.open = b] \in Page
           /\ [p EXCEPT !.applied = TRUE] \in Page
           /\ [p EXCEPT !.declined = TRUE] \in Page
           /\ \A a, b, c \in BOOLEAN :
                 [p EXCEPT !.load = "done", !.open = a, !.applied = b, !.declined = c] \in Page
  BY EmptyListing DEF Page

LEMMA AwayPage ==
    ASSUME NEW b \in BOOLEAN
    PROVE  /\ Away \in Page
           /\ [Away EXCEPT !.on = TRUE, !.load = "asked", !.socket = "opening", !.declined = b] \in Page
  BY EmptyListing DEF Away, Page

LEMMA RequestFields ==
    ASSUME NEW q \in Placed
    PROVE  /\ q # NoPost
           /\ \A s \in {"sent", "checked", "stored", "ok", "error"} : [q EXCEPT !.stage = s] \in Placed
           /\ [q EXCEPT !.live = FALSE] \in Placed
           /\ \A i \in Nat : [q EXCEPT !.stage = "stored", !.id = i] \in Placed
           /\ q.op # "bid" => [q EXCEPT !.op = "accept", !.stage = "sent"] \in Placed
<1>1. q # NoPost
  <2>1. q.op # "none" /\ NoPost.op = "none"
    BY DEF Placed, Request, Ops, NoPost
  <2> QED BY <2>1
<1>2. q \in Request /\ (q.op # "bid" => q.at \in Windows)
  BY DEF Placed
<1>3. \A s \in {"sent", "checked", "stored", "ok", "error"} : [q EXCEPT !.stage = s] \in Placed
  BY <1>2 DEF Placed, Request
<1>4. [q EXCEPT !.live = FALSE] \in Placed
  BY <1>2 DEF Placed, Request
<1>5. \A i \in Nat : [q EXCEPT !.stage = "stored", !.id = i] \in Placed
  BY <1>2 DEF Placed, Request
<1>6. q.op # "bid" => [q EXCEPT !.op = "accept", !.stage = "sent"] \in Placed
  BY <1>2 DEF Placed, Request, Ops
<1> QED BY <1>1, <1>3, <1>4, <1>5, <1>6

LEMMA ListInit == ChatInit => ListInv
<1> SUFFICES ASSUME ChatInit PROVE ListInv
  OBVIOUS
<1>1. Message(1, "client", TRUE, FALSE) \in Msg
  BY DEF Message, Msg
<1>2. thread \in Listing /\ \A i \in DOMAIN thread : thread[i].id <= written
  BY <1>1 DEF ChatInit, Listing, Distinct, Message
<1>3. window \in [Windows -> Page]
  BY AwayPage DEF ChatInit
<1>4. wire \in [Windows -> Seq(Frame)]
  BY EmptySeq DEF ChatInit
<1> QED BY <1>2, <1>3, <1>4 DEF ChatInit, ListInv

-----------------------------------------------------------------------------
(* Steps that change one page.                                             *)

LEMMA PageStep ==
    ASSUME ListInv, NEW w \in Windows, NEW p \in Page, window' = [window EXCEPT ![w] = p],
           UNCHANGED <<talk, thread, written>>, wire' \in [Windows -> Seq(Frame)],
           posts' \in [Posts -> {NoPost} \union Placed]
    PROVE  ListInv'
  BY DEF ListInv

LEMMA MountList == ASSUME ListInv, NEW w \in Windows, Mount(w) PROVE ListInv'
<1> DEFINE b == "browser" \in declined
           p == [Away EXCEPT !.on = TRUE, !.load = "asked", !.socket = "opening", !.declined = b]
<1>1. b \in BOOLEAN
  OBVIOUS
<1>2. window' = [window EXCEPT ![w] = p]
  BY DEF Mount
<1> HIDE DEF b
<1>3. p \in Page
  BY <1>1, AwayPage
<1> HIDE DEF p
<1> QED BY <1>2, <1>3, PageStep DEF Mount, tableVars, ListInv

LEMMA UnmountList == ASSUME ListInv, NEW w \in Windows, Unmount(w) PROVE ListInv'
<1>1. wire' \in [Windows -> Seq(Frame)]
  BY EmptySeq DEF Unmount, ListInv
<1>2. posts' \in [Posts -> {NoPost} \union Placed]
  <2>1. \A n \in Posts : posts[n] # NoPost => [posts[n] EXCEPT !.live = FALSE] \in Placed
    BY RequestFields DEF ListInv
  <2> QED BY <2>1 DEF Unmount, ListInv
<1> QED BY <1>1, <1>2, AwayPage, PageStep DEF Unmount, tableVars

LEMMA AnswerInboxList == ASSUME ListInv, NEW w \in Windows, AnswerInbox(w) PROVE ListInv'
<1>1. window[w] \in Page /\ thread \in Listing
  BY DEF ListInv
<1>2. CASE window' = [window EXCEPT ![w].load = "inbox", ![w].inbox = thread]
  <2> DEFINE p == [window[w] EXCEPT !.load = "inbox", !.inbox = thread]
  <2>1. p \in Page
    BY <1>1, PageFields
  <2>2. window' = [window EXCEPT ![w] = p]
    BY <1>2
  <2> HIDE DEF p
  <2> QED BY <2>1, <2>2, PageStep DEF AnswerInbox, tableVars, ListInv
<1>3. CASE window' = [window EXCEPT ![w].load = "rest"]
  <2> DEFINE p == [window[w] EXCEPT !.load = "rest"]
  <2>1. p \in Page
    BY <1>1, PageFields
  <2>2. window' = [window EXCEPT ![w] = p]
    BY <1>3
  <2> HIDE DEF p
  <2> QED BY <2>1, <2>2, PageStep DEF AnswerInbox, tableVars, ListInv
<1> QED BY <1>2, <1>3 DEF AnswerInbox

LEMMA ShowInboxList == ASSUME ListInv, NEW w \in Windows, ShowInbox(w) PROVE ListInv'
<1> DEFINE p == [window[w] EXCEPT !.shown = window[w].inbox, !.inbox = <<>>, !.load = "rest"]
<1>1. p \in Page
  BY PageFields DEF ListInv
<1>2. window' = [window EXCEPT ![w] = p]
  BY DEF ShowInbox
<1> HIDE DEF p
<1> QED BY <1>1, <1>2, PageStep DEF ShowInbox, tableVars, ListInv

LEMMA LoadRestList == ASSUME ListInv, NEW w \in Windows, LoadRest(w) PROVE ListInv'
<1> PICK mine \in {FALSE, talk.user = "freelancer"}, opens \in BOOLEAN :
       window' = [window EXCEPT ![w].load = "done", ![w].open = opens,
                                ![w].applied = mine /\ "server" \in applied,
                                ![w].declined = @ \/ (mine /\ "server" \in declined)]
  BY DEF LoadRest
<1> DEFINE b == mine /\ "server" \in applied
           c == window[w].declined \/ (mine /\ "server" \in declined)
           p == [window[w] EXCEPT !.load = "done", !.open = opens, !.applied = b, !.declined = c]
<1>1. b \in BOOLEAN /\ c \in BOOLEAN
  OBVIOUS
<1>2. window' = [window EXCEPT ![w] = p]
  OBVIOUS
<1> HIDE DEF b, c
<1>3. p \in Page
  BY <1>1, PageFields DEF ListInv
<1> HIDE DEF p
<1> QED BY <1>2, <1>3, PageStep DEF LoadRest, tableVars, ListInv

LEMMA SocketOpensList == ASSUME ListInv, NEW w \in Windows, SocketOpens(w) PROVE ListInv'
<1> DEFINE p == [window[w] EXCEPT !.socket = "open"]
<1>1. p \in Page
  BY PageFields DEF ListInv
<1>2. window' = [window EXCEPT ![w] = p]
  BY DEF SocketOpens
<1> HIDE DEF p
<1> QED BY <1>1, <1>2, PageStep DEF SocketOpens, tableVars, ListInv

LEMMA DisconnectList == ASSUME ListInv, NEW w \in Windows, Disconnect(w) PROVE ListInv'
<1> DEFINE p == [window[w] EXCEPT !.socket = "deaf"]
<1>1. p \in Page
  BY PageFields DEF ListInv
<1>2. window' = [window EXCEPT ![w] = p]
  BY DEF Disconnect
<1>3. wire' \in [Windows -> Seq(Frame)]
  BY EmptySeq DEF Disconnect, ListInv
<1> HIDE DEF p
<1> QED BY <1>1, <1>2, <1>3, PageStep DEF Disconnect, tableVars, ListInv

LEMMA SelectList ==
    ASSUME ListInv, NEW w \in Windows, SelectThread(w) \/ Back(w)
    PROVE  ListInv'
<1> PICK b \in BOOLEAN : window' = [window EXCEPT ![w].open = b]
  BY DEF SelectThread, Back
<1> DEFINE p == [window[w] EXCEPT !.open = b]
<1>1. p \in Page
  BY PageFields DEF ListInv
<1>2. window' = [window EXCEPT ![w] = p]
  OBVIOUS
<1> HIDE DEF p
<1>3. UNCHANGED <<talk, thread, written>> /\ wire' = wire /\ posts' = posts
  BY DEF SelectThread, Back, tableVars
<1>4. wire' \in [Windows -> Seq(Frame)] /\ posts' \in [Posts -> {NoPost} \union Placed]
  BY <1>3 DEF ListInv
<1> QED BY <1>1, <1>2, <1>3, <1>4, PageStep

\* A message is added if it is not there, a thread that is gone is forgotten.
LEMMA AddPage ==
    ASSUME ListInv, NEW w \in Windows, NEW m \in Msg
    PROVE  \E p \in Page : Add(w, m) = [window EXCEPT ![w] = p]
<1>1. window[w] \in Page /\ window[w].shown \in Listing
  BY DEF ListInv, Page
<1>2. CASE Lists(w, m)
  BY <1>1, <1>2 DEF Add, ListInv
<1>3. CASE ~Lists(w, m)
  <2> DEFINE p == [window[w] EXCEPT !.shown = Append(window[w].shown, m)]
  <2>1. Append(window[w].shown, m) \in Listing
    BY <1>1, <1>3, AppendListing DEF Lists
  <2>2. p \in Page
    BY <1>1, <2>1, PageFields
  <2>3. Add(w, m) = [window EXCEPT ![w] = p]
    BY <1>3 DEF Add
  <2> QED BY <2>2, <2>3
<1> QED BY <1>2, <1>3

LEMMA ForgetPage ==
    ASSUME ListInv, NEW w \in Windows
    PROVE  \E p \in Page : Forget(w) = [window EXCEPT ![w] = p]
<1> DEFINE p == [window[w] EXCEPT !.shown = <<>>, !.open = FALSE]
<1>1. p \in Page
  BY PageFields, EmptyListing DEF ListInv
<1>2. Forget(w) = [window EXCEPT ![w] = p]
  BY DEF Forget
<1> QED BY <1>1, <1>2

LEMMA OnMessageList == ASSUME ListInv, NEW w \in Windows, OnMessage(w) PROVE ListInv'
<1>1. wire[w] \in Seq(Frame) /\ wire[w] # <<>>
  BY DEF ListInv, OnMessage
<1>2. Head(wire[w]) \in Frame /\ Tail(wire[w]) \in Seq(Frame)
  BY <1>1, HeadTailProperties
<1>3. wire' \in [Windows -> Seq(Frame)]
  BY <1>2 DEF OnMessage, ListInv
<1>4. \E p \in Page : window' = [window EXCEPT ![w] = p]
  <2>1. CASE Head(wire[w]).type = "new_message"
    <3>1. Head(wire[w]).message \in Msg
      BY <1>2, <2>1 DEF Frame
    <3> QED BY <2>1, <3>1, AddPage DEF OnMessage
  <2>2. CASE Head(wire[w]).type # "new_message"
    BY <2>2, ForgetPage DEF OnMessage
  <2> QED BY <2>1, <2>2
<1> QED BY <1>3, <1>4, PageStep DEF OnMessage, tableVars, ListInv

-----------------------------------------------------------------------------
(* Steps that change a request.                                            *)

LEMMA RequestStep ==
    ASSUME ListInv, NEW n \in Posts, NEW q \in {NoPost} \union Placed,
           posts' = [posts EXCEPT ![n] = q], UNCHANGED <<talk, written>>,
           window' \in [Windows -> Page], wire' \in [Windows -> Seq(Frame)],
           thread' = thread \/ thread' = <<>>
    PROVE  ListInv'
  BY EmptyListing DEF ListInv

LEMMA PostList ==
    ASSUME ListInv, NEW n \in Posts, NEW w \in Windows \union {"board"}, NEW op \in Ops,
           NEW job \in BOOLEAN, op # "bid" => w \in Windows, Post(n, w, op, job),
           window' \in [Windows -> Page]
    PROVE  ListInv'
<1> DEFINE q == [op |-> op, at |-> w, job |-> job, stage |-> "sent", live |-> TRUE, id |-> 0]
<1>1. q \in Placed
  BY DEF Placed, Request
<1>2. posts' = [posts EXCEPT ![n] = q]
  BY DEF Post
<1> HIDE DEF q
<1> QED BY <1>1, <1>2, RequestStep DEF Post, ListInv

LEMMA ClickList ==
    ASSUME ListInv, NEW n \in Posts, NEW w \in Windows,
           SendReply(n, w) \/ AcceptJob(n, w) \/ DismissJob(n, w) \/ DeleteThread(n, w)
    PROVE  ListInv'
<1>0. window \in [Windows -> Page]
  BY DEF ListInv
<1>1. CASE SendReply(n, w)
  <2>1. AboutJob(w) \in BOOLEAN
    BY DEF AboutJob
  <2> QED BY <1>0, <1>1, <2>1, PostList DEF SendReply, Ops
<1>2. CASE AcceptJob(n, w)
  BY <1>0, <1>2, PostList DEF AcceptJob, Ops
<1>3. CASE DismissJob(n, w)
  <2> DEFINE p == [window[w] EXCEPT !.declined = TRUE]
  <2>1. p \in Page
    BY <1>0, PageFields
  <2>2. window' = [window EXCEPT ![w] = p]
    BY <1>3 DEF DismissJob
  <2> HIDE DEF p
  <2> QED BY <1>0, <1>3, <2>1, <2>2, PostList DEF DismissJob, Ops
<1>4. CASE DeleteThread(n, w)
  BY <1>0, <1>4, PostList DEF DeleteThread, Ops
<1> QED BY <1>1, <1>2, <1>3, <1>4

LEMMA FindJobsList == ASSUME ListInv, NEW n \in Posts, FindJobs(n) PROVE ListInv'
<1>1. window' \in [Windows -> Page]
  BY DEF FindJobs, ListInv
<1> QED BY <1>1, PostList DEF FindJobs, Ops

LEMMA StageStep ==
    ASSUME ListInv, NEW n \in Posts, NEW s \in {"sent", "checked", "stored", "ok", "error"},
           posts[n] # NoPost, Stage(n, s), UNCHANGED <<talk, written, window>>,
           wire' \in [Windows -> Seq(Frame)], thread' = thread \/ thread' = <<>>
    PROVE  ListInv'
<1> DEFINE q == [posts[n] EXCEPT !.stage = s]
<1>1. q \in Placed
  BY RequestFields DEF ListInv
<1>2. posts' = [posts EXCEPT ![n] = q]
  BY DEF Stage
<1> HIDE DEF q
<1> QED BY <1>1, <1>2, RequestStep DEF ListInv

LEMMA PushFrames ==
    ASSUME ListInv, NEW f \in Frame, Push(f)
    PROVE  wire' \in [Windows -> Seq(Frame)]
<1>1. \A w \in Windows : Append(wire[w], f) \in Seq(Frame)
  BY AppendProperties DEF ListInv
<1> QED BY <1>1 DEF Push, ListInv

LEMMA StoreThread ==
    ASSUME ListInv, NEW by \in {"client", "freelancer"}, NEW job \in BOOLEAN,
           NEW accepts \in BOOLEAN, Store(by, job, accepts)
    PROVE  /\ written' \in Nat /\ thread' \in Listing
           /\ \A i \in DOMAIN thread' : thread'[i].id <= written'
           /\ Message(written', by, job, accepts) \in Msg
           /\ thread'[Len(thread')] = Message(written', by, job, accepts)
           /\ DOMAIN thread = 1 .. Len(thread) /\ DOMAIN thread' = 1 .. Len(thread) + 1
           /\ \A i \in DOMAIN thread : thread'[i] = thread[i]
           /\ thread'[Len(thread) + 1] = Message(written', by, job, accepts)
<1> DEFINE m == Message(written', by, job, accepts)
<1>1. written' \in Nat /\ written' = written + 1 /\ thread' = Append(thread, m)
  BY DEF Store, ListInv
<1>2. m \in Msg /\ m.id = written'
  BY <1>1 DEF Message, Msg
<1> HIDE DEF m
<1>3. thread \in Seq(Msg) /\ \A i \in DOMAIN thread : thread[i] \in Msg /\ thread[i].id <= written
  BY DEF ListInv, Listing
<1>4. \A i \in DOMAIN thread : thread[i].id # m.id
  BY <1>1, <1>2, <1>3 DEF Msg, ListInv
<1>5. thread' \in Listing
  BY <1>1, <1>2, <1>4, AppendListing DEF ListInv
<1>6. /\ Len(thread') = Len(thread) + 1 /\ Len(thread) \in Nat
      /\ DOMAIN thread = 1 .. Len(thread) /\ DOMAIN thread' = 1 .. Len(thread) + 1
      /\ \A i \in 1 .. Len(thread) : thread'[i] = thread[i]
      /\ thread'[Len(thread) + 1] = m
  BY <1>1, <1>2, <1>3, AppendProperties, LenProperties
<1>7. \A i \in DOMAIN thread' : thread'[i].id <= written'
  BY <1>1, <1>2, <1>3, <1>6 DEF Msg, ListInv
<1> QED BY <1>1, <1>2, <1>5, <1>6, <1>7 DEF m

LEMMA StoreMessageList == ASSUME ListInv, NEW n \in Posts, StoreMessage(n) PROVE ListInv'
<1> DEFINE accepts == posts[n].op = "accept"
<1>1. posts[n] \in Placed /\ posts[n].job \in BOOLEAN /\ talk.user \in {"client", "freelancer"}
  BY ChatAssumption DEF StoreMessage, Is, ListInv, Placed, Request
<1>2. accepts \in BOOLEAN /\ Store(talk.user, posts[n].job, accepts)
  BY DEF StoreMessage
<1> HIDE DEF accepts
<1>3. /\ written' \in Nat /\ thread' \in Listing
      /\ \A i \in DOMAIN thread' : thread'[i].id <= written'
  BY <1>1, <1>2, StoreThread
<1> DEFINE q == [posts[n] EXCEPT !.stage = "stored", !.id = written']
<1>4. q \in Placed
  BY <1>1, <1>3, RequestFields
<1>5. posts' = [posts EXCEPT ![n] = q]
  BY DEF StoreMessage
<1> HIDE DEF q
<1> QED BY <1>3, <1>4, <1>5 DEF StoreMessage, ListInv

LEMMA SentMessage ==
    ASSUME ListInv, NEW n \in Posts, posts[n] # NoPost
    PROVE  Sent(n) \in Msg
<1>1. posts[n].id \in Nat /\ posts[n].job \in BOOLEAN /\ talk.user \in {"client", "freelancer"}
  BY ChatAssumption DEF ListInv, Placed, Request
<1>2. (posts[n].op = "accept") \in BOOLEAN
  OBVIOUS
<1> QED BY <1>1, <1>2 DEF Sent, Message, Msg

LEMMA EndpointList ==
    ASSUME ListInv, NEW n \in Posts,
           \/ Broadcast(n) \/ CheckProposal(n) \/ CreateProposal(n)
           \/ DismissInvitation(n) \/ RemoveThread(n) \/ Fails(n)
    PROVE  ListInv'
<1>0. wire \in [Windows -> Seq(Frame)]
  BY DEF ListInv
<1>1. CASE Broadcast(n)
  <2>1. [type |-> "new_message", message |-> Sent(n)] \in Frame
    BY <1>1, SentMessage DEF Broadcast, Is, Frame
  <2> QED BY <1>1, <2>1, PushFrames, StageStep DEF Broadcast, Is, tableVars
<1>2. CASE CheckProposal(n)
  BY <1>0, <1>2, StageStep DEF CheckProposal, Is, tableVars
<1>3. CASE CreateProposal(n)
  BY <1>0, <1>3, StageStep DEF CreateProposal, Is
<1>4. CASE DismissInvitation(n)
  BY <1>0, <1>4, StageStep DEF DismissInvitation, Is
<1>5. CASE RemoveThread(n)
  BY <1>0, <1>5, StageStep DEF RemoveThread, Is
<1>6. CASE Fails(n)
  BY <1>0, <1>6, StageStep DEF Fails, tableVars
<1> QED BY <1>1, <1>2, <1>3, <1>4, <1>5, <1>6

LEMMA PartnerList == ASSUME ListInv, PartnerWrites \/ PartnerDeletes PROVE ListInv'
<1>1. CASE PartnerWrites
  <2>1. Partner \in {"client", "freelancer"}
    BY DEF Partner
  <2> PICK job \in {FALSE, talk.user = "freelancer"} : Store(Partner, job, FALSE)
    BY <1>1 DEF PartnerWrites
  <2>2. job \in BOOLEAN
    OBVIOUS
  <2>3. /\ written' \in Nat /\ thread' \in Listing
        /\ \A i \in DOMAIN thread' : thread'[i].id <= written'
        /\ thread'[Len(thread')] \in Msg
    BY <2>1, <2>2, StoreThread
  <2>4. [type |-> "new_message", message |-> thread'[Len(thread')]] \in Frame
    BY <2>3 DEF Frame
  <2>5. wire' \in [Windows -> Seq(Frame)]
    BY <1>1, <2>4, PushFrames DEF PartnerWrites
  <2> QED BY <1>1, <2>3, <2>5 DEF PartnerWrites, ListInv
<1>2. CASE PartnerDeletes
  <2>1. [type |-> "thread_deleted"] \in Frame
    BY DEF Frame
  <2>2. wire' \in [Windows -> Seq(Frame)]
    BY <1>2, <2>1, PushFrames DEF PartnerDeletes
  <2> QED BY <1>2, <2>2, EmptyListing DEF PartnerDeletes, ListInv
<1> QED BY <1>1, <1>2

LEMMA HandlePostList == ASSUME ListInv, NEW n \in Posts, HandlePost(n) PROVE ListInv'
<1>0. window \in [Windows -> Page] /\ wire \in [Windows -> Seq(Frame)]
  BY DEF ListInv
<1>1. CASE BidTaken(n) \/ NothingToShow(n)
  BY <1>0, <1>1, RequestStep DEF BidTaken, NothingToShow, Done, HandlePost
<1>2. CASE ReplySent(n) \/ ThreadDeleted(n)
  <2>1. posts[n].at \in Windows /\ Sent(n) \in Msg
    BY <1>2, SentMessage DEF ReplySent, ThreadDeleted, Is, ListInv, Placed
  <2>2. window' \in [Windows -> Page]
    <3>1. Add(posts[n].at, Sent(n)) \in [Windows -> Page]
      <4> PICK p \in Page : Add(posts[n].at, Sent(n)) = [window EXCEPT ![posts[n].at] = p]
        BY <2>1, AddPage
      <4> QED BY <1>0, <2>1
    <3>2. Forget(posts[n].at) \in [Windows -> Page]
      <4> PICK p \in Page : Forget(posts[n].at) = [window EXCEPT ![posts[n].at] = p]
        BY <2>1, ForgetPage
      <4> QED BY <1>0, <2>1
    <3> QED BY <1>0, <1>2, <3>1, <3>2 DEF ReplySent, ThreadDeleted
  <2> QED BY <1>0, <1>2, <2>2, RequestStep DEF ReplySent, ThreadDeleted, Done, HandlePost
<1>3. CASE ApplicationSent(n)
  <2>1. posts[n] \in Placed /\ posts[n].at \in Windows /\ posts[n].op = "apply"
    BY <1>3 DEF ApplicationSent, Is, ListInv, Placed
  <2>2. window' \in [Windows -> Page]
    <3>1. [window[posts[n].at] EXCEPT !.applied = TRUE] \in Page
      BY <1>0, <2>1, PageFields
    <3> QED BY <1>0, <1>3, <2>1, <3>1 DEF ApplicationSent
  <2> DEFINE q == [posts[n] EXCEPT !.op = "accept", !.stage = "sent"]
  <2>3. q \in Placed
    BY <2>1, RequestFields
  <2>4. posts' = [posts EXCEPT ![n] = q]
    BY <1>3 DEF ApplicationSent
  <2> HIDE DEF q
  <2> QED BY <1>0, <2>2, <2>3, <2>4, RequestStep DEF HandlePost
<1> QED BY <1>1, <1>2, <1>3 DEF HandlePost

-----------------------------------------------------------------------------

LEMMA ListStep == ListInv /\ [ChatNext]_chatVars => ListInv'
<1> SUFFICES ASSUME ListInv, [ChatNext]_chatVars PROVE ListInv'
  OBVIOUS
<1>0. talk.windows \subseteq Windows /\ talk.posts \subseteq Posts
  BY ChatAssumption DEF ListInv
<1>1. ASSUME NEW w \in talk.windows,
             \/ Mount(w) \/ Unmount(w) \/ AnswerInbox(w) \/ ShowInbox(w) \/ LoadRest(w)
             \/ SocketOpens(w) \/ Disconnect(w) \/ OnMessage(w) \/ SelectThread(w) \/ Back(w)
      PROVE  ListInv'
  BY <1>0, <1>1, MountList, UnmountList, AnswerInboxList, ShowInboxList, LoadRestList,
     SocketOpensList, DisconnectList, OnMessageList, SelectList
<1>2. ASSUME NEW w \in talk.windows, NEW n \in talk.posts,
             SendReply(n, w) \/ AcceptJob(n, w) \/ DismissJob(n, w) \/ DeleteThread(n, w)
      PROVE  ListInv'
  BY <1>0, <1>2, ClickList
<1>3. ASSUME NEW n \in talk.posts,
             \/ StoreMessage(n) \/ Broadcast(n) \/ CheckProposal(n) \/ CreateProposal(n)
             \/ DismissInvitation(n) \/ RemoveThread(n) \/ Fails(n) \/ HandlePost(n)
             \/ FindJobs(n)
      PROVE  ListInv'
  BY <1>0, <1>3, StoreMessageList, EndpointList, HandlePostList, FindJobsList
<1>4. CASE PartnerWrites \/ PartnerDeletes
  BY <1>4, PartnerList
<1>5. CASE UNCHANGED chatVars
  BY <1>5 DEF chatVars, ListInv
<1> QED BY <1>1, <1>2, <1>3, <1>4, <1>5 DEF ChatNext

\* The lists of a page, the table and the frames keep their types, and no list repeats an id.
THEOREM ListsCorrect == ChatSpec => []ListInv
  BY ListInit, ListStep, PTL DEF ChatSpec

LEMMA ListedApart == ListInv => ShownOnce
<1> SUFFICES ASSUME ListInv, NEW w \in Windows,
                    NEW i \in DOMAIN Listed(w), NEW j \in DOMAIN Listed(w),
                    Listed(w)[i].id = Listed(w)[j].id
             PROVE  i = j
  BY DEF ShownOnce
<1>1. Listed(w) \in Listing
  BY EmptyListing DEF Listed, ListInv, Page
<1> QED BY <1>1 DEF Listing, Distinct

\* Each message is listed once, however the inbox, the frames and the answers come.
THEOREM ListedOnce == ChatSpec => []ShownOnce
  BY ListedApart, ListsCorrect, PTL

-----------------------------------------------------------------------------
(* One acceptance.  A request that will tell the client carries the news   *)
(* from the answer to its application on until the message is stored.      *)

Carrier(n) == Is(n, {"apply"}, "ok") \/ Is(n, {"accept"}, "sent")
ClientTold == \E i \in DOMAIN thread : thread[i].accepts

\* The inductive invariant behind AcceptedOnce: the application that the table took forbids the
\* next, and the news it carries has not been told.
AcceptInv ==
    /\ \A n \in Posts : Carrier(n) => "server" \in applied /\ ~ClientTold
    /\ \A n, k \in Posts : Carrier(n) /\ Carrier(k) => n = k
    /\ ClientTold => "server" \in applied
    /\ \A i, j \in DOMAIN thread : thread[i].accepts /\ thread[j].accepts => i = j

LEMMA AcceptInit == ChatInit => AcceptInv
<1> SUFFICES ASSUME ChatInit PROVE AcceptInv
  OBVIOUS
<1>1. \A n \in Posts : ~Carrier(n)
  BY DEF ChatInit, Carrier, Is
<1>2. \A i \in DOMAIN thread : ~thread[i].accepts
  BY DEF ChatInit, Message
<1> QED BY <1>1, <1>2 DEF AcceptInv, ClientTold

\* No request comes to carry the news.
LEMMA QuietStep ==
    ASSUME AcceptInv, "server" \in applied' <=> "server" \in applied,
           thread' = thread \/ thread' = <<>>,
           \A n \in Posts : Carrier(n)' => Carrier(n)
    PROVE  AcceptInv'
<1>1. CASE thread' = thread
  BY <1>1 DEF AcceptInv, ClientTold
<1>2. CASE thread' = <<>>
  <2>1. DOMAIN thread' = {}
    BY <1>2
  <2> QED BY <2>1 DEF AcceptInv, ClientTold
<1> QED BY <1>1, <1>2

\* What one request's new stage changes.
LEMMA StageChange ==
    ASSUME ListInv, NEW n \in Posts, posts[n] # NoPost,
           NEW s \in {"sent", "checked", "stored", "ok", "error"}, Stage(n, s)
    PROVE  /\ posts'[n] # NoPost /\ posts'[n].op = posts[n].op /\ posts'[n].stage = s
           /\ \A k \in Posts : k # n => posts'[k] = posts[k]
<1> DEFINE q == [posts[n] EXCEPT !.stage = s]
<1>1. posts[n] \in Placed /\ q \in Placed
  BY RequestFields DEF ListInv
<1>2. q # NoPost
  BY <1>1, RequestFields
<1>3. q.op = posts[n].op /\ q.stage = s
  BY <1>1 DEF Placed, Request
<1>4. posts' = [posts EXCEPT ![n] = q]
  BY DEF Stage
<1> HIDE DEF q
<1> QED BY <1>2, <1>3, <1>4 DEF ListInv

\* Steps of a page, of the sockets and of the other user leave the requests as they are.
LEMMA PageAccept ==
    ASSUME ListInv, AcceptInv, UNCHANGED <<thread, applied>>,
           \A n \in Posts : \/ posts'[n] = posts[n]
                            \/ posts'[n] = NoPost
                            \/ posts'[n].op = posts[n].op /\ posts'[n].stage = posts[n].stage
                                                          /\ posts[n] # NoPost
    PROVE  AcceptInv'
<1>1. \A n \in Posts : Carrier(n)' => Carrier(n)
  BY DEF Carrier, Is
<1> QED BY <1>1, QuietStep

LEMMA UnmountAccept ==
    ASSUME ListInv, AcceptInv, NEW w \in Windows, Unmount(w)
    PROVE  AcceptInv'
<1>1. ASSUME NEW n \in Posts, posts[n] # NoPost
      PROVE  LET q == [posts[n] EXCEPT !.live = FALSE]
             IN  q.op = posts[n].op /\ q.stage = posts[n].stage
  BY <1>1 DEF ListInv, Placed, Request
<1>2. ASSUME NEW n \in Posts
      PROVE  \/ posts'[n] = posts[n]
             \/ posts'[n].op = posts[n].op /\ posts'[n].stage = posts[n].stage
                                           /\ posts[n] # NoPost
  <2>1. posts'[n] = posts[n] \/ (posts[n] # NoPost /\ posts'[n] = [posts[n] EXCEPT !.live = FALSE])
    BY DEF Unmount
  <2> QED BY <1>1, <2>1
<1> QED BY <1>2, PageAccept DEF Unmount, tableVars

LEMMA PostAccept ==
    ASSUME ListInv, AcceptInv, NEW n \in Posts, NEW w, NEW op \in Ops, NEW job, op # "accept",
           Post(n, w, op, job)
    PROVE  AcceptInv'
<1>1. /\ posts'[n].op = op /\ posts'[n].stage = "sent"
      /\ \A k \in Posts : k # n => posts'[k] = posts[k]
  BY DEF Post, ListInv
<1>2. \A k \in Posts : Carrier(k)' => Carrier(k)
  BY <1>1 DEF Carrier, Is
<1> QED BY <1>2, QuietStep DEF Post

LEMMA StoreAccept ==
    ASSUME ListInv, AcceptInv, NEW n \in Posts, StoreMessage(n)
    PROVE  AcceptInv'
<1> DEFINE accepts == posts[n].op = "accept"
           q == [posts[n] EXCEPT !.stage = "stored", !.id = written']
<1>1. /\ posts[n] \in Placed /\ posts[n].job \in BOOLEAN /\ talk.user \in {"client", "freelancer"}
      /\ posts[n].stage = "sent" /\ posts[n] # NoPost
  BY ChatAssumption DEF StoreMessage, Is, ListInv, Placed, Request
<1>2. q.stage = "stored" /\ posts' = [posts EXCEPT ![n] = q]
  BY <1>1 DEF StoreMessage, Placed, Request
<1> HIDE DEF q
<1>3. /\ posts'[n].stage = "stored"
      /\ \A k \in Posts : k # n => posts'[k] = posts[k]
  BY <1>2 DEF ListInv
<1>4. accepts \in BOOLEAN /\ Store(talk.user, posts[n].job, accepts)
  BY DEF StoreMessage
<1>5. accepts => Carrier(n)
  BY <1>1 DEF Carrier, Is
<1> HIDE DEF accepts
<1>6. /\ DOMAIN thread = 1 .. Len(thread) /\ DOMAIN thread' = 1 .. Len(thread) + 1
      /\ \A i \in DOMAIN thread : thread'[i] = thread[i]
      /\ thread'[Len(thread) + 1].accepts = accepts
  <2>1. /\ DOMAIN thread = 1 .. Len(thread) /\ DOMAIN thread' = 1 .. Len(thread) + 1
        /\ \A i \in DOMAIN thread : thread'[i] = thread[i]
        /\ thread'[Len(thread) + 1] = Message(written', talk.user, posts[n].job, accepts)
    BY <1>1, <1>4, StoreThread
  <2>2. Message(written', talk.user, posts[n].job, accepts).accepts = accepts
    BY DEF Message
  <2> QED BY <2>1, <2>2
<1>7. \A k \in Posts : Carrier(k)' => Carrier(k) /\ k # n
  BY <1>3 DEF Carrier, Is
<1>8. UNCHANGED <<applied>>
  BY DEF StoreMessage
<1>9. CASE accepts
  <2>1. ~ClientTold /\ "server" \in applied /\ \A k \in Posts : ~Carrier(k)'
    BY <1>5, <1>7, <1>9 DEF AcceptInv
  <2>2. \A i \in DOMAIN thread' : thread'[i].accepts => i = Len(thread) + 1
    BY <1>6, <2>1 DEF ClientTold
  <2> QED BY <1>7, <1>8, <2>1, <2>2 DEF AcceptInv
<1>10. CASE ~accepts
  <2>1. \A i \in DOMAIN thread' : thread'[i].accepts => i \in DOMAIN thread /\ thread[i].accepts
    BY <1>6, <1>10
  <2> QED BY <1>7, <1>8, <2>1 DEF AcceptInv, ClientTold
<1> QED BY <1>4, <1>9, <1>10

LEMMA CheckAccept ==
    ASSUME ListInv, AcceptInv, NEW n \in Posts, CheckProposal(n)
    PROVE  AcceptInv'
<1> PICK s \in {"checked", "error"} : Stage(n, s)
  BY DEF CheckProposal
<1>1. /\ posts'[n].stage = s
      /\ \A k \in Posts : k # n => posts'[k] = posts[k]
  BY StageChange DEF CheckProposal, Is
<1>2. \A k \in Posts : Carrier(k)' => Carrier(k)
  BY <1>1 DEF Carrier, Is
<1>3. UNCHANGED <<thread, applied>>
  BY DEF CheckProposal, tableVars
<1> QED BY <1>2, <1>3, QuietStep

\* The table takes an application only if it has none: then no other carries the news.
LEMMA CreateAccept ==
    ASSUME ListInv, AcceptInv, NEW n \in Posts, CreateProposal(n)
    PROVE  AcceptInv'
<1> PICK s \in {"ok", "error"} : Stage(n, s) /\ s = IF "server" \in applied THEN "error" ELSE "ok"
  BY DEF CreateProposal
<1>1. /\ posts'[n].stage = s
      /\ \A k \in Posts : k # n => posts'[k] = posts[k]
  BY StageChange DEF CreateProposal, Is
<1>2. \A k \in Posts : Carrier(k)' => Carrier(k) \/ (k = n /\ s = "ok")
  BY <1>1 DEF Carrier, Is
<1>3. "server" \in applied' /\ UNCHANGED thread
  BY DEF CreateProposal
<1>4. CASE "server" \in applied
  BY <1>2, <1>3, <1>4, QuietStep
<1>5. CASE "server" \notin applied
  <2>1. ~ClientTold /\ \A k \in Posts : ~Carrier(k)
    BY <1>5 DEF AcceptInv
  <2> QED BY <1>2, <1>3, <2>1 DEF AcceptInv, ClientTold
<1> QED BY <1>4, <1>5

LEMMA QuietStage ==
    ASSUME ListInv, AcceptInv, NEW n \in Posts, posts[n] # NoPost,
           NEW s \in {"ok", "error"}, Stage(n, s),
           s = "ok" => posts[n].op # "apply",
           "server" \in applied' <=> "server" \in applied,
           thread' = thread \/ thread' = <<>>
    PROVE  AcceptInv'
<1>1. /\ posts'[n].op = posts[n].op /\ posts'[n].stage = s
      /\ \A k \in Posts : k # n => posts'[k] = posts[k]
  BY StageChange
<1>2. \A k \in Posts : Carrier(k)' => Carrier(k)
  BY <1>1 DEF Carrier, Is
<1> QED BY <1>2, QuietStep

LEMMA PartnerAccept == ASSUME ListInv, AcceptInv, PartnerWrites \/ PartnerDeletes PROVE AcceptInv'
<1>0. \A k \in Posts : Carrier(k)' => Carrier(k)
  BY DEF PartnerWrites, PartnerDeletes, Carrier, Is
<1>1. CASE PartnerWrites
  <2>0. Partner \in {"client", "freelancer"}
    BY DEF Partner
  <2> PICK job \in {FALSE, talk.user = "freelancer"} : Store(Partner, job, FALSE)
    BY <1>1 DEF PartnerWrites
  <2>1. job \in BOOLEAN
    OBVIOUS
  <2>2. /\ DOMAIN thread = 1 .. Len(thread) /\ DOMAIN thread' = 1 .. Len(thread) + 1
        /\ \A i \in DOMAIN thread : thread'[i] = thread[i]
        /\ thread'[Len(thread) + 1] = Message(written', Partner, job, FALSE)
    BY <2>0, <2>1, StoreThread
  <2>3. ~thread'[Len(thread) + 1].accepts
    BY <2>2 DEF Message
  <2>4. \A i \in DOMAIN thread' : thread'[i].accepts => i \in DOMAIN thread /\ thread[i].accepts
    <3>1. Len(thread) \in Nat
      BY LenProperties DEF ListInv, Listing
    <3>2. \A i \in DOMAIN thread' : i \in DOMAIN thread \/ i = Len(thread) + 1
      BY <2>2, <3>1
    <3> QED BY <2>2, <2>3, <3>2
  <2> QED BY <1>0, <1>1, <2>4 DEF PartnerWrites, AcceptInv, ClientTold
<1>2. CASE PartnerDeletes
  BY <1>0, <1>2, QuietStep DEF PartnerDeletes
<1> QED BY <1>1, <1>2

LEMMA HandlePostAccept == ASSUME ListInv, AcceptInv, NEW n \in Posts, HandlePost(n) PROVE AcceptInv'
<1>1. CASE BidTaken(n) \/ ReplySent(n) \/ ThreadDeleted(n) \/ NothingToShow(n)
  <2>1. posts'[n] = NoPost /\ \A k \in Posts : k # n => posts'[k] = posts[k]
    BY <1>1 DEF BidTaken, ReplySent, ThreadDeleted, NothingToShow, Done, ListInv
  <2>2. \A k \in Posts : Carrier(k)' => Carrier(k)
    BY <2>1 DEF Carrier, Is
  <2>3. "server" \in applied' <=> "server" \in applied
    BY DEF HandlePost, BidTaken
  <2> QED BY <2>2, <2>3, QuietStep DEF HandlePost
<1>2. CASE ApplicationSent(n)
  <2> DEFINE q == [posts[n] EXCEPT !.op = "accept", !.stage = "sent"]
  <2>1. posts[n] \in Placed /\ Carrier(n)
    BY <1>2 DEF ApplicationSent, Carrier, Is, ListInv
  <2>2. q.op = "accept" /\ q.stage = "sent"
    BY <2>1 DEF Placed, Request
  <2>3. posts' = [posts EXCEPT ![n] = q]
    BY <1>2 DEF ApplicationSent
  <2> HIDE DEF q
  <2>4. /\ posts'[n].op = "accept" /\ posts'[n].stage = "sent"
        /\ \A k \in Posts : k # n => posts'[k] = posts[k]
    BY <2>2, <2>3 DEF ListInv
  <2>5. \A k \in Posts : Carrier(k)' => Carrier(k)
    BY <2>1, <2>4 DEF Carrier, Is
  <2>6. UNCHANGED <<thread, applied>>
    BY <1>2 DEF HandlePost, ApplicationSent, BidTaken, Is
  <2> QED BY <2>5, <2>6, QuietStep
<1> QED BY <1>1, <1>2 DEF HandlePost

LEMMA AcceptStep == ListInv /\ AcceptInv /\ [ChatNext]_chatVars => AcceptInv'
<1> SUFFICES ASSUME ListInv, AcceptInv, [ChatNext]_chatVars PROVE AcceptInv'
  OBVIOUS
<1>0. talk.windows \subseteq Windows /\ talk.posts \subseteq Posts
  BY ChatAssumption DEF ListInv
<1>1. ASSUME NEW w \in talk.windows,
             \/ Mount(w) \/ AnswerInbox(w) \/ ShowInbox(w) \/ LoadRest(w)
             \/ SocketOpens(w) \/ Disconnect(w) \/ OnMessage(w) \/ SelectThread(w) \/ Back(w)
      PROVE  AcceptInv'
  <2>1. UNCHANGED <<thread, applied, posts>>
    BY <1>1 DEF Mount, AnswerInbox, ShowInbox, LoadRest, SocketOpens, Disconnect, OnMessage,
                SelectThread, Back, tableVars
  <2> QED BY <2>1, PageAccept
<1>2. ASSUME NEW w \in talk.windows, Unmount(w) PROVE AcceptInv'
  BY <1>0, <1>2, UnmountAccept
<1>3. ASSUME NEW w \in talk.windows, NEW n \in talk.posts,
             SendReply(n, w) \/ AcceptJob(n, w) \/ DismissJob(n, w) \/ DeleteThread(n, w)
      PROVE  AcceptInv'
  BY <1>0, <1>3, PostAccept DEF SendReply, AcceptJob, DismissJob, DeleteThread, Ops
<1>4. ASSUME NEW n \in talk.posts, FindJobs(n) PROVE AcceptInv'
  BY <1>0, <1>4, PostAccept DEF FindJobs, Ops
<1>5. ASSUME NEW n \in talk.posts, StoreMessage(n) \/ CheckProposal(n) \/ CreateProposal(n)
      PROVE  AcceptInv'
  BY <1>0, <1>5, StoreAccept, CheckAccept, CreateAccept
<1>6. ASSUME NEW n \in talk.posts, Broadcast(n) \/ DismissInvitation(n) \/ RemoveThread(n) \/ Fails(n)
      PROVE  AcceptInv'
  BY <1>0, <1>6, QuietStage DEF Broadcast, DismissInvitation, RemoveThread, Fails, Is, tableVars
<1>7. ASSUME NEW n \in talk.posts, HandlePost(n) PROVE AcceptInv'
  BY <1>0, <1>7, HandlePostAccept
<1>8. CASE PartnerWrites \/ PartnerDeletes
  BY <1>8, PartnerAccept
<1>9. CASE UNCHANGED chatVars
  BY <1>9, PageAccept DEF chatVars
<1> QED BY <1>1, <1>2, <1>3, <1>4, <1>5, <1>6, <1>7, <1>8, <1>9 DEF ChatNext

\* The client is told once that the freelancer accepts, also when several applications are in
\* the endpoint together (Messages.js, acceptJob; routers/proposals.py, create_proposal).
THEOREM ToldOnce == ChatSpec => []AcceptedOnce
<1>1. AcceptInv => AcceptedOnce
  BY DEF AcceptInv, AcceptedOnce
<1>2. ChatSpec => []AcceptInv
  <2>1. ChatInit => ListInv /\ AcceptInv
    BY ListInit, AcceptInit
  <2>2. (ListInv /\ AcceptInv) /\ [ChatNext]_chatVars => (ListInv /\ AcceptInv)'
    BY ListStep, AcceptStep
  <2> QED BY <2>1, <2>2, PTL DEF ChatSpec
<1> QED BY <1>1, <1>2, PTL
-----------------------------------------------------------------------------
(* The types of the conversation: what is listed, under way or told of was *)
(* written by then, the table is in the order of its ids, and a page that  *)
(* is not on keeps nothing, nor is the one that a live request is of off.  *)

MsgTo(n) == [id : 1 .. n, by : {"client", "freelancer"}, job : BOOLEAN, accepts : BOOLEAN]
FrameTo(n) == [type : {"thread_deleted"}] \union [type : {"new_message"}, message : MsgTo(n)]

TableSoFar ==
    /\ written \in 1 .. talk.messages /\ drops \in 0 .. talk.drops
    /\ thread \in Seq(MsgTo(written))
    /\ \A i \in 1 .. Len(thread) - 1 : thread[i].id < thread[i + 1].id
    /\ applied \union declined \subseteq {"browser", "server"}

PageSoFar(p, v, n) ==
    /\ p.shown \in Seq(MsgTo(n)) /\ p.inbox \in Seq(MsgTo(n)) /\ v \in Seq(FrameTo(n))
    /\ ~p.on => p = Away /\ v = <<>>
WindowsSoFar == \A w \in Windows : PageSoFar(window[w], wire[w], written)

PostSoFar(q) ==
    /\ q.live /\ q.op # "bid" => window[q.at].on
    /\ q.op \in {"reply", "accept"} /\ q.stage \in {"stored", "ok"} => q.id \in 1 .. written
PostsSoFar == \A n \in Posts : posts[n] # NoPost => PostSoFar(posts[n])

ChatSoFar == ListInv /\ TableSoFar /\ WindowsSoFar /\ PostsSoFar

LEMMA MsgGrows ==
    ASSUME NEW m \in Nat, NEW n \in Nat, m <= n
    PROVE  /\ Seq(MsgTo(m)) \subseteq Seq(MsgTo(n)) /\ Seq(FrameTo(m)) \subseteq Seq(FrameTo(n))
           /\ \A p \in Page : \A v : PageSoFar(p, v, m) => PageSoFar(p, v, n)
<1>1. MsgTo(m) \subseteq MsgTo(n)
  BY DEF MsgTo
<1>2. FrameTo(m) \subseteq FrameTo(n)
  BY <1>1 DEF FrameTo
<1>3. Seq(MsgTo(m)) \subseteq Seq(MsgTo(n)) /\ Seq(FrameTo(m)) \subseteq Seq(FrameTo(n))
  BY <1>1, <1>2
<1> QED BY <1>3 DEF PageSoFar

\* What is on a page shows that it is on.
LEMMA PageIsOn ==
    ASSUME ListInv, WindowsSoFar, NEW w \in Windows,
           \/ window[w].load # "none" \/ window[w].open \/ window[w].socket # "none" \/ wire[w] # <<>>
    PROVE  window[w].on
  BY DEF WindowsSoFar, PageSoFar, Away

LEMMA EmptySoFar ==
    ASSUME NEW n \in Nat
    PROVE  <<>> \in Seq(MsgTo(n)) /\ <<>> \in Seq(FrameTo(n)) /\ PageSoFar(Away, <<>>, n)
  BY EmptySeq DEF PageSoFar, Away

-----------------------------------------------------------------------------
(* The table.                                                              *)

LEMMA StoreSoFar ==
    ASSUME ListInv, TableSoFar, NEW by \in {"client", "freelancer"}, NEW job \in BOOLEAN,
           NEW accepts \in BOOLEAN, Store(by, job, accepts), UNCHANGED talk
    PROVE  /\ written' \in 1 .. talk'.messages /\ written' = written + 1
           /\ thread' \in Seq(MsgTo(written'))
           /\ \A i \in 1 .. Len(thread') - 1 : thread'[i].id < thread'[i + 1].id
           /\ thread'[Len(thread')] \in MsgTo(written')
<1> DEFINE m == Message(written', by, job, accepts)
<1>1. /\ written \in Nat /\ written >= 1 /\ written' = written + 1 /\ thread' = Append(thread, m)
      /\ written' <= talk'.messages
  <2>1. talk.messages \in Nat
    BY ChatAssumption DEF ListInv
  <2> QED BY <2>1 DEF Store, ListInv, TableSoFar
<1>2. m \in MsgTo(written') /\ m.id = written'
  BY <1>1 DEF Message, MsgTo
<1> HIDE DEF m
<1>3. thread \in Seq(MsgTo(written'))
  <2>1. written' \in Nat /\ written <= written'
    BY <1>1
  <2>2. Seq(MsgTo(written)) \subseteq Seq(MsgTo(written'))
    BY <1>1, <2>1, MsgGrows
  <2>3. thread \in Seq(MsgTo(written))
    BY DEF TableSoFar
  <2> QED BY <2>2, <2>3
<1>4. /\ thread' \in Seq(MsgTo(written')) /\ Len(thread') = Len(thread) + 1 /\ Len(thread) \in Nat
      /\ \A i \in 1 .. Len(thread) : thread'[i] = thread[i]
      /\ thread'[Len(thread) + 1] = m
  BY <1>1, <1>2, <1>3, AppendProperties, LenProperties
<1>5. \A i \in 1 .. Len(thread) : thread[i].id \in Nat /\ thread[i].id <= written
  <2>1. thread \in Seq(Msg) /\ DOMAIN thread = 1 .. Len(thread)
    BY DEF ListInv, Listing
  <2>2. \A i \in 1 .. Len(thread) : thread[i] \in Msg
    BY <2>1
  <2> QED BY <2>1, <2>2 DEF ListInv, Msg
<1>6. ASSUME NEW i \in 1 .. Len(thread') - 1 PROVE thread'[i].id < thread'[i + 1].id
  <2>1. CASE i = Len(thread)
    BY <1>1, <1>2, <1>4, <1>5, <2>1
  <2>2. CASE i # Len(thread)
    BY <1>4, <1>6, <2>2 DEF TableSoFar
  <2> QED BY <2>1, <2>2
<1>7. written' \in 1 .. talk'.messages
  <2>1. talk'.messages \in Nat
    BY ChatAssumption DEF ListInv
  <2> QED BY <1>1, <2>1
<1>8. thread'[Len(thread')] \in MsgTo(written')
  BY <1>2, <1>4
<1> QED BY <1>1, <1>4, <1>6, <1>7, <1>8

\* Steps that leave the table as it is, or empty it.
LEMMA TableKeeps ==
    ASSUME ListInv, TableSoFar, UNCHANGED <<talk, written>>, thread' = thread \/ thread' = <<>>,
           drops' = drops \/ Dropped,
           applied' \union declined' \subseteq {"browser", "server"}
    PROVE  TableSoFar'
<1>1. drops' \in 0 .. talk'.drops
  <2>1. talk.drops \in Nat
    BY ChatAssumption DEF ListInv
  <2> QED BY <2>1 DEF Dropped, TableSoFar
<1>2. CASE thread' = thread
  BY <1>1, <1>2 DEF TableSoFar
<1>3. CASE thread' = <<>>
  <2>1. thread' \in Seq(MsgTo(written')) /\ Len(thread') = 0
    BY <1>3, EmptySoFar DEF ListInv
  <2> QED BY <1>1, <2>1 DEF TableSoFar
<1> QED BY <1>2, <1>3

-----------------------------------------------------------------------------
(* The pages.                                                              *)

LEMMA OnePage ==
    ASSUME ListInv, WindowsSoFar, NEW w \in Windows, NEW p, NEW v, PageSoFar(p, v, written),
           window' = [window EXCEPT ![w] = p], wire' = [wire EXCEPT ![w] = v], written' = written
    PROVE  WindowsSoFar'
<1>1. ASSUME NEW u \in Windows PROVE PageSoFar(window'[u], wire'[u], written')
  <2>1. CASE u = w
    <3>1. window'[u] = p /\ wire'[u] = v
      BY <2>1 DEF ListInv
    <3> QED BY <3>1
  <2>2. CASE u # w
    <3>1. window'[u] = window[u] /\ wire'[u] = wire[u]
      BY <2>2 DEF ListInv
    <3> QED BY <3>1 DEF WindowsSoFar
  <2> QED BY <2>1, <2>2
<1> QED BY <1>1 DEF WindowsSoFar, PageSoFar, MsgTo, FrameTo

\* A page that is on stays on, with what its lists have.
LEMMA OnPage ==
    ASSUME ListInv, WindowsSoFar, NEW w \in Windows, NEW p, p.on,
           p.shown \in Seq(MsgTo(written)), p.inbox \in Seq(MsgTo(written)),
           window' = [window EXCEPT ![w] = p], wire' = wire, written' = written
    PROVE  WindowsSoFar'
<1>1. wire' = [wire EXCEPT ![w] = wire[w]]
  BY DEF ListInv
<1>2. PageSoFar(p, wire[w], written)
  BY DEF PageSoFar, WindowsSoFar
<1> QED BY <1>1, <1>2, OnePage

\* No page changes, and no frame is sent.
LEMMA SamePages ==
    ASSUME ListInv, WindowsSoFar, UNCHANGED <<window, wire>>, written' \in Nat, written <= written'
    PROVE  WindowsSoFar'
<1>1. ASSUME NEW w \in Windows PROVE PageSoFar(window[w], wire[w], written')
  BY MsgGrows DEF WindowsSoFar, ListInv
<1> QED BY <1>1 DEF WindowsSoFar, PageSoFar, MsgTo, FrameTo

LEMMA PushSoFar ==
    ASSUME ListInv, WindowsSoFar, NEW f, f \in FrameTo(written'), Push(f), UNCHANGED window,
           written' \in Nat, written <= written'
    PROVE  WindowsSoFar'
<1>1. ASSUME NEW w \in Windows PROVE PageSoFar(window'[w], wire'[w], written')
  <2>1. PageSoFar(window[w], wire[w], written')
    BY MsgGrows DEF WindowsSoFar, ListInv
  <2>2. CASE window[w].socket = "open"
    <3>1. window[w].on /\ wire'[w] = Append(wire[w], f)
      BY <2>2, PageIsOn DEF Push
    <3>2. Append(wire[w], f) \in Seq(FrameTo(written'))
      BY <2>1, AppendProperties DEF PageSoFar
    <3> QED BY <2>1, <3>1, <3>2 DEF PageSoFar
  <2>3. CASE window[w].socket # "open"
    BY <2>1, <2>3 DEF Push
  <2> QED BY <2>2, <2>3
<1> QED BY <1>1 DEF WindowsSoFar, PageSoFar, MsgTo, FrameTo

\* Adding a message keeps the page on and its list of messages written.
LEMMA AddSoFar ==
    ASSUME ListInv, WindowsSoFar, NEW w \in Windows, NEW m, m \in MsgTo(written), window[w].on
    PROVE  \E p : /\ Add(w, m) = [window EXCEPT ![w] = p] /\ p.on
                  /\ p.shown \in Seq(MsgTo(written)) /\ p.inbox \in Seq(MsgTo(written))
<1>1. /\ window[w] \in Page /\ window[w].shown \in Seq(MsgTo(written))
      /\ window[w].inbox \in Seq(MsgTo(written))
  BY DEF ListInv, WindowsSoFar, PageSoFar
<1>2. CASE Lists(w, m)
  <2>1. Add(w, m) = [window EXCEPT ![w] = window[w]]
    BY <1>2 DEF Add, ListInv
  <2> QED BY <1>1, <2>1
<1>3. CASE ~Lists(w, m)
  <2> PICK s : s = Append(window[w].shown, m)
    OBVIOUS
  <2>1. s \in Seq(MsgTo(written))
    BY <1>1, AppendProperties
  <2> PICK p : p = [window[w] EXCEPT !.shown = s]
    OBVIOUS
  <2>2. p.on = window[w].on /\ p.shown = s /\ p.inbox = window[w].inbox
    BY <1>1 DEF Page
  <2>3. Add(w, m) = [window EXCEPT ![w] = p]
    BY <1>3 DEF Add
  <2> QED BY <1>1, <2>1, <2>2, <2>3
<1> QED BY <1>2, <1>3

LEMMA ForgetSoFar ==
    ASSUME ListInv, WindowsSoFar, NEW w \in Windows, window[w].on
    PROVE  \E p : /\ Forget(w) = [window EXCEPT ![w] = p] /\ p.on
                  /\ p.shown \in Seq(MsgTo(written)) /\ p.inbox \in Seq(MsgTo(written))
<1> PICK p : p = [window[w] EXCEPT !.shown = <<>>, !.open = FALSE]
  OBVIOUS
<1>1. /\ window[w] \in Page /\ window[w].inbox \in Seq(MsgTo(written))
      /\ <<>> \in Seq(MsgTo(written))
  BY EmptySoFar DEF ListInv, WindowsSoFar, PageSoFar
<1>2. p.on = window[w].on /\ p.shown = <<>> /\ p.inbox = window[w].inbox
  BY <1>1 DEF Page
<1>3. Forget(w) = [window EXCEPT ![w] = p]
  BY DEF Forget
<1> QED BY <1>1, <1>2, <1>3

-----------------------------------------------------------------------------
(* What each kind of step does to the table, the pages and the requests.   *)

StillOn == \A u \in Windows : window[u].on => window'[u].on

LEMMA TableStep ==
    ASSUME ListInv, TableSoFar, ChatNext
    PROVE  TableSoFar' /\ talk' = talk /\ written' \in Nat /\ written <= written'
<1>0. written \in Nat /\ talk.windows \subseteq Windows /\ talk.posts \subseteq Posts
  BY ChatAssumption DEF ListInv
<1>1. ASSUME NEW w \in talk.windows,
             \/ Mount(w) \/ Unmount(w) \/ AnswerInbox(w) \/ ShowInbox(w) \/ LoadRest(w)
             \/ SocketOpens(w) \/ Disconnect(w) \/ OnMessage(w) \/ SelectThread(w) \/ Back(w)
      PROVE  TableSoFar' /\ talk' = talk /\ written' = written
  <2>1. UNCHANGED <<talk, thread, written, applied, declined>> /\ (drops' = drops \/ Dropped)
    BY <1>1 DEF Mount, Unmount, AnswerInbox, ShowInbox, LoadRest, SocketOpens, Disconnect, OnMessage,
                SelectThread, Back, tableVars
  <2>2. applied' \union declined' \subseteq {"browser", "server"}
    BY <2>1 DEF TableSoFar
  <2> QED BY <2>1, <2>2, TableKeeps
<1>2. ASSUME NEW w, NEW n,
             \/ SendReply(n, w) \/ AcceptJob(n, w) \/ DismissJob(n, w) \/ DeleteThread(n, w)
             \/ FindJobs(n)
      PROVE  TableSoFar' /\ talk' = talk /\ written' = written
  <2>1. /\ UNCHANGED <<talk, thread, written, applied, drops>>
        /\ declined' \subseteq declined \union {"browser"}
    BY <1>2 DEF SendReply, AcceptJob, DismissJob, DeleteThread, FindJobs, Post
  <2>2. applied' \union declined' \subseteq {"browser", "server"}
    BY <2>1 DEF TableSoFar
  <2> QED BY <2>1, <2>2, TableKeeps
<1>3. ASSUME NEW n \in Posts,
             \/ Broadcast(n) \/ CheckProposal(n) \/ CreateProposal(n) \/ DismissInvitation(n)
             \/ RemoveThread(n) \/ Fails(n) \/ HandlePost(n)
      PROVE  TableSoFar' /\ talk' = talk /\ written' = written
  <2>1. /\ UNCHANGED <<talk, written>> /\ (thread' = thread \/ thread' = <<>>)
        /\ (drops' = drops \/ Dropped)
        /\ applied' \subseteq applied \union {"browser", "server"}
        /\ declined' \subseteq declined \union {"server"}
    BY <1>3 DEF Broadcast, CheckProposal, CreateProposal, DismissInvitation, RemoveThread, Fails,
                HandlePost, BidTaken, tableVars
  <2>2. applied' \union declined' \subseteq {"browser", "server"}
    BY <2>1 DEF TableSoFar
  <2> QED BY <2>1, <2>2, TableKeeps
<1>4. ASSUME NEW n \in Posts, StoreMessage(n)
      PROVE  TableSoFar' /\ talk' = talk /\ written' = written + 1
  <2> PICK accepts \in BOOLEAN : accepts = (posts[n].op = "accept")
    OBVIOUS
  <2>1. posts[n].job \in BOOLEAN /\ talk.user \in {"client", "freelancer"}
    BY <1>4, ChatAssumption DEF StoreMessage, Is, ListInv, Placed, Request
  <2>2. Store(talk.user, posts[n].job, accepts) /\ UNCHANGED <<talk, applied, declined, drops>>
    BY <1>4 DEF StoreMessage
  <2> QED BY <2>1, <2>2, StoreSoFar DEF TableSoFar
<1>5. CASE PartnerWrites
  <2> PICK job \in {FALSE, talk.user = "freelancer"} : Store(Partner, job, FALSE)
    BY <1>5 DEF PartnerWrites
  <2>1. Partner \in {"client", "freelancer"} /\ job \in BOOLEAN
    BY DEF Partner
  <2>2. UNCHANGED <<talk, applied, declined, drops>>
    BY <1>5 DEF PartnerWrites
  <2>3. TableSoFar' /\ written' = written + 1
    BY <2>1, <2>2, StoreSoFar DEF TableSoFar
  <2> QED BY <1>0, <2>2, <2>3
<1>6. CASE PartnerDeletes
  <2>1. applied' \union declined' \subseteq {"browser", "server"}
    BY <1>6 DEF PartnerDeletes, TableSoFar
  <2>2. TableSoFar' /\ talk' = talk /\ written' = written
    BY <1>6, <2>1, TableKeeps DEF PartnerDeletes
  <2> QED BY <1>0, <2>2
<1> QED BY <1>0, <1>1, <1>2, <1>3, <1>4, <1>5, <1>6 DEF ChatNext

\* A page's own steps, all but its being left.
LEMMA PageSoFarStep ==
    ASSUME ChatSoFar, NEW w \in Windows,
           \/ Mount(w) \/ AnswerInbox(w) \/ ShowInbox(w) \/ LoadRest(w) \/ SocketOpens(w)
           \/ Disconnect(w) \/ OnMessage(w) \/ SelectThread(w) \/ Back(w)
    PROVE  WindowsSoFar' /\ StillOn /\ posts' = posts /\ written' = written
<1>0. /\ posts' = posts /\ written' = written
  BY DEF Mount, AnswerInbox, ShowInbox, LoadRest, SocketOpens, Disconnect, OnMessage,
         SelectThread, Back, tableVars
<1> SUFFICES WindowsSoFar' /\ StillOn
  BY <1>0
<1>1. /\ window[w] \in Page /\ window[w].shown \in Seq(MsgTo(written))
      /\ window[w].inbox \in Seq(MsgTo(written)) /\ wire[w] \in Seq(FrameTo(written))
      /\ <<>> \in Seq(MsgTo(written)) /\ <<>> \in Seq(FrameTo(written))
      /\ thread \in Seq(MsgTo(written)) /\ ListInv /\ WindowsSoFar
  BY EmptySoFar DEF ChatSoFar, ListInv, WindowsSoFar, PageSoFar, TableSoFar
<1>2. ASSUME NEW p, NEW v, p.on, p.shown \in Seq(MsgTo(written)), p.inbox \in Seq(MsgTo(written)),
             v \in Seq(FrameTo(written)),
             window' = [window EXCEPT ![w] = p], wire' = [wire EXCEPT ![w] = v]
      PROVE  WindowsSoFar' /\ StillOn
  <2>1. WindowsSoFar'
    BY <1>0, <1>1, <1>2, OnePage DEF PageSoFar
  <2> QED BY <1>1, <1>2, <2>1 DEF StillOn, ListInv
<1>3. wire = [wire EXCEPT ![w] = wire[w]]
  BY <1>1 DEF ListInv
<1>4. CASE Mount(w)
  <2> PICK b : b = ("browser" \in declined)
    OBVIOUS
  <2> PICK p : p = [Away EXCEPT !.on = TRUE, !.load = "asked", !.socket = "opening", !.declined = b]
    OBVIOUS
  <2>1. p.on /\ p.shown = <<>> /\ p.inbox = <<>>
    BY DEF Away
  <2>2. window' = [window EXCEPT ![w] = p] /\ wire' = wire
    BY <1>4 DEF Mount
  <2> QED BY <1>1, <1>2, <1>3, <2>1, <2>2
<1>5. CASE AnswerInbox(w)
  <2>1. window[w].on /\ wire' = wire
    BY <1>1, <1>5, PageIsOn DEF AnswerInbox
  <2>2. PICK p : /\ window' = [window EXCEPT ![w] = p] /\ p.on = window[w].on
                 /\ p.shown = window[w].shown /\ p.inbox \in {window[w].inbox, thread}
    <3>1. CASE window' = [window EXCEPT ![w].load = "inbox", ![w].inbox = thread]
      <4> PICK p : p = [window[w] EXCEPT !.load = "inbox", !.inbox = thread]
        OBVIOUS
      <4>1. /\ p.on = window[w].on /\ p.shown = window[w].shown /\ p.inbox = thread
            /\ window' = [window EXCEPT ![w] = p]
        BY <1>1, <3>1 DEF Page
      <4> QED BY <4>1
    <3>2. CASE window' = [window EXCEPT ![w].load = "rest"]
      <4> PICK p : p = [window[w] EXCEPT !.load = "rest"]
        OBVIOUS
      <4>1. /\ p.on = window[w].on /\ p.shown = window[w].shown /\ p.inbox = window[w].inbox
            /\ window' = [window EXCEPT ![w] = p]
        BY <1>1, <3>2 DEF Page
      <4> QED BY <4>1
    <3> QED BY <1>5, <3>1, <3>2 DEF AnswerInbox
  <2>3. p.inbox \in Seq(MsgTo(written)) /\ p.shown \in Seq(MsgTo(written)) /\ p.on
    BY <1>1, <2>1, <2>2
  <2> QED BY <1>1, <1>2, <1>3, <2>1, <2>2, <2>3
<1>6. CASE ShowInbox(w)
  <2>1. window[w].on /\ wire' = wire
    BY <1>1, <1>6, PageIsOn DEF ShowInbox
  <2> PICK p : p = [window[w] EXCEPT !.shown = window[w].inbox, !.inbox = <<>>, !.load = "rest"]
    OBVIOUS
  <2>2. p.on = window[w].on /\ p.shown = window[w].inbox /\ p.inbox = <<>>
    BY <1>1 DEF Page
  <2>3. window' = [window EXCEPT ![w] = p]
    BY <1>6 DEF ShowInbox
  <2> QED BY <1>1, <1>2, <1>3, <2>1, <2>2, <2>3
<1>7. CASE LoadRest(w)
  <2>1. window[w].on /\ wire' = wire
    BY <1>1, <1>7, PageIsOn DEF LoadRest
  <2>2. PICK mine \in {FALSE, talk.user = "freelancer"}, opens \in BOOLEAN :
          window' = [window EXCEPT ![w].load = "done", ![w].open = opens,
                                   ![w].applied = mine /\ "server" \in applied,
                                   ![w].declined = @ \/ (mine /\ "server" \in declined)]
    BY <1>7 DEF LoadRest
  <2> PICK a, d : a = (mine /\ "server" \in applied)
                  /\ d = (window[w].declined \/ (mine /\ "server" \in declined))
    OBVIOUS
  <2> PICK p : p = [window[w] EXCEPT !.load = "done", !.open = opens, !.applied = a, !.declined = d]
    OBVIOUS
  <2>3. p.on = window[w].on /\ p.shown = window[w].shown /\ p.inbox = window[w].inbox
    BY <1>1 DEF Page
  <2>4. window' = [window EXCEPT ![w] = p]
    BY <2>2
  <2> QED BY <1>1, <1>2, <1>3, <2>1, <2>3, <2>4
<1>8. CASE SocketOpens(w) \/ Disconnect(w)
  <2>1. window[w].on
    BY <1>1, <1>8, PageIsOn DEF SocketOpens, Disconnect
  <2>2. PICK s \in {"open", "deaf"}, v \in {wire[w], <<>>} :
          window' = [window EXCEPT ![w].socket = s] /\ wire' = [wire EXCEPT ![w] = v]
    BY <1>3, <1>8 DEF SocketOpens, Disconnect
  <2> PICK p : p = [window[w] EXCEPT !.socket = s]
    OBVIOUS
  <2>3. p.on = window[w].on /\ p.shown = window[w].shown /\ p.inbox = window[w].inbox
    BY <1>1 DEF Page
  <2> QED BY <1>1, <1>2, <2>1, <2>2, <2>3
<1>9. CASE SelectThread(w) \/ Back(w)
  <2>1. window[w].on /\ wire' = wire
    BY <1>1, <1>9, PageIsOn DEF SelectThread, Back
  <2>2. PICK b \in BOOLEAN : window' = [window EXCEPT ![w].open = b]
    BY <1>9 DEF SelectThread, Back
  <2> PICK p : p = [window[w] EXCEPT !.open = b]
    OBVIOUS
  <2>3. p.on = window[w].on /\ p.shown = window[w].shown /\ p.inbox = window[w].inbox
    BY <1>1 DEF Page
  <2> QED BY <1>1, <1>2, <1>3, <2>1, <2>2, <2>3
<1>10. CASE OnMessage(w)
  <2>1. window[w].on /\ wire[w] # <<>>
    BY <1>1, <1>10, PageIsOn DEF OnMessage
  <2>2. Head(wire[w]) \in FrameTo(written) /\ Tail(wire[w]) \in Seq(FrameTo(written))
    BY <1>1, <2>1, HeadTailProperties
  <2>3. PICK p : /\ window' = [window EXCEPT ![w] = p] /\ p.on
                 /\ p.shown \in Seq(MsgTo(written)) /\ p.inbox \in Seq(MsgTo(written))
    <3>1. CASE Head(wire[w]).type = "new_message"
      <4>1. Head(wire[w]).message \in MsgTo(written)
        BY <2>2, <3>1 DEF FrameTo
      <4> QED BY <1>1, <1>10, <2>1, <3>1, <4>1, AddSoFar DEF OnMessage
    <3>2. CASE Head(wire[w]).type # "new_message"
      BY <1>1, <1>10, <2>1, <3>2, ForgetSoFar DEF OnMessage
    <3> QED BY <3>1, <3>2
  <2>4. wire' = [wire EXCEPT ![w] = Tail(wire[w])]
    BY <1>10 DEF OnMessage
  <2> QED BY <1>2, <2>2, <2>3, <2>4
<1> QED BY <1>4, <1>5, <1>6, <1>7, <1>8, <1>9, <1>10

\* The pages stay on and one request changes, to one that is of a page that is on, and of a
\* message that was written if it says that it is.
LEMMA PostSoFarStep ==
    ASSUME ListInv, PostsSoFar, StillOn, NEW n \in Posts,
           \A k \in Posts : k # n => posts'[k] = posts[k],
           posts'[n] # NoPost => PostSoFar(posts[n])',
           written' \in Nat, written <= written'
    PROVE  PostsSoFar'
<1>1. written \in Nat
  BY DEF ListInv
<1>2. ASSUME NEW k \in Posts, posts'[k] # NoPost PROVE PostSoFar(posts[k])'
  <2>1. CASE k = n
    BY <1>2, <2>1 DEF PostSoFar
  <2>2. CASE k # n
    <3>1. posts'[k] = posts[k] /\ PostSoFar(posts[k]) /\ posts[k] \in Placed
      BY <1>2, <2>2 DEF PostsSoFar, ListInv
    <3>2. posts[k].live /\ posts[k].op # "bid" => window'[posts[k].at].on
      BY <3>1 DEF PostSoFar, StillOn, Placed
    <3>3. 1 .. written \subseteq 1 .. written'
      BY <1>1
    <3> QED BY <3>1, <3>2, <3>3 DEF PostSoFar
  <2> QED BY <2>1, <2>2
<1> QED BY <1>2 DEF PostsSoFar

LEMMA PostsKeep ==
    ASSUME ListInv, PostsSoFar, StillOn, posts' = posts, written' \in Nat, written <= written'
    PROVE  PostsSoFar'
<1>1. written \in Nat
  BY DEF ListInv
<1>2. ASSUME NEW k \in Posts, posts[k] # NoPost PROVE PostSoFar(posts[k])'
  <2>1. PostSoFar(posts[k]) /\ posts[k] \in Placed
    BY <1>2 DEF PostsSoFar, ListInv
  <2>2. posts[k].live /\ posts[k].op # "bid" => window'[posts[k].at].on
    BY <2>1 DEF PostSoFar, StillOn, Placed
  <2>3. 1 .. written \subseteq 1 .. written'
    BY <1>1
  <2> QED BY <2>1, <2>2, <2>3 DEF PostSoFar
<1> QED BY <1>2 DEF PostsSoFar

\* The page that is left keeps nothing, and its handlers nothing of it.
LEMMA UnmountSoFar ==
    ASSUME ChatSoFar, NEW w \in Windows, Unmount(w)
    PROVE  WindowsSoFar' /\ PostsSoFar'
<1>1. /\ window' = [window EXCEPT ![w] = Away] /\ wire' = [wire EXCEPT ![w] = <<>>]
      /\ written' = written /\ ListInv /\ WindowsSoFar /\ PostsSoFar /\ written \in Nat
  BY DEF Unmount, tableVars, ChatSoFar, ListInv
<1>2. WindowsSoFar'
  BY <1>1, EmptySoFar, OnePage
<1>3. ASSUME NEW n \in Posts, posts'[n] # NoPost PROVE PostSoFar(posts[n])'
  <2>1. posts'[n] = IF posts[n] # NoPost /\ posts[n].at = w
                    THEN [posts[n] EXCEPT !.live = FALSE] ELSE posts[n]
    BY DEF Unmount
  <2>2. posts[n] \in Placed /\ PostSoFar(posts[n])
    BY <1>1, <1>3, <2>1 DEF PostsSoFar, ListInv
  <2>3. CASE posts[n].at = w
    <3> PICK q : q = [posts[n] EXCEPT !.live = FALSE]
      OBVIOUS
    <3>1. /\ posts'[n] = q /\ ~q.live /\ q.op = posts[n].op /\ q.stage = posts[n].stage
          /\ q.id = posts[n].id
      BY <1>3, <2>1, <2>2, <2>3 DEF Placed, Request
    <3> QED BY <1>1, <2>2, <3>1 DEF PostSoFar
  <2>4. CASE posts[n].at # w
    <3>1. posts'[n] = posts[n]
      BY <2>1, <2>4
    <3>2. posts[n].op # "bid" => window'[posts[n].at] = window[posts[n].at]
      BY <1>1, <2>2, <2>4 DEF Placed, ListInv
    <3> QED BY <1>1, <2>2, <3>1, <3>2 DEF PostSoFar
  <2> QED BY <2>3, <2>4
<1> QED BY <1>2, <1>3 DEF PostsSoFar

LEMMA NothingListed ==
    ASSUME NEW w \in Windows, NEW i \in DOMAIN Listed(w)
    PROVE  window[w].load = "done"
<1> SUFFICES ASSUME window[w].load # "done" PROVE FALSE
  OBVIOUS
<1>1. Listed(w) = <<>>
  BY DEF Listed
<1>2. DOMAIN <<>> = {}
  OBVIOUS
<1> QED BY <1>1, <1>2

\* What a user asks for at a page.
LEMMA ClickSoFar ==
    ASSUME ChatSoFar, NEW w \in Windows, NEW n \in Posts,
           SendReply(n, w) \/ AcceptJob(n, w) \/ DismissJob(n, w) \/ DeleteThread(n, w)
    PROVE  WindowsSoFar' /\ PostsSoFar'
<1>1. ListInv /\ WindowsSoFar /\ PostsSoFar /\ written \in Nat
  BY DEF ChatSoFar, ListInv
<1>2. /\ wire' = wire /\ written' = written
      /\ \E at, op, job : posts' = [posts EXCEPT ![n] = [op |-> op, at |-> at, job |-> job,
                                       stage |-> "sent", live |-> TRUE, id |-> 0]]
                          /\ at = w /\ window[w].on
  <2>1. CASE SendReply(n, w) \/ DeleteThread(n, w)
    BY <1>1, <2>1, PageIsOn DEF SendReply, DeleteThread, Post
  <2>2. CASE AcceptJob(n, w) \/ DismissJob(n, w)
    <3>1. window[w].load = "done"
      BY <2>2, NothingListed DEF AcceptJob, DismissJob, InvitationOffered
    <3>2. window[w].on
      BY <1>1, <3>1, PageIsOn
    <3> QED BY <2>2, <3>2 DEF AcceptJob, DismissJob, Post
  <2> QED BY <2>1, <2>2
<1>3. WindowsSoFar' /\ StillOn
  <2>1. CASE window' = window
    BY <1>1, <1>2, <2>1, SamePages DEF StillOn
  <2>2. CASE window' # window
    <3>1. DismissJob(n, w)
      BY <2>2 DEF SendReply, AcceptJob, DeleteThread
    <3>2. window' = [window EXCEPT ![w].declined = TRUE] /\ window[w].load = "done"
      BY <3>1, NothingListed DEF DismissJob, InvitationOffered
    <3>3. window[w].on
      BY <1>1, <3>2, PageIsOn
    <3> PICK p : p = [window[w] EXCEPT !.declined = TRUE]
      OBVIOUS
    <3>4. /\ p.on = window[w].on /\ p.shown = window[w].shown /\ p.inbox = window[w].inbox
          /\ window' = [window EXCEPT ![w] = p] /\ window \in [Windows -> Page]
      BY <1>1, <3>2 DEF Page, ListInv
    <3>5. WindowsSoFar'
      BY <1>1, <1>2, <3>3, <3>4, OnPage DEF WindowsSoFar, PageSoFar
    <3> QED BY <3>3, <3>4, <3>5 DEF StillOn
  <2> QED BY <2>1, <2>2
<1>4. PICK at, op, job : /\ posts' = [posts EXCEPT ![n] = [op |-> op, at |-> at, job |-> job,
                                        stage |-> "sent", live |-> TRUE, id |-> 0]]
                         /\ at = w /\ window[w].on
  BY <1>2
<1> PICK q : q = [op |-> op, at |-> at, job |-> job, stage |-> "sent", live |-> TRUE, id |-> 0]
  OBVIOUS
<1>5. q.op = op /\ q.at = at /\ q.stage = "sent" /\ posts' = [posts EXCEPT ![n] = q]
  BY <1>4
<1>6. posts'[n] = q /\ \A k \in Posts : k # n => posts'[k] = posts[k]
  BY <1>1, <1>5 DEF ListInv
<1>7. PostSoFar(posts[n])'
  BY <1>3, <1>4, <1>5, <1>6 DEF PostSoFar, StillOn
<1>8. written' \in Nat /\ written <= written'
  BY <1>1, <1>2
<1>9. PostsSoFar'
  BY <1>1, <1>3, <1>6, <1>7, <1>8, PostSoFarStep
<1> QED BY <1>3, <1>9

\* The endpoints: a message is stored, then sent; or a request comes to another stage.
LEMMA EndpointSoFar ==
    ASSUME ChatSoFar, NEW n \in Posts, written' \in Nat, written <= written',
           \/ StoreMessage(n) \/ Broadcast(n) \/ CheckProposal(n) \/ CreateProposal(n)
           \/ DismissInvitation(n) \/ RemoveThread(n) \/ Fails(n)
    PROVE  WindowsSoFar' /\ PostsSoFar'
<1>1. ListInv /\ WindowsSoFar /\ PostsSoFar /\ written \in Nat
  BY DEF ChatSoFar, ListInv
<1>2. /\ posts[n] # NoPost /\ posts[n] \in Placed /\ PostSoFar(posts[n])
      /\ window' = window
  BY <1>1 DEF StoreMessage, Broadcast, CheckProposal, CreateProposal, DismissInvitation, RemoveThread,
              Fails, Is, ListInv, PostsSoFar
<1>3. StillOn
  BY <1>2 DEF StillOn
<1>4. WindowsSoFar'
  <2>1. CASE Broadcast(n)
    <3>1. posts[n].op \in {"reply", "accept"} /\ posts[n].stage = "stored"
      BY <2>1 DEF Broadcast, Is
    <3>2. posts[n].id \in 1 .. written /\ written' = written
      BY <1>2, <2>1, <3>1 DEF PostSoFar, Broadcast, tableVars
    <3>3. posts[n].job \in BOOLEAN /\ talk.user \in {"client", "freelancer"}
      BY <1>1, <1>2, ChatAssumption DEF Placed, Request, ListInv
    <3>4. (posts[n].op = "accept") \in BOOLEAN
      OBVIOUS
    <3>5. Sent(n) \in MsgTo(written)
      BY <3>2, <3>3, <3>4 DEF Sent, Message, MsgTo
    <3> PICK f : f = [type |-> "new_message", message |-> Sent(n)]
      OBVIOUS
    <3>6. f \in FrameTo(written)
      BY <3>5 DEF FrameTo
    <3>7. f \in FrameTo(written') /\ Push(f)
      BY <2>1, <3>2, <3>6 DEF Broadcast
    <3> QED BY <1>1, <1>2, <3>2, <3>7, PushSoFar
  <2>2. CASE ~Broadcast(n)
    <3>1. wire' = wire
      BY <2>2 DEF StoreMessage, CheckProposal, CreateProposal, DismissInvitation, RemoveThread, Fails
    <3> QED BY <1>1, <1>2, <3>1, SamePages
  <2> QED BY <2>1, <2>2
<1>5. PICK q : /\ posts' = [posts EXCEPT ![n] = q] /\ q.op = posts[n].op /\ q.at = posts[n].at
               /\ q.live = posts[n].live
               /\ q.op \in {"reply", "accept"} /\ q.stage \in {"stored", "ok"} => q.id \in 1 .. written'
  <2>1. CASE StoreMessage(n)
    <3> PICK q : q = [posts[n] EXCEPT !.stage = "stored", !.id = written']
      OBVIOUS
    <3>1. /\ q.op = posts[n].op /\ q.at = posts[n].at /\ q.live = posts[n].live /\ q.id = written'
          /\ posts' = [posts EXCEPT ![n] = q]
      BY <1>2, <2>1 DEF StoreMessage, Placed, Request
    <3>2. written' \in 1 .. written'
      BY <1>1, <2>1 DEF StoreMessage, Store
    <3>3. q.id \in 1 .. written'
      BY <3>1, <3>2
    <3> QED BY <3>1, <3>3
  <2>2. CASE ~StoreMessage(n)
    <3>1. PICK s : /\ Stage(n, s)
                   /\ posts[n].op \in {"reply", "accept"} /\ s \in {"stored", "ok"}
                        => posts[n].stage = "stored"
      BY <2>2 DEF Broadcast, CheckProposal, CreateProposal, DismissInvitation, RemoveThread, Fails, Is
    <3> PICK q : q = [posts[n] EXCEPT !.stage = s]
      OBVIOUS
    <3>2. /\ q.op = posts[n].op /\ q.at = posts[n].at /\ q.live = posts[n].live /\ q.id = posts[n].id
          /\ q.stage = s /\ posts' = [posts EXCEPT ![n] = q]
      BY <1>2, <3>1 DEF Stage, Placed, Request
    <3>3. 1 .. written \subseteq 1 .. written'
      BY <1>1
    <3> QED BY <1>2, <3>1, <3>2, <3>3 DEF PostSoFar
  <2> QED BY <2>1, <2>2
<1>6. posts'[n] = q /\ \A k \in Posts : k # n => posts'[k] = posts[k]
  BY <1>1, <1>5 DEF ListInv
<1>7. q.op # "bid" /\ q.live => q.at \in Windows /\ window'[q.at].on
  BY <1>2, <1>5 DEF PostSoFar, Placed
<1>8. PostSoFar(posts[n])'
  BY <1>5, <1>6, <1>7 DEF PostSoFar
<1>9. PostsSoFar'
  BY <1>1, <1>3, <1>6, <1>8, PostSoFarStep
<1> QED BY <1>4, <1>9

\* The answer reaches the page, if it is the one that asked.
LEMMA HandleSoFar ==
    ASSUME ChatSoFar, NEW n \in Posts, HandlePost(n)
    PROVE  WindowsSoFar' /\ PostsSoFar'
<1>1. ListInv /\ WindowsSoFar /\ PostsSoFar /\ written \in Nat /\ written' = written /\ wire' = wire
  BY DEF ChatSoFar, ListInv, HandlePost
<1>2. posts[n] # NoPost /\ posts[n] \in Placed /\ PostSoFar(posts[n])
  BY <1>1 DEF HandlePost, BidTaken, ReplySent, ApplicationSent, ThreadDeleted, NothingToShow, Is,
              ListInv, PostsSoFar
<1>3. WindowsSoFar' /\ StillOn
  <2>1. CASE window' = window
    BY <1>1, <2>1, SamePages DEF StillOn
  <2>2. CASE window' # window
    <3> PICK w : w = posts[n].at
      OBVIOUS
    <3>1. ReplySent(n) \/ ApplicationSent(n) \/ ThreadDeleted(n)
      BY <2>2 DEF HandlePost, BidTaken, NothingToShow
    <3>2. w \in Windows /\ window[w].on /\ window[w] \in Page
      BY <1>1, <1>2, <2>2, <3>1 DEF ReplySent, ApplicationSent, ThreadDeleted, Is, PostSoFar, Placed,
                                    ListInv
    <3>3. PICK p : /\ window' = [window EXCEPT ![w] = p] /\ p.on
                   /\ p.shown \in Seq(MsgTo(written)) /\ p.inbox \in Seq(MsgTo(written))
      <4>1. CASE ReplySent(n)
        <5>1. posts[n].op = "reply" /\ posts[n].stage = "ok"
          BY <4>1 DEF ReplySent, Is
        <5>2. posts[n].id \in 1 .. written
          BY <1>2, <5>1 DEF PostSoFar
        <5>3. posts[n].job \in BOOLEAN /\ talk.user \in {"client", "freelancer"}
          BY <1>1, <1>2, ChatAssumption DEF Placed, Request, ListInv
        <5>4. Sent(n) \in MsgTo(written)
          BY <5>1, <5>2, <5>3 DEF Sent, Message, MsgTo
        <5>5. window' = Add(w, Sent(n))
          BY <2>2, <4>1 DEF ReplySent
        <5> QED BY <1>1, <3>2, <5>4, <5>5, AddSoFar
      <4>2. CASE ThreadDeleted(n)
        <5>1. window' = Forget(w)
          BY <2>2, <4>2 DEF ThreadDeleted
        <5> QED BY <1>1, <3>2, <5>1, ForgetSoFar
      <4>3. CASE ApplicationSent(n)
        <5> PICK p : p = [window[w] EXCEPT !.applied = TRUE]
          OBVIOUS
        <5>1. /\ p.on = window[w].on /\ p.shown = window[w].shown /\ p.inbox = window[w].inbox
              /\ window' = [window EXCEPT ![w] = p]
          BY <2>2, <3>2, <4>3 DEF ApplicationSent, Page
        <5> QED BY <1>1, <3>2, <5>1 DEF WindowsSoFar, PageSoFar
      <4> QED BY <3>1, <4>1, <4>2, <4>3
    <3>4. WindowsSoFar'
      BY <1>1, <3>2, <3>3, OnPage
    <3> QED BY <1>1, <3>2, <3>3, <3>4 DEF StillOn, ListInv
  <2> QED BY <2>1, <2>2
<1>4. PostsSoFar'
  <2>1. CASE posts' = [posts EXCEPT ![n] = NoPost]
    <3>1. posts'[n] = NoPost /\ \A k \in Posts : k # n => posts'[k] = posts[k]
      BY <1>1, <2>1 DEF ListInv
    <3> QED BY <1>1, <1>3, <3>1, PostSoFarStep
  <2>2. CASE posts' # [posts EXCEPT ![n] = NoPost]
    <3>1. ApplicationSent(n)
      BY <2>2 DEF HandlePost, BidTaken, ReplySent, ThreadDeleted, NothingToShow, Done
    <3> PICK q : q = [posts[n] EXCEPT !.op = "accept", !.stage = "sent"]
      OBVIOUS
    <3>2. /\ q.stage = "sent" /\ q.at = posts[n].at /\ q.live = posts[n].live
          /\ posts' = [posts EXCEPT ![n] = q] /\ posts[n].op = "apply"
      BY <1>2, <3>1 DEF ApplicationSent, Is, Placed, Request
    <3>3. q.live => q.at \in Windows /\ window[q.at].on
      BY <1>2, <3>2 DEF PostSoFar, Placed
    <3>4. posts'[n] = q /\ \A k \in Posts : k # n => posts'[k] = posts[k]
      BY <1>1, <3>2 DEF ListInv
    <3>5. PostSoFar(posts[n])'
      BY <1>3, <3>2, <3>3, <3>4 DEF PostSoFar, StillOn
    <3> QED BY <1>1, <1>3, <3>4, <3>5, PostSoFarStep
  <2> QED BY <2>1, <2>2
<1> QED BY <1>3, <1>4

\* The other one writes or deletes.
LEMMA PartnerSoFar ==
    ASSUME ChatSoFar, written' \in Nat, written <= written', PartnerWrites \/ PartnerDeletes
    PROVE  WindowsSoFar' /\ PostsSoFar'
<1>1. /\ ListInv /\ TableSoFar /\ WindowsSoFar /\ PostsSoFar /\ UNCHANGED <<window, posts>>
  BY DEF ChatSoFar, PartnerWrites, PartnerDeletes
<1>2. \E f : f \in FrameTo(written') /\ Push(f)
  <2>1. CASE PartnerWrites
    <3> PICK job \in {FALSE, talk.user = "freelancer"} : Store(Partner, job, FALSE)
      BY <2>1 DEF PartnerWrites
    <3>1. Partner \in {"client", "freelancer"} /\ job \in BOOLEAN /\ talk' = talk
      BY <2>1 DEF Partner, PartnerWrites
    <3>2. thread'[Len(thread')] \in MsgTo(written')
      BY <1>1, <3>1, StoreSoFar
    <3>3. [type |-> "new_message", message |-> thread'[Len(thread')]] \in FrameTo(written')
      BY <3>2 DEF FrameTo
    <3> QED BY <2>1, <3>3 DEF PartnerWrites
  <2>2. CASE PartnerDeletes
    <3>1. [type |-> "thread_deleted"] \in FrameTo(written')
      BY DEF FrameTo
    <3> QED BY <2>2, <3>1 DEF PartnerDeletes
  <2> QED BY <2>1, <2>2
<1>3. WindowsSoFar'
  BY <1>1, <1>2, PushSoFar
<1>4. PostsSoFar'
  BY <1>1, PostsKeep DEF StillOn
<1> QED BY <1>3, <1>4

-----------------------------------------------------------------------------

LEMMA ChatSoFarInit == ChatInit => ChatSoFar
<1> SUFFICES ASSUME ChatInit PROVE ChatSoFar
  OBVIOUS
<1>1. /\ talk.messages \in Nat \ {0} /\ talk.drops \in Nat /\ written = 1 /\ drops = 0
      /\ applied = {} /\ declined = {} /\ thread = <<Message(1, "client", TRUE, FALSE)>>
  BY ChatAssumption DEF ChatInit
<1> PICK m : m = Message(1, "client", TRUE, FALSE)
  OBVIOUS
<1>2. m \in MsgTo(written) /\ thread = <<m>>
  BY <1>1 DEF Message, MsgTo
<1>3. thread \in Seq(MsgTo(written)) /\ Len(thread) = 1
  <2> PICK S : S = MsgTo(written)
    OBVIOUS
  <2>1. m \in S
    BY <1>2
  <2>2. thread \in Seq(Msg) /\ Len(thread) = 1
    BY <1>2, ListInit DEF ListInv, Listing
  <2>3. thread \in [1 .. 1 -> Msg]
    BY <2>2, LenProperties
  <2>4. thread[1] = m
    BY <1>2
  <2>5. ASSUME NEW i \in 1 .. 1 PROVE thread[i] \in S
    <3>1. i = 1
      OBVIOUS
    <3> QED BY <2>1, <2>4, <3>1, Zenon
  <2>6. thread \in [1 .. 1 -> S]
    BY <2>3, <2>5
  <2>7. thread \in Seq(S)
    BY <2>6, SeqDef
  <2> QED BY <2>2, <2>7
<1>4. TableSoFar
  <2>1. written \in 1 .. talk.messages /\ drops \in 0 .. talk.drops
    BY <1>1
  <2>2. \A i \in 1 .. Len(thread) - 1 : thread[i].id < thread[i + 1].id
    BY <1>3
  <2>3. applied \union declined \subseteq {"browser", "server"}
    BY <1>1
  <2> QED BY <1>3, <2>1, <2>2, <2>3 DEF TableSoFar
<1>5. WindowsSoFar
  BY <1>1, EmptySoFar DEF ChatInit, WindowsSoFar
<1>6. PostsSoFar
  BY DEF ChatInit, PostsSoFar
<1> QED BY <1>4, <1>5, <1>6, ListInit DEF ChatSoFar

LEMMA ChatSoFarStep == ChatSoFar /\ [ChatNext]_chatVars => ChatSoFar'
<1> SUFFICES ASSUME ChatSoFar, [ChatNext]_chatVars PROVE ChatSoFar'
  OBVIOUS
<1>1. ListInv /\ TableSoFar /\ ListInv'
  BY ListStep DEF ChatSoFar
<1>2. talk.windows \subseteq Windows /\ talk.posts \subseteq Posts
  BY <1>1, ChatAssumption DEF ListInv
<1>3. CASE ChatNext
  <2>1. TableSoFar' /\ written' \in Nat /\ written <= written'
    BY <1>1, <1>3, TableStep
  <2>2. ASSUME NEW w \in Windows,
               \/ Mount(w) \/ AnswerInbox(w) \/ ShowInbox(w) \/ LoadRest(w) \/ SocketOpens(w)
               \/ Disconnect(w) \/ OnMessage(w) \/ SelectThread(w) \/ Back(w)
        PROVE  WindowsSoFar' /\ PostsSoFar'
    BY <2>1, <2>2, PageSoFarStep, PostsKeep DEF ChatSoFar
  <2>3. ASSUME NEW w \in Windows, Unmount(w) PROVE WindowsSoFar' /\ PostsSoFar'
    BY <2>3, UnmountSoFar
  <2>4. ASSUME NEW w \in Windows, NEW n \in Posts,
               SendReply(n, w) \/ AcceptJob(n, w) \/ DismissJob(n, w) \/ DeleteThread(n, w)
        PROVE  WindowsSoFar' /\ PostsSoFar'
    BY <2>4, ClickSoFar
  <2>5. ASSUME NEW n \in Posts, FindJobs(n) PROVE WindowsSoFar' /\ PostsSoFar'
    <3>1. UNCHANGED <<window, wire, written>> /\ ListInv /\ WindowsSoFar /\ PostsSoFar /\ written \in Nat
      BY <2>5 DEF FindJobs, Post, ChatSoFar, ListInv
    <3> PICK q : q = [op |-> "bid", at |-> "board", job |-> TRUE, stage |-> "sent",
                      live |-> TRUE, id |-> 0]
      OBVIOUS
    <3>2. posts' = [posts EXCEPT ![n] = q] /\ q.op = "bid"
      BY <2>5 DEF FindJobs, Post
    <3>3. posts'[n] = q /\ \A k \in Posts : k # n => posts'[k] = posts[k]
      BY <3>1, <3>2 DEF ListInv
    <3>4. q.stage = "sent" /\ PostSoFar(posts[n])'
      BY <3>2, <3>3 DEF PostSoFar
    <3>5. StillOn
      BY <3>1 DEF StillOn
    <3> QED BY <3>1, <3>3, <3>4, <3>5, SamePages, PostSoFarStep
  <2>6. ASSUME NEW n \in Posts,
               \/ StoreMessage(n) \/ Broadcast(n) \/ CheckProposal(n) \/ CreateProposal(n)
               \/ DismissInvitation(n) \/ RemoveThread(n) \/ Fails(n)
        PROVE  WindowsSoFar' /\ PostsSoFar'
    BY <2>1, <2>6, EndpointSoFar
  <2>7. ASSUME NEW n \in Posts, HandlePost(n) PROVE WindowsSoFar' /\ PostsSoFar'
    BY <2>7, HandleSoFar
  <2>8. ASSUME PartnerWrites \/ PartnerDeletes PROVE WindowsSoFar' /\ PostsSoFar'
    BY <2>1, <2>8, PartnerSoFar
  <2>9. WindowsSoFar' /\ PostsSoFar'
    BY <1>2, <1>3, <2>2, <2>3, <2>4, <2>5, <2>6, <2>7, <2>8 DEF ChatNext
  <2> QED BY <1>1, <2>1, <2>9 DEF ChatSoFar
<1>4. CASE UNCHANGED chatVars
  <2>1. /\ UNCHANGED <<window, wire, posts, written, talk, thread, drops, applied, declined>>
        /\ written \in Nat /\ WindowsSoFar /\ PostsSoFar /\ StillOn
    BY <1>1, <1>4 DEF chatVars, ChatSoFar, ListInv, StillOn
  <2>2. TableSoFar'
    BY <1>1, <2>1, TableKeeps DEF TableSoFar
  <2> QED BY <1>1, <2>1, <2>2, SamePages, PostsKeep DEF ChatSoFar
<1> QED BY <1>3, <1>4

\* What ChatSoFar says is as ChatTypeOK has it.
LEMMA ChatTypes == ChatSoFar => ChatTypeOK
<1> SUFFICES ASSUME ListInv, TableSoFar, WindowsSoFar PROVE ChatTypeOK
  BY DEF ChatSoFar
<1>1. AMessage = MsgTo(written)
  BY DEF AMessage, MsgTo
<1>2. ASSUME NEW w \in Windows
      PROVE  /\ {window[w].on, window[w].open, window[w].applied, window[w].declined} \subseteq BOOLEAN
             /\ window[w].load \in {"none", "asked", "inbox", "rest", "done"}
             /\ window[w].socket \in {"none", "opening", "open", "deaf"}
             /\ window[w].shown \in Seq(AMessage) /\ window[w].inbox \in Seq(AMessage)
             /\ ~window[w].on => window[w] = Away /\ wire[w] = <<>>
  <2>1. window[w] \in Page
    BY DEF ListInv
  <2> QED BY <1>1, <2>1 DEF Page, WindowsSoFar, PageSoFar
<1>3. ASSUME NEW n \in Posts, posts[n] # NoPost
      PROVE  /\ posts[n].op \in {"reply", "apply", "bid", "accept", "dismiss", "delete"}
             /\ posts[n].stage \in {"sent", "checked", "stored", "ok", "error"}
  BY <1>3 DEF ListInv, Placed, Request, Ops
<1> QED BY <1>1, <1>2, <1>3 DEF ListInv, TableSoFar, ChatTypeOK

(* The table, the pages, the frames and the requests keep to their types,  *)
(* the ids grow along the table, and a page that was left keeps nothing.   *)
THEOREM ChatTypeCorrect == ChatSpec => []ChatTypeOK
  BY ChatSoFarInit, ChatSoFarStep, ChatTypes, PTL DEF ChatSpec

-----------------------------------------------------------------------------
(* The chat about a dispute.  What is stored, on its way and shown was     *)
(* written by then; an administrator is told of messages only; and a       *)
(* request whose panel is still up is of the panel that it was sent from.  *)

NoteTo(n) == [id : 1 .. n, by : People]
HeardTo(n) == [type : {"dispute_message"}, message : NoteTo(n)]
FramesTo(n) == IF Official THEN Seq(HeardTo(n))
               ELSE Seq(HeardTo(n) \union [type : {"dispute_chat_deleted"}])
DeskTo(n) == [open : BOOLEAN, up : BOOLEAN, load : {"none", "asked", "read", "done"},
              read : Seq(NoteTo(n)), notes : Seq(NoteTo(n)), initiated : BOOLEAN,
              socket : {"none", "opening", "open"}]
Sending == [op : {"initiate", "send", "delete"}, stage : {"sent", "ok", "error"}, live : BOOLEAN]

\* How the panel, its socket and its frames go together.
DeskOrder(d, f) == /\ f # <<>> => d.socket = "open"
                   /\ d.up => d.open
                   /\ ~d.up => d.socket = "none" /\ (Official => d.load = "none")
SendOrder(q, d) == /\ q.op = "initiate" => Official
                   /\ Official /\ q.live => d.up

HearingInv ==
    /\ whose \in People /\ noted \in 0 .. MaxNotes /\ losses \in 0 .. MaxLosses
    /\ hearing \in Seq(NoteTo(noted))
    /\ desk \in DeskTo(noted) /\ frames \in FramesTo(noted) /\ DeskOrder(desk, frames)
    /\ sends \in {NoSend} \union Sending /\ (sends # NoSend => SendOrder(sends, desk))

LEMMA NotesGrow ==
    ASSUME NEW m \in Nat, NEW n \in Nat, m <= n
    PROVE  /\ Seq(NoteTo(m)) \subseteq Seq(NoteTo(n)) /\ DeskTo(m) \subseteq DeskTo(n)
           /\ FramesTo(m) \subseteq FramesTo(n)
<1>1. NoteTo(m) \subseteq NoteTo(n)
  BY DEF NoteTo
<1>2. HeardTo(m) \subseteq HeardTo(n)
  BY <1>1 DEF HeardTo
<1>3. Seq(NoteTo(m)) \subseteq Seq(NoteTo(n))
  BY <1>1
<1>4. FramesTo(m) \subseteq FramesTo(n)
  <2>1. Seq(HeardTo(m)) \subseteq Seq(HeardTo(n))
    BY <1>2
  <2> PICK A, B : /\ A = HeardTo(m) \union [type : {"dispute_chat_deleted"}]
                  /\ B = HeardTo(n) \union [type : {"dispute_chat_deleted"}]
    OBVIOUS
  <2>2. A \subseteq B
    BY <1>2
  <2>3. Seq(A) \subseteq Seq(B)
    BY <2>2
  <2> QED BY <2>1, <2>3 DEF FramesTo
<1>5. DeskTo(m) \subseteq DeskTo(n)
  BY <1>3 DEF DeskTo
<1> QED BY <1>3, <1>4, <1>5

LEMMA SendingFields ==
    ASSUME NEW q \in Sending
    PROVE  /\ q # NoSend
           /\ \A s \in {"sent", "ok", "error"} :
                 /\ [q EXCEPT !.stage = s] \in Sending
                 /\ [q EXCEPT !.stage = s].op = q.op /\ [q EXCEPT !.stage = s].live = q.live
           /\ [q EXCEPT !.live = FALSE] \in Sending
           /\ [q EXCEPT !.live = FALSE].op = q.op /\ [q EXCEPT !.live = FALSE].live = FALSE
<1>1. q # NoSend
  <2>1. q.op # "none" /\ NoSend.op = "none"
    BY DEF Sending, NoSend
  <2> QED BY <2>1
<1>2. \A s \in {"sent", "ok", "error"} :
         /\ [q EXCEPT !.stage = s] \in Sending
         /\ [q EXCEPT !.stage = s].op = q.op /\ [q EXCEPT !.stage = s].live = q.live
  BY DEF Sending
<1>3. /\ [q EXCEPT !.live = FALSE] \in Sending
      /\ [q EXCEPT !.live = FALSE].op = q.op /\ [q EXCEPT !.live = FALSE].live = FALSE
  BY DEF Sending
<1> QED BY <1>1, <1>2, <1>3

LEMMA NoNotes ==
    ASSUME NEW n \in Nat
    PROVE  /\ <<>> \in Seq(NoteTo(n)) /\ <<>> \in FramesTo(n)
           /\ Closed \in DeskTo(n) /\ ListGone \in DeskTo(n)
           /\ DeskOrder(Closed, <<>>) /\ DeskOrder(ListGone, <<>>)
<1>1. <<>> \in Seq(NoteTo(n)) /\ <<>> \in FramesTo(n)
  BY EmptySeq DEF FramesTo
<1> QED BY <1>1 DEF Closed, ListGone, DeskTo, DeskOrder

LEMMA LosesOne ==
    ASSUME HearingInv, Lost PROVE losses' \in 0 .. MaxLosses
  BY DisputeChatAssumption DEF HearingInv, Lost

\* The panel changes; what is stored does not.
LEMMA DeskStep ==
    ASSUME HearingInv, UNCHANGED notesVars, losses' = losses \/ Lost,
           desk' \in DeskTo(noted), frames' \in FramesTo(noted), DeskOrder(desk', frames'),
           sends' \in {NoSend} \union Sending, sends' # NoSend => SendOrder(sends', desk')
    PROVE  HearingInv'
<1>1. losses' \in 0 .. MaxLosses
  BY LosesOne DEF HearingInv
<1> QED BY <1>1 DEF HearingInv, notesVars, FramesTo, Official, DeskOrder, SendOrder, NoteTo, DeskTo, HeardTo

LEMMA OpenDeskInv ==
    ASSUME HearingInv, OpenChat \/ Polled PROVE HearingInv'
<1>1. /\ noted \in Nat /\ desk \in DeskTo(noted) /\ Closed \in DeskTo(noted)
      /\ frames \in FramesTo(noted) /\ DeskOrder(desk, frames)
      /\ sends \in {NoSend} \union Sending /\ (sends # NoSend => SendOrder(sends, desk))
  BY NoNotes DEF HearingInv
<1>2. /\ UNCHANGED <<notesVars, frames, sends, losses>> /\ ~desk.up
      /\ desk' = Opened(Closed) \/ desk' = Opened(desk)
  BY <1>1 DEF OpenChat, Polled, DeskTo, DeskOrder
<1>3. frames = <<>>
  BY <1>1, <1>2 DEF DeskOrder
<1>4. desk' \in DeskTo(noted) /\ desk'.up /\ desk'.open
  BY <1>1, <1>2 DEF Opened, DeskTo
<1>5. sends' # NoSend => SendOrder(sends', desk')
  BY <1>1, <1>2, <1>4 DEF SendOrder
<1>6. DeskOrder(desk', frames')
  BY <1>2, <1>3, <1>4 DEF DeskOrder
<1> QED BY <1>1, <1>2, <1>4, <1>5, <1>6, DeskStep

\* A panel goes down: the handlers of an administrator's are of none.
LEMMA GoneInv ==
    ASSUME HearingInv, NEW d, d \in DeskTo(noted), DeskOrder(d, <<>>), ~d.up, Gone(d),
           UNCHANGED <<notesVars, losses>>
    PROVE  HearingInv'
<1>1. noted \in Nat /\ <<>> \in FramesTo(noted)
  BY NoNotes DEF HearingInv
<1>2. sends' \in {NoSend} \union Sending /\ (sends' # NoSend => SendOrder(sends', d))
  <2>1. CASE Official /\ sends # NoSend
    BY <2>1, SendingFields DEF Gone, HearingInv, SendOrder
  <2>2. CASE ~(Official /\ sends # NoSend)
    BY <2>2 DEF Gone, HearingInv, SendOrder
  <2> QED BY <2>1, <2>2
<1>3. desk' = d /\ frames' = <<>>
  BY DEF Gone
<1> QED BY <1>1, <1>2, <1>3, DeskStep

LEMMA HiddenDesk ==
    ASSUME HearingInv, ~Official
    PROVE  /\ Hidden \in DeskTo(noted) /\ DeskOrder(Hidden, <<>>) /\ ~Hidden.up
           /\ [Hidden EXCEPT !.notes = <<>>, !.initiated = FALSE] \in DeskTo(noted)
           /\ DeskOrder([Hidden EXCEPT !.notes = <<>>, !.initiated = FALSE], <<>>)
           /\ ~[Hidden EXCEPT !.notes = <<>>, !.initiated = FALSE].up
<1>1. desk \in DeskTo(noted) /\ <<>> \in Seq(NoteTo(noted))
  BY NoNotes DEF HearingInv
<1>2. /\ Hidden \in DeskTo(noted) /\ ~Hidden.up /\ Hidden.socket = "none"
  BY <1>1 DEF Hidden, DeskTo
<1> PICK d : d = [Hidden EXCEPT !.notes = <<>>, !.initiated = FALSE]
  OBVIOUS
<1>3. d \in DeskTo(noted) /\ ~d.up /\ d.socket = "none"
  BY <1>1, <1>2 DEF DeskTo
<1> QED BY <1>2, <1>3 DEF DeskOrder

LEMMA DownInv ==
    ASSUME HearingInv, CloseChat \/ CloseContract \/ Poll PROVE HearingInv'
<1>1. /\ noted \in Nat /\ Closed \in DeskTo(noted) /\ ListGone \in DeskTo(noted)
      /\ DeskOrder(Closed, <<>>) /\ DeskOrder(ListGone, <<>>) /\ ~Closed.up /\ ~ListGone.up
  BY NoNotes DEF HearingInv, Closed, ListGone
<1>2. PICK d : /\ Gone(d) /\ UNCHANGED <<notesVars, losses>>
               /\ d \in {Closed, ListGone} \/ (d = Hidden /\ ~Official)
  BY DEF CloseChat, CloseContract, Poll
<1>3. d \in DeskTo(noted) /\ DeskOrder(d, <<>>) /\ ~d.up
  BY <1>1, <1>2, HiddenDesk
<1> QED BY <1>2, <1>3, GoneInv

\* Reading and the socket: the panel stays up, or is a party's.
LEMMA ReadingInv ==
    ASSUME HearingInv, ReadNotes \/ ShowNotes \/ Connect \/ Cut PROVE HearingInv'
<1>1. /\ noted \in Nat /\ desk \in DeskTo(noted) /\ <<>> \in Seq(NoteTo(noted))
      /\ hearing \in Seq(NoteTo(noted)) /\ <<>> \in FramesTo(noted)
      /\ frames \in FramesTo(noted) /\ DeskOrder(desk, frames)
      /\ sends \in {NoSend} \union Sending /\ (sends # NoSend => SendOrder(sends, desk))
  BY NoNotes DEF HearingInv
<1>2. UNCHANGED notesVars /\ (losses' = losses \/ Lost) /\ sends' = sends
  BY DEF ReadNotes, ShowNotes, Connect, Cut
<1>3. /\ desk' \in DeskTo(noted) /\ desk'.up = desk.up /\ frames' \in FramesTo(noted)
      /\ DeskOrder(desk', frames')
  <2>1. CASE ReadNotes
    <3>1. \/ desk' = [desk EXCEPT !.load = "read", !.read = hearing]
          \/ desk' = [desk EXCEPT !.load = "done", !.initiated = @ /\ Official]
      BY <2>1 DEF ReadNotes
    <3>2. /\ desk' \in DeskTo(noted) /\ desk'.up = desk.up /\ desk'.open = desk.open
          /\ desk'.socket = desk.socket
      BY <1>1, <3>1 DEF DeskTo
    <3>3. desk.load = "asked" /\ frames' = frames
      BY <2>1 DEF ReadNotes
    <3> QED BY <1>1, <3>2, <3>3 DEF DeskOrder
  <2>2. CASE ShowNotes
    <3> PICK b \in BOOLEAN : b = (desk.read # <<>>)
      OBVIOUS
    <3>1. desk' = [desk EXCEPT !.load = "done", !.notes = desk.read, !.read = <<>>, !.initiated = b]
      BY <2>2 DEF ShowNotes
    <3>2. /\ desk' \in DeskTo(noted) /\ desk'.up = desk.up /\ desk'.open = desk.open
          /\ desk'.socket = desk.socket
      BY <1>1, <3>1 DEF DeskTo
    <3>3. desk.load = "read" /\ frames' = frames
      BY <2>2 DEF ShowNotes
    <3> QED BY <1>1, <3>2, <3>3 DEF DeskOrder
  <2>3. CASE Connect
    <3>1. desk' = [desk EXCEPT !.socket = "open"] /\ desk.socket = "opening" /\ frames' = frames
      BY <2>3 DEF Connect
    <3>2. /\ desk' \in DeskTo(noted) /\ desk'.up = desk.up /\ desk'.open = desk.open
          /\ desk'.socket = "open" /\ desk'.load = desk.load
      BY <1>1, <3>1 DEF DeskTo
    <3> QED BY <1>1, <3>1, <3>2 DEF DeskOrder
  <2>4. CASE Cut
    <3>1. desk' = [desk EXCEPT !.socket = "none"] /\ frames' = <<>>
      BY <2>4 DEF Cut
    <3>2. /\ desk' \in DeskTo(noted) /\ desk'.up = desk.up /\ desk'.open = desk.open
          /\ desk'.socket = "none" /\ desk'.load = desk.load
      BY <1>1, <3>1 DEF DeskTo
    <3> QED BY <1>1, <3>1, <3>2 DEF DeskOrder
  <2> QED BY <2>1, <2>2, <2>3, <2>4
<1>4. sends' # NoSend => SendOrder(sends', desk')
  BY <1>1, <1>2, <1>3 DEF SendOrder
<1> QED BY <1>1, <1>2, <1>3, <1>4, DeskStep

\* A frame that is heard is a message's, unless the panel is a party's.
LEMMA FramesHeard ==
    ASSUME HearingInv, frames # <<>>
    PROVE  /\ Tail(frames) \in FramesTo(noted)
           /\ Official => Head(frames) \in HeardTo(noted)
           /\ Head(frames) \in HeardTo(noted) \union [type : {"dispute_chat_deleted"}]
<1> PICK S : S = IF Official THEN HeardTo(noted)
                 ELSE HeardTo(noted) \union [type : {"dispute_chat_deleted"}]
  OBVIOUS
<1>1. FramesTo(noted) = Seq(S)
  BY DEF FramesTo
<1>2. frames \in Seq(S)
  BY <1>1 DEF HearingInv
<1>3. Head(frames) \in S /\ Tail(frames) \in Seq(S)
  BY <1>2, HeadTailProperties
<1> QED BY <1>1, <1>3

LEMMA WithNote ==
    ASSUME HearingInv, NEW m \in NoteTo(noted) PROVE With(m) \in Seq(NoteTo(noted))
<1>1. desk.notes \in Seq(NoteTo(noted))
  BY DEF HearingInv, DeskTo
<1>2. Append(desk.notes, m) \in Seq(NoteTo(noted))
  BY <1>1, AppendProperties
<1> QED BY <1>1, <1>2 DEF With

LEMMA HearInv ==
    ASSUME HearingInv, Hear PROVE HearingInv'
<1>1. /\ noted \in Nat /\ desk \in DeskTo(noted) /\ frames \in FramesTo(noted)
      /\ <<>> \in FramesTo(noted) /\ DeskOrder(desk, frames)
      /\ sends \in {NoSend} \union Sending /\ (sends # NoSend => SendOrder(sends, desk))
  BY NoNotes DEF HearingInv
<1>2. frames # <<>> /\ UNCHANGED <<notesVars, sends, losses>>
  BY DEF Hear
<1>3. desk.socket = "open" /\ desk.up /\ desk.open
  BY <1>1, <1>2 DEF DeskOrder, DeskTo
<1>4. Tail(frames) \in FramesTo(noted)
  BY <1>2, FramesHeard
<1> PICK frame : frame = Head(frames)
  OBVIOUS
<1>5. CASE Official
  <2>1. frame.message \in NoteTo(noted)
    BY <1>2, <1>5, FramesHeard DEF HeardTo
  <2>2. With(frame.message) \in Seq(NoteTo(noted))
    BY <2>1, WithNote
  <2>3. desk' = [desk EXCEPT !.notes = With(frame.message)] /\ frames' = Tail(frames)
    BY <1>5 DEF Hear, StaffHears
  <2>4. /\ desk' \in DeskTo(noted) /\ desk'.up = desk.up /\ desk'.open = desk.open
        /\ desk'.socket = desk.socket
    BY <1>1, <2>2, <2>3 DEF DeskTo
  <2>5. DeskOrder(desk', frames') /\ frames' \in FramesTo(noted)
    BY <1>3, <1>4, <2>3, <2>4 DEF DeskOrder
  <2>6. sends' # NoSend => SendOrder(sends', desk')
    BY <1>1, <1>2, <2>4 DEF SendOrder
  <2> QED BY <1>1, <1>2, <2>4, <2>5, <2>6, DeskStep
<1>6. CASE ~Official /\ frame.type = "dispute_message"
  <2>1. frame \in HeardTo(noted) \union [type : {"dispute_chat_deleted"}]
    BY <1>2, FramesHeard
  <2>2. frame.message \in NoteTo(noted)
    BY <1>6, <2>1 DEF HeardTo
  <2>3. With(frame.message) \in Seq(NoteTo(noted))
    BY <2>2, WithNote
  <2>4. /\ desk' = [desk EXCEPT !.notes = With(frame.message), !.initiated = TRUE]
        /\ frames' = Tail(frames)
    BY <1>6 DEF Hear, PartyHears
  <2>5. /\ desk' \in DeskTo(noted) /\ desk'.up = desk.up /\ desk'.open = desk.open
        /\ desk'.socket = desk.socket
    BY <1>1, <2>3, <2>4 DEF DeskTo
  <2>6. DeskOrder(desk', frames') /\ frames' \in FramesTo(noted)
    BY <1>3, <1>4, <2>4, <2>5 DEF DeskOrder
  <2>7. sends' # NoSend => SendOrder(sends', desk')
    BY <1>1, <1>2, <2>5 DEF SendOrder
  <2> QED BY <1>1, <1>2, <2>5, <2>6, <2>7, DeskStep
<1>7. CASE ~Official /\ frame.type # "dispute_message"
  <2>1. /\ desk' = [Hidden EXCEPT !.notes = <<>>, !.initiated = FALSE]
        /\ frames' = <<>>
    BY <1>7 DEF Hear, PartyHears
  <2>2. desk' \in DeskTo(noted) /\ DeskOrder(desk', frames')
    BY <1>7, <2>1, HiddenDesk
  <2>3. sends' # NoSend => SendOrder(sends', desk')
    BY <1>1, <1>2, <1>7 DEF SendOrder
  <2> QED BY <1>1, <1>2, <2>1, <2>2, <2>3, DeskStep
<1> QED BY <1>5, <1>6, <1>7

LEMMA SubmitInv ==
    ASSUME HearingInv, HandleInitiate \/ HandleSend \/ HandleDeleteChat PROVE HearingInv'
<1>1. PICK op \in {"initiate", "send", "delete"} : Submits(op) /\ (op = "initiate" => Official)
  BY DEF HandleInitiate, HandleSend, HandleDeleteChat, StartOffered
<1>2. desk.up
  BY DEF HandleInitiate, HandleSend, HandleDeleteChat, StartOffered, WriteOffered, ClearOffered
<1>3. UNCHANGED <<notesVars, desk, frames, losses>>
  BY <1>1 DEF Submits
<1>4. sends' \in Sending /\ SendOrder(sends', desk')
  BY <1>1, <1>2, <1>3 DEF Submits, Sending, SendOrder
<1> QED BY <1>3, <1>4, DeskStep DEF HearingInv

\* What is written is told, to an administrator as a message.
LEMMA WriteStep ==
    ASSUME HearingInv, NEW p \in People, NEW op, Write(p, op), UNCHANGED whose
    PROVE  /\ noted' \in 0 .. MaxNotes /\ noted <= noted' /\ hearing' \in Seq(NoteTo(noted'))
           /\ frames' \in FramesTo(noted')
           /\ frames' # <<>> => frames # <<>> \/ desk.socket = "open"
<1> PICK m : m = [id |-> noted + 1, by |-> p]
  OBVIOUS
<1>1. /\ noted \in Nat /\ noted < MaxNotes /\ noted' = noted + 1
      /\ hearing' = Append(hearing, m)
      /\ Tell(Told(p, op), [type |-> "dispute_message", message |-> m])
  BY DEF Write, HearingInv
<1>2. m \in NoteTo(noted')
  BY <1>1 DEF NoteTo
<1>3. hearing \in Seq(NoteTo(noted')) /\ frames \in FramesTo(noted')
  BY <1>1, NotesGrow DEF HearingInv
<1>4. hearing' \in Seq(NoteTo(noted'))
  BY <1>1, <1>2, <1>3, AppendProperties
<1>5. [type |-> "dispute_message", message |-> m] \in HeardTo(noted')
  BY <1>2 DEF HeardTo
<1> PICK frame : frame = [type |-> "dispute_message", message |-> m]
  OBVIOUS
<1> PICK S : S = IF Official THEN HeardTo(noted')
                 ELSE HeardTo(noted') \union [type : {"dispute_chat_deleted"}]
  OBVIOUS
<1>6. FramesTo(noted') = Seq(S) /\ frame \in S
  BY <1>5 DEF FramesTo
<1>7. Append(frames, frame) \in FramesTo(noted')
  BY <1>3, <1>6, AppendProperties
<1>8. frames' = frames \/ (desk.socket = "open" /\ frames' = Append(frames, frame))
  BY <1>1 DEF Tell
<1>9. noted' \in 0 .. MaxNotes /\ noted <= noted'
  BY <1>1, DisputeChatAssumption
<1> QED BY <1>3, <1>4, <1>7, <1>8, <1>9

\* A deletion is told to parties only.
LEMMA ClearStep ==
    ASSUME HearingInv, Clear, UNCHANGED whose
    PROVE  /\ noted' \in 0 .. MaxNotes /\ noted <= noted' /\ hearing' \in Seq(NoteTo(noted'))
           /\ frames' \in FramesTo(noted')
           /\ frames' # <<>> => frames # <<>> \/ desk.socket = "open"
<1>1. noted \in 0 .. MaxNotes /\ noted' = noted /\ hearing' = <<>>
  BY DEF Clear, HearingInv
<1>2. hearing' \in Seq(NoteTo(noted'))
  BY <1>1, EmptySeq
<1> PICK frame : frame = [type |-> "dispute_chat_deleted"]
  OBVIOUS
<1>3. frames' = frames \/ (whose \in Parties /\ desk.socket = "open" /\ frames' = Append(frames, frame))
  BY DEF Clear, Tell
<1>4. frames' \in FramesTo(noted)
  <2>1. CASE frames' = frames
    BY <2>1 DEF HearingInv
  <2>2. CASE whose \in Parties /\ frames' = Append(frames, frame)
    <3> PICK S : S = HeardTo(noted) \union [type : {"dispute_chat_deleted"}]
      OBVIOUS
    <3>1. ~Official
      BY <2>2, DisputeChatAssumption DEF Official
    <3>2. FramesTo(noted) = Seq(S) /\ frame \in S
      BY <3>1 DEF FramesTo
    <3>3. frames \in Seq(S)
      BY <3>2 DEF HearingInv
    <3> QED BY <2>2, <3>2, <3>3, AppendProperties
  <2> QED BY <1>3, <2>1, <2>2
<1> QED BY <1>1, <1>2, <1>3, <1>4

LEMMA PerformInv ==
    ASSUME HearingInv, NEW p \in People, NEW op, Perform(p, op), UNCHANGED <<whose, desk, losses>>,
           sends' \in {NoSend} \union Sending, sends' # NoSend => SendOrder(sends', desk)
    PROVE  HearingInv'
<1>1. /\ noted' \in 0 .. MaxNotes /\ noted <= noted' /\ hearing' \in Seq(NoteTo(noted'))
      /\ frames' \in FramesTo(noted')
      /\ frames' # <<>> => frames # <<>> \/ desk.socket = "open"
  <2>1. Write(p, op) \/ Clear
    BY DEF Perform
  <2> QED BY <2>1, WriteStep, ClearStep
<1>2. desk' \in DeskTo(noted')
  <2>1. noted \in Nat /\ noted' \in Nat /\ desk \in DeskTo(noted)
    BY <1>1 DEF HearingInv
  <2> QED BY <1>1, <2>1, NotesGrow
<1>3. DeskOrder(desk', frames')
  BY <1>1 DEF DeskOrder, HearingInv
<1>4. (sends' # NoSend => SendOrder(sends', desk)) /\ (Official' <=> Official) /\ desk' = desk
  BY DEF Official
<1>5. whose' \in People /\ losses' \in 0 .. MaxLosses
  BY DEF HearingInv
<1> QED BY <1>1, <1>2, <1>3, <1>4, <1>5
        DEF HearingInv, FramesTo, Official, DeskOrder, SendOrder, NoteTo, DeskTo, HeardTo

LEMMA EndpointInv ==
    ASSUME HearingInv, ServeSend \/ OthersWrite \/ SendLost PROVE HearingInv'
<1>1. sends \in {NoSend} \union Sending /\ (sends # NoSend => SendOrder(sends, desk))
  BY DEF HearingInv
<1>2. ASSUME sends # NoSend, NEW s \in {"ok", "error"}, sends' = [sends EXCEPT !.stage = s]
      PROVE  sends' \in Sending /\ SendOrder(sends', desk)
  <2>1. sends \in Sending /\ SendOrder(sends, desk)
    BY <1>1, <1>2
  <2>2. sends' \in Sending /\ sends'.op = sends.op /\ sends'.live = sends.live
    BY <1>2, <2>1, SendingFields
  <2> QED BY <2>1, <2>2 DEF SendOrder
<1>3. CASE ServeSend
  <2>1. UNCHANGED <<whose, desk, losses>> /\ sends # NoSend
    BY <1>3 DEF ServeSend
  <2>2. CASE Perform(whose, sends.op) /\ sends' = [sends EXCEPT !.stage = "ok"]
    BY <1>2, <2>1, <2>2, PerformInv DEF HearingInv
  <2>3. CASE sends' = [sends EXCEPT !.stage = "error"] /\ UNCHANGED <<hearing, noted, frames>>
    BY <1>2, <2>1, <2>3, DeskStep DEF HearingInv, notesVars
  <2> QED BY <1>3, <2>2, <2>3 DEF ServeSend
<1>4. CASE OthersWrite
  <2>1. PICK p \in People, op \in {"initiate", "send", "delete"} : Perform(p, op)
    BY <1>4 DEF OthersWrite
  <2>2. UNCHANGED <<whose, desk, losses>> /\ sends' = sends
    BY <1>4 DEF OthersWrite
  <2> QED BY <1>1, <2>1, <2>2, PerformInv
<1>5. CASE SendLost
  <2>1. /\ sends # NoSend /\ Lost /\ UNCHANGED <<notesVars, desk, frames>>
        /\ sends' = [sends EXCEPT !.stage = "error"]
    BY <1>5 DEF SendLost
  <2> QED BY <1>2, <2>1, DeskStep DEF HearingInv
<1> QED BY <1>3, <1>4, <1>5

LEMMA ReplyInv ==
    ASSUME HearingInv, HandleReply PROVE HearingInv'
<1>1. /\ noted \in Nat /\ desk \in DeskTo(noted) /\ frames \in FramesTo(noted)
      /\ <<>> \in FramesTo(noted) /\ <<>> \in Seq(NoteTo(noted)) /\ DeskOrder(desk, frames)
      /\ Closed \in DeskTo(noted) /\ DeskOrder(Closed, <<>>)
      /\ (sends # NoSend => SendOrder(sends, desk))
  BY NoNotes DEF HearingInv
<1>2. sends # NoSend /\ sends' = NoSend /\ UNCHANGED <<notesVars, losses>>
  BY DEF HandleReply
<1>3. desk' \in DeskTo(noted) /\ frames' \in FramesTo(noted) /\ DeskOrder(desk', frames')
  <2>1. CASE sends.op = "initiate" /\ Initiated
    <3>1. desk.up
      BY <1>1, <1>2, <2>1 DEF Initiated, SendOrder
    <3>2. /\ desk' = [desk EXCEPT !.initiated = TRUE, !.load = "asked", !.read = <<>>]
          /\ frames' = frames
      BY <2>1 DEF Initiated
    <3>3. /\ desk' \in DeskTo(noted) /\ desk'.up = desk.up /\ desk'.open = desk.open
          /\ desk'.socket = desk.socket
      BY <1>1, <3>2 DEF DeskTo
    <3> QED BY <1>1, <3>1, <3>2, <3>3 DEF DeskOrder
  <2>2. CASE Deleted
    BY <1>1, <2>2 DEF Deleted
  <2>3. CASE UNCHANGED <<desk, frames>>
    BY <1>1, <2>3
  <2> QED BY <2>1, <2>2, <2>3 DEF HandleReply
<1> QED BY <1>2, <1>3, DeskStep DEF HearingInv

LEMMA HearingStart ==
    ASSUME DisputeChatInit PROVE HearingInv
<1>1. 0 \in Nat /\ noted = 0 /\ Closed \in DeskTo(0) /\ <<>> \in FramesTo(0)
      /\ <<>> \in Seq(NoteTo(0)) /\ DeskOrder(Closed, <<>>)
  BY NoNotes DEF DisputeChatInit
<1> QED BY <1>1, DisputeChatAssumption DEF DisputeChatInit, HearingInv

LEMMA HearingStep ==
    ASSUME HearingInv, [DisputeChatNext]_disputeChatVars PROVE HearingInv'
<1>1. CASE DisputeChatNext
  BY <1>1, OpenDeskInv, DownInv, ReadingInv, HearInv, SubmitInv, EndpointInv, ReplyInv DEF DisputeChatNext
<1>2. CASE UNCHANGED disputeChatVars
  <2>1. UNCHANGED <<hearing, noted, whose, desk, frames, sends, losses>>
    BY <1>2 DEF disputeChatVars
  <2> QED BY <2>1, DeskStep DEF HearingInv, notesVars
<1> QED BY <1>1, <1>2

LEMMA HearingTypes ==
    ASSUME HearingInv PROVE DisputeChatTypeOK
<1>1. /\ {hearing, desk.read, desk.notes} \subseteq Seq(Note)
      /\ {desk.open, desk.up, desk.initiated} \subseteq BOOLEAN
      /\ desk.load \in {"none", "asked", "read", "done"}
      /\ desk.socket \in {"none", "opening", "open"}
  <2>1. Note = NoteTo(noted)
    BY DEF Note, NoteTo
  <2>2. hearing \in Seq(NoteTo(noted)) /\ desk \in DeskTo(noted)
    BY DEF HearingInv
  <2> QED BY <2>1, <2>2 DEF DeskTo
<1>2. /\ whose \in People /\ noted \in 0 .. MaxNotes /\ losses \in 0 .. MaxLosses
      /\ DeskOrder(desk, frames)
  BY DEF HearingInv
<1>3. sends # NoSend => sends.op \in {"initiate", "send", "delete"} /\ sends.stage \in {"sent", "ok", "error"}
  BY DEF HearingInv, Sending
<1> QED BY <1>1, <1>2, <1>3 DEF DisputeChatTypeOK, DeskOrder

(* Only an open socket brings frames, every message shown was written, and *)
(* an administrator's panel that is down neither reads nor listens, also   *)
(* when a deletion or an opening is answered after the panel was taken     *)
(* down and put up again by a poll.                                        *)
THEOREM DisputeChatTypeCorrect == DisputeChatSpec => []DisputeChatTypeOK
  BY HearingStart, HearingStep, HearingTypes, PTL DEF DisputeChatSpec
===============================================================================

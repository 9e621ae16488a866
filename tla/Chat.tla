-------------------------------- MODULE Chat --------------------------------
(***************************************************************************)
(* The conversation of a client and a freelancer: the messages page        *)
(* (frontend/src/pages/shared/Messages.js and components/messages), the    *)
(* job board where an invitation may be answered instead (pages/freelancer *)
(* /FindJobs.js), and the endpoints and sockets behind them (backend/app/  *)
(* routers/messages.py, proposals.py).  A message reaches a page by three  *)
(* roads: in the answer to the inbox request made when the page is         *)
(* mounted, as a frame on its socket, and, if the page sent it, in the     *)
(* answer to that.  They are not ordered.                                  *)
(*                                                                         *)
(* The pages of one of the two are modelled; the other writes and deletes  *)
(* from elsewhere.  Abstracted: what is written, dates, names, avatars,    *)
(* the job shown beside a message, the search; a third user; the read      *)
(* marks, which a page sets on its own copy and no other page ever shows.  *)
(***************************************************************************)
EXTENDS Naturals, Sequences

CONSTANTS Windows,  \* the messages pages a user may have open
          Posts,    \* names for the requests under way: a bound on their number
          Chats     \* the conversations looked at, and the bounds of each behaviour

ASSUME ChatAssumption ==
    Chats \subseteq [user : {"client", "freelancer"}, \* whose pages are modelled
                    bond : {"none", "active", "disputed", "over"}, \* the contract between the two
                    windows : SUBSET Windows,  \* the user's pages
                    sockets : BOOLEAN,         \* a socket can be opened
                    posts : SUBSET Posts,      \* bound on requests under way
                    messages : Nat \ {0},      \* bound on the messages written: the invitation is one
                    drops : Nat]               \* bound on sockets lost, requests failed, pages left

VARIABLES talk,     \* the conversation and the bounds, for good
          thread,   \* the messages table, oldest first
          written,  \* how many were ever written: their ids are 1 .. written
          applied,  \* where it is noted that the freelancer applied for the job it was
                    \* invited to: localStorage, server
          declined, \* where it is noted that the freelancer dismissed it: localStorage, server
          window,   \* the pages
          wire,     \* the frames under way to each page
          posts,    \* what the pages' handlers wait for
          drops     \* what talk.drops bounds

chatVars == <<talk, thread, written, applied, declined, window, wire, posts, drops>>

Message(id, by, job, accepts) == [id |-> id, by |-> by, job |-> job, accepts |-> accepts]
Away == [on |-> FALSE, load |-> "none", shown |-> <<>>, inbox |-> <<>>, open |-> FALSE,
         socket |-> "none", applied |-> FALSE, declined |-> FALSE]
NoPost == [op |-> "none"]

\* The client has invited the freelancer to a job.
ChatInit ==
    /\ talk \in Chats
    /\ thread = <<Message(1, "client", TRUE, FALSE)>> /\ written = 1
    /\ applied = {} /\ declined = {}
    /\ window = [w \in Windows |-> Away]
    /\ wire = [w \in Windows |-> <<>>]
    /\ posts = [n \in Posts |-> NoPost]
    /\ drops = 0

tableVars == <<talk, thread, written, applied, declined>>
Partner == IF talk.user = "client" THEN "freelancer" ELSE "client"
Dropped == drops < talk.drops /\ drops' = drops + 1

-----------------------------------------------------------------------------
(* A page is mounted: it asks for the inbox and opens its socket, side by  *)
(* side; with ?user= in its address it opens that thread when it is done.  *)

Mount(w) ==
    /\ ~window[w].on
    /\ window' = [window EXCEPT ![w] = [Away EXCEPT !.on = TRUE, !.load = "asked", !.socket = "opening",
                                                      !.declined = "browser" \in declined]]
    /\ UNCHANGED <<tableVars, wire, posts, drops>>

\* The page is left, perhaps for another of the app's: its handlers go on without it.
Unmount(w) ==
    /\ window[w].on /\ Dropped
    /\ window' = [window EXCEPT ![w] = Away]
    /\ wire' = [wire EXCEPT ![w] = <<>>]
    /\ posts' = [n \in Posts |-> IF posts[n] # NoPost /\ posts[n].at = w
                                 THEN [posts[n] EXCEPT !.live = FALSE] ELSE posts[n]]
    /\ UNCHANGED tableVars

AnswerInbox(w) ==
    /\ window[w].load = "asked"
    /\ \/ /\ window' = [window EXCEPT ![w].load = "inbox", ![w].inbox = thread]
          /\ UNCHANGED drops
       \/ /\ Dropped
          /\ window' = [window EXCEPT ![w].load = "rest"]
    /\ UNCHANGED <<tableVars, wire, posts>>

\* The answer replaces the list, frames handled in between included.
ShowInbox(w) ==
    /\ window[w].load = "inbox"
    /\ window' = [window EXCEPT ![w].shown = window[w].inbox, ![w].inbox = <<>>, ![w].load = "rest"]
    /\ UNCHANGED <<tableVars, wire, posts, drops>>

\* A freelancer's page asks for the proposals and the dismissed invitations as well.
LoadRest(w) ==
    /\ window[w].load = "rest"
    /\ \E mine \in {FALSE, talk.user = "freelancer"}, opens \in BOOLEAN :
          window' = [window EXCEPT ![w].load = "done", ![w].open = opens,
                                   ![w].applied = mine /\ "server" \in applied,
                                   ![w].declined = @ \/ (mine /\ "server" \in declined)]
    /\ UNCHANGED <<tableVars, wire, posts, drops>>

-----------------------------------------------------------------------------
(* The socket: the server sends to the sockets a user has open.            *)

SocketOpens(w) == /\ talk.sockets /\ window[w].socket = "opening"
               /\ window' = [window EXCEPT ![w].socket = "open"]
               /\ UNCHANGED <<tableVars, wire, posts, drops>>

\* The page opens another, and gives it no handlers.
Disconnect(w) == /\ window[w].socket \in {"opening", "open"} /\ Dropped
                 /\ window' = [window EXCEPT ![w].socket = "deaf"]
                 /\ wire' = [wire EXCEPT ![w] = <<>>]
                 /\ UNCHANGED <<tableVars, posts>>

Push(frame) ==
    wire' = [w \in Windows |-> IF window[w].socket = "open" THEN Append(wire[w], frame) ELSE wire[w]]

Lists(w, m) == \E i \in DOMAIN window[w].shown : window[w].shown[i].id = m.id
AddBlindly(w, m) == [window EXCEPT ![w].shown = Append(@, m)] \* mutant: the list is not looked at
Add(w, m) == IF Lists(w, m) THEN window ELSE [window EXCEPT ![w].shown = Append(@, m)]

\* The thread is gone: from the list, and closed.
Forget(w) == [window EXCEPT ![w].shown = <<>>, ![w].open = FALSE]

OnMessage(w) ==
    /\ wire[w] # <<>>
    /\ LET frame == Head(wire[w]) IN
          window' = IF frame.type = "new_message" THEN Add(w, frame.message) ELSE Forget(w)
    /\ wire' = [wire EXCEPT ![w] = Tail(@)]
    /\ UNCHANGED <<tableVars, posts, drops>>

-----------------------------------------------------------------------------
(* What a user does at a page.                                             *)

\* The list of threads, and the way back to it.
SelectThread(w) == /\ window[w].load = "done" /\ ~window[w].open /\ window[w].shown # <<>>
                   /\ window' = [window EXCEPT ![w].open = TRUE]
                   /\ UNCHANGED <<tableVars, wire, posts, drops>>
Back(w) == /\ window[w].open
           /\ window' = [window EXCEPT ![w].open = FALSE]
           /\ UNCHANGED <<tableVars, wire, posts, drops>>

Listed(w) == IF window[w].load = "done" /\ window[w].open THEN window[w].shown ELSE <<>>

\* A reply is about the job last mentioned in the thread.
AboutJob(w) == \E i \in DOMAIN window[w].shown : window[w].shown[i].job

Post(n, w, op, job) ==
    /\ posts[n] = NoPost
    /\ posts' = [posts EXCEPT ![n] = [op |-> op, at |-> w, job |-> job, stage |-> "sent",
                                      live |-> TRUE, id |-> 0]]
    /\ UNCHANGED <<talk, thread, written, applied, wire, drops>>

\* The Send button waits for the answer, the Enter key does not.
SendReply(n, w) == /\ window[w].open
                   /\ Post(n, w, "reply", AboutJob(w)) /\ UNCHANGED <<declined, window>>

\* "Accept Invitation" and the cross beside it: there is an invitation, and no sign here
\* that it was answered.
InvitationOffered(w) ==
    /\ talk.user = "freelancer" /\ ~window[w].applied /\ ~window[w].declined
    /\ \E i \in DOMAIN Listed(w) : Listed(w)[i].job /\ Listed(w)[i].by = "client"
    /\ \A i \in DOMAIN Listed(w) : ~Listed(w)[i].accepts

AcceptJob(n, w) == /\ InvitationOffered(w)
                   /\ Post(n, w, "apply", TRUE) /\ UNCHANGED <<declined, window>>
DismissJob(n, w) == /\ InvitationOffered(w)
                    /\ Post(n, w, "dismiss", TRUE)
                    /\ window' = [window EXCEPT ![w].declined = TRUE]
                    /\ declined' = declined \union {"browser"}
DeleteThread(n, w) == /\ window[w].open
                      /\ Post(n, w, "delete", FALSE) /\ UNCHANGED <<declined, window>>

\* The job board, in a tab of its own, lets a freelancer apply who, as far as it knows, has
\* not done so there; its button waits for the answer.
BoardOffered == /\ talk.user = "freelancer" /\ "browser" \notin applied
                /\ \A n \in Posts : posts[n].op # "bid"
FindJobs(n) == BoardOffered /\ Post(n, "board", "bid", TRUE) /\ UNCHANGED <<declined, window>>

-----------------------------------------------------------------------------
(* The endpoints.                                                          *)

Stage(n, stage) == posts' = [posts EXCEPT ![n].stage = stage]
Is(n, op, stage) == posts[n] # NoPost /\ posts[n].op \in op /\ posts[n].stage = stage

Store(by, job, accepts) ==
    /\ written < talk.messages
    /\ written' = written + 1
    /\ thread' = Append(thread, Message(written', by, job, accepts))

\* POST /messages/send commits, then sends the frame to both users' sockets.
StoreMessage(n) ==
    /\ Is(n, {"reply", "accept"}, "sent")
    /\ Store(talk.user, posts[n].job, posts[n].op = "accept")
    /\ posts' = [posts EXCEPT ![n].stage = "stored", ![n].id = written']
    /\ UNCHANGED <<talk, applied, declined, window, wire, drops>>

Sent(n) == Message(posts[n].id, talk.user, posts[n].job, posts[n].op = "accept")

Broadcast(n) ==
    /\ Is(n, {"reply", "accept"}, "stored")
    /\ Push([type |-> "new_message", message |-> Sent(n)])
    /\ Stage(n, "ok")
    /\ UNCHANGED <<tableVars, window, drops>>

\* POST /proposals looks for one of the freelancer's, then inserts one.
CheckProposal(n) == /\ Is(n, {"apply", "bid"}, "sent")
                    /\ Stage(n, IF "server" \in applied THEN "error" ELSE "checked")
                    /\ UNCHANGED <<tableVars, window, wire, drops>>

\* Another may have been inserted in the meantime: (job_id, freelancer_id) is unique.
CreateProposalAgain(n) == \* mutant: the table allows a second
    /\ Is(n, {"apply", "bid"}, "checked")
    /\ applied' = applied \union {"server"} /\ Stage(n, "ok")
    /\ UNCHANGED <<talk, thread, written, declined, window, wire, drops>>
CreateProposal(n) ==
    /\ Is(n, {"apply", "bid"}, "checked")
    /\ applied' = applied \union {"server"}
    /\ Stage(n, IF "server" \in applied THEN "error" ELSE "ok")
    /\ UNCHANGED <<talk, thread, written, declined, window, wire, drops>>

DismissInvitation(n) == /\ Is(n, {"dismiss"}, "sent")
                        /\ declined' = declined \union {"server"} /\ Stage(n, "ok")
                        /\ UNCHANGED <<talk, thread, written, applied, window, wire, drops>>

\* DELETE /messages/thread/{partner}: not while they have work under way.
Deletable == talk.bond \in {"none", "over"}

RemoveThread(n) ==
    /\ Is(n, {"delete"}, "sent")
    /\ IF Deletable THEN thread' = <<>> /\ Stage(n, "ok")
                    ELSE Stage(n, "error") /\ UNCHANGED thread
    /\ UNCHANGED <<talk, written, applied, declined, window, wire, drops>>

\* The other one, on a page of its own: its messages and its deletion reach this user's
\* sockets, a deletion of this user's only the other's.
PartnerWrites ==
    /\ \E job \in {FALSE, talk.user = "freelancer"} : Store(Partner, job, FALSE)
    /\ Push([type |-> "new_message", message |-> thread'[Len(thread')]])
    /\ UNCHANGED <<talk, applied, declined, window, posts, drops>>

PartnerDeletes ==
    /\ Deletable /\ thread # <<>>
    /\ thread' = <<>>
    /\ Push([type |-> "thread_deleted"])
    /\ UNCHANGED <<talk, written, applied, declined, window, posts, drops>>

\* The request or its answer is lost.
Fails(n) == /\ posts[n] # NoPost /\ posts[n].stage \in {"sent", "ok"} /\ Dropped
            /\ Stage(n, "error")
            /\ UNCHANGED <<tableVars, window, wire>>

-----------------------------------------------------------------------------
(* The answers.                                                            *)

Done(n) == posts' = [posts EXCEPT ![n] = NoPost]

\* The reply is added to the list, unless its frame came first.
ReplySent(n) == /\ Is(n, {"reply"}, "ok")
                /\ window' = IF posts[n].live THEN Add(posts[n].at, Sent(n)) ELSE window
                /\ Done(n)

\* The application was taken: now the client is told.
ApplicationSent(n) ==
    /\ Is(n, {"apply"}, "ok")
    /\ window' = IF posts[n].live THEN [window EXCEPT ![posts[n].at].applied = TRUE] ELSE window
    /\ posts' = [posts EXCEPT ![n].op = "accept", ![n].stage = "sent"]

ThreadDeleted(n) == /\ Is(n, {"delete"}, "ok")
                    /\ window' = IF posts[n].live THEN Forget(posts[n].at) ELSE window
                    /\ Done(n)

NothingToShow(n) ==
    /\ \/ Is(n, {"accept", "dismiss"}, "ok")
       \/ Is(n, {"reply", "apply", "bid", "accept", "dismiss", "delete"}, "error")
    /\ Done(n) /\ UNCHANGED window

\* The board remembers; a messages page that is open does not learn of it.
BidTaken(n) == /\ Is(n, {"bid"}, "ok")
               /\ applied' = applied \union {"browser"}
               /\ Done(n) /\ UNCHANGED window

HandlePost(n) ==
    /\ \/ BidTaken(n)
       \/ /\ ReplySent(n) \/ ApplicationSent(n) \/ ThreadDeleted(n) \/ NothingToShow(n)
          /\ UNCHANGED applied
    /\ UNCHANGED <<talk, thread, written, declined, wire, drops>>

ChatNext ==
    \/ \E w \in talk.windows :
          \/ Mount(w) \/ Unmount(w) \/ AnswerInbox(w) \/ ShowInbox(w) \/ LoadRest(w)
          \/ SocketOpens(w) \/ Disconnect(w) \/ OnMessage(w)
          \/ SelectThread(w) \/ Back(w)
          \/ \E n \in talk.posts : SendReply(n, w) \/ AcceptJob(n, w) \/ DismissJob(n, w) \/ DeleteThread(n, w)
    \/ \E n \in talk.posts :
          \/ StoreMessage(n) \/ Broadcast(n) \/ CheckProposal(n) \/ CreateProposal(n)
          \/ DismissInvitation(n) \/ RemoveThread(n) \/ Fails(n) \/ HandlePost(n)
          \/ FindJobs(n)
    \/ PartnerWrites \/ PartnerDeletes

ChatSpec == ChatInit /\ [][ChatNext]_chatVars

-----------------------------------------------------------------------------
(* Type invariant: ids grow along the table, and a page that is not on     *)
(* keeps nothing.                                                          *)
AMessage == [id : 1 .. written, by : {"client", "freelancer"}, job : BOOLEAN, accepts : BOOLEAN]
ChatTypeOK ==
    /\ talk \in Chats /\ written \in 1 .. talk.messages /\ drops \in 0 .. talk.drops
    /\ thread \in Seq(AMessage)
    /\ \A i \in 1 .. Len(thread) - 1 : thread[i].id < thread[i + 1].id
    /\ applied \union declined \subseteq {"browser", "server"}
    /\ \A w \in Windows :
          /\ {window[w].on, window[w].open, window[w].applied, window[w].declined} \subseteq BOOLEAN
          /\ window[w].load \in {"none", "asked", "inbox", "rest", "done"}
          /\ window[w].socket \in {"none", "opening", "open", "deaf"}
          /\ window[w].shown \in Seq(AMessage) /\ window[w].inbox \in Seq(AMessage)
          /\ ~window[w].on => window[w] = Away /\ wire[w] = <<>>
    /\ \A n \in Posts : posts[n] # NoPost =>
          /\ posts[n].op \in {"reply", "apply", "bid", "accept", "dismiss", "delete"}
          /\ posts[n].stage \in {"sent", "checked", "stored", "ok", "error"}

(* Each message is listed once, whichever of the inbox, the frame and the  *)
(* answer to the reply comes first, and however often the socket is lost   *)
(* or a reply is repeated (Messages.js:143, :214).                         *)
ShownOnce ==
    \A w \in Windows : \A i, j \in DOMAIN Listed(w) :
        Listed(w)[i].id = Listed(w)[j].id => i = j

(* The client is told once that the freelancer has accepted, however often *)
(* the button is clicked, in how many windows, and on the job board: of    *)
(* applications that are in the endpoint together, each after the look for *)
(* an earlier one, the table takes one (Messages.js:236, models.py:93).    *)
AcceptedOnce ==
    \A i, j \in DOMAIN thread : thread[i].accepts /\ thread[j].accepts => i = j
=============================================================================

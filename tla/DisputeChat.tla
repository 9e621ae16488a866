----------------------------- MODULE DisputeChat -----------------------------
(***************************************************************************)
(* The chat about one dispute: the administrators' panel (frontend/src/    *)
(* pages/admin/AdminDisputes.js), the one in the details of a contract     *)
(* (pages/client and /freelancer, MyContracts.js), and the endpoints and   *)
(* sockets behind them (backend/app/routers/dispute_messages.py).  An      *)
(* administrator begins, the parties answer.  A party's panel reads the    *)
(* messages when it is opened and lives on its socket from then on; the    *)
(* administrator's is taken down and put up again, with another reading,   *)
(* by every poll of the list it stands in.                                 *)
(*                                                                         *)
(* One panel is modelled in a behaviour; the others' messages come from    *)
(* elsewhere.  A handler of the API is one step.  Abstracted: what is      *)
(* written (what is typed is lost when a panel is taken down), names,      *)
(* dates; the read marks, which no page asks for; the requests that tell a *)
(* page the dispute's id.  One request and one reading are under way at a  *)
(* time: a bound.                                                          *)
(***************************************************************************)
EXTENDS Naturals, Sequences

CONSTANTS Staff,      \* the administrators
          Parties,    \* the contract's client and freelancer
          MaxNotes,   \* bound on the messages written
          MaxLosses   \* bound on sockets lost and requests failed

ASSUME DisputeChatAssumption == /\ Staff \intersect Parties = {}
                                /\ MaxNotes \in Nat /\ MaxLosses \in Nat

VARIABLES hearing,  \* the dispute's messages, oldest first
          noted,    \* how many were ever written: their ids are 1 .. noted
          whose,    \* whose panel it is, for good
          desk,     \* the panel
          frames,   \* the frames under way to it
          sends,    \* the request it waits for
          losses    \* what MaxLosses bounds

disputeChatVars == <<hearing, noted, whose, desk, frames, sends, losses>>
notesVars == <<hearing, noted, whose>>

People == Staff \union Parties
Official == whose \in Staff
NoSend == [op |-> "none"]
Closed == [open |-> FALSE, up |-> FALSE, load |-> "none", read |-> <<>>, notes |-> <<>>,
           initiated |-> FALSE, socket |-> "none"]

DisputeChatInit == /\ hearing = <<>> /\ noted = 0
                   /\ whose \in People
                   /\ desk = Closed /\ frames = <<>> /\ sends = NoSend
                   /\ losses = 0

Lost == losses < MaxLosses /\ losses' = losses + 1

-----------------------------------------------------------------------------
(* The panel.                                                              *)

\* It asks for the messages and opens a socket.
Opened(d) == [d EXCEPT !.open = TRUE, !.up = TRUE, !.load = "asked", !.socket = "opening"]

\* "Dispute Chat" puts an empty panel up; "Chat with Admin" one that still has what an
\* earlier opening has shown.
OpenChat ==
    /\ ~desk.open /\ desk.load \notin {"asked", "read"}
    /\ desk' = IF Official THEN Opened(Closed) ELSE Opened(desk)
    /\ UNCHANGED <<notesVars, frames, sends, losses>>

\* The socket is closed; what an administrator's handlers wait for is nothing to the next
\* panel.
Gone(d) == /\ desk' = d /\ frames' = <<>>
           /\ sends' = IF Official /\ sends # NoSend THEN [sends EXCEPT !.live = FALSE] ELSE sends

\* A party's panel keeps its messages and its reading.
Hidden == [desk EXCEPT !.open = FALSE, !.up = FALSE, !.socket = "none"]
CloseChat == /\ desk.open
             /\ Gone(IF Official THEN Closed ELSE Hidden)
             /\ UNCHANGED <<notesVars, losses>>

\* The details are closed, or opened for another contract: all of it is cleared.
CloseContract == /\ ~Official /\ desk # Closed
                 /\ Gone(Closed)
                 /\ UNCHANGED <<notesVars, losses>>

\* fetchDisputes: while the list loads nothing of it is on the page.
ListKept == desk \* mutant: the list stays while it is fetched again
ListGone == [Closed EXCEPT !.open = TRUE]

Poll == /\ Official /\ desk.up
        /\ Gone(ListGone)
        /\ UNCHANGED <<notesVars, losses>>

Polled == /\ desk.open /\ ~desk.up
          /\ desk' = Opened(Closed)
          /\ UNCHANGED <<notesVars, frames, sends, losses>>

-----------------------------------------------------------------------------
(* Reading the messages.                                                   *)

ReadNotes ==
    /\ desk.load = "asked"
    /\ \/ /\ desk' = [desk EXCEPT !.load = "read", !.read = hearing]
          /\ UNCHANGED losses
       \/ /\ Lost
          /\ desk' = [desk EXCEPT !.load = "done", !.initiated = @ /\ Official]
    /\ UNCHANGED <<notesVars, frames, sends>>

ShowNotes ==
    /\ desk.load = "read"
    /\ desk' = [desk EXCEPT !.load = "done", !.notes = desk.read, !.read = <<>>,
                            !.initiated = desk.read # <<>>]
    /\ UNCHANGED <<notesVars, frames, sends, losses>>

-----------------------------------------------------------------------------
(* The socket.                                                             *)

Connect == /\ desk.socket = "opening"
           /\ desk' = [desk EXCEPT !.socket = "open"]
           /\ UNCHANGED <<notesVars, frames, sends, losses>>

\* An administrator's panel opens another, without handlers; a party's does not.
Cut == /\ desk.socket \in {"opening", "open"} /\ Lost
       /\ desk' = [desk EXCEPT !.socket = "none"]
       /\ frames' = <<>>
       /\ UNCHANGED <<notesVars, sends>>

Tell(users, frame) ==
    frames' = IF whose \in users /\ desk.socket = "open" THEN Append(frames, frame) ELSE frames

With(m) == IF \E i \in DOMAIN desk.notes : desk.notes[i].id = m.id
           THEN desk.notes ELSE Append(desk.notes, m)

StaffHears(frame) == /\ desk' = [desk EXCEPT !.notes = With(frame.message)]
                     /\ frames' = Tail(frames)

\* A party's panel is ready to write from the first frame on, and closed by a deletion.
PartyHears(frame) ==
    IF frame.type = "dispute_message"
    THEN /\ desk' = [desk EXCEPT !.notes = With(frame.message), !.initiated = TRUE]
         /\ frames' = Tail(frames)
    ELSE /\ desk' = [Hidden EXCEPT !.notes = <<>>, !.initiated = FALSE]
         /\ frames' = <<>>

Hear == /\ frames # <<>>
        /\ IF Official THEN StaffHears(Head(frames)) ELSE PartyHears(Head(frames))
        /\ UNCHANGED <<notesVars, sends, losses>>

-----------------------------------------------------------------------------
(* What is sent.  The buttons wait for the answer, the Enter key does not. *)

StartOffered == Official /\ desk.up /\ desk.load = "done" /\ ~desk.initiated
WriteOffered == desk.up /\ desk.initiated
ClearOffered == Official /\ desk.up /\ desk.initiated /\ desk.notes # <<>>

Submits(op) == /\ sends = NoSend
               /\ sends' = [op |-> op, stage |-> "sent", live |-> TRUE]
               /\ UNCHANGED <<notesVars, desk, frames, losses>>

HandleInitiate == StartOffered /\ Submits("initiate")
HandleSend == WriteOffered /\ Submits("send")
HandleDeleteChat == ClearOffered /\ Submits("delete")

-----------------------------------------------------------------------------
(* The endpoints.                                                          *)

\* An administrator begins; a party has somebody to answer.
CanInitiate(p) == p \in Staff /\ hearing = <<>>
CanWrite(p) == p \in Staff \/ \E i \in DOMAIN hearing : hearing[i].by # p
CanClear(p) == p \in Staff /\ hearing # <<>>

Writers == {hearing[i].by : i \in DOMAIN hearing}

\* Whom the frame is sent to: another administrator is not told of an administrator's.
Told(p, op) == IF op = "initiate" THEN Parties
               ELSE IF p \in Staff THEN Parties \union {p} ELSE Writers \union {p}

Write(p, op) ==
    LET m == [id |-> noted + 1, by |-> p] IN
    /\ noted < MaxNotes
    /\ hearing' = Append(hearing, m) /\ noted' = m.id
    /\ Tell(Told(p, op), [type |-> "dispute_message", message |-> m])

Clear == /\ hearing' = <<>> /\ UNCHANGED noted
         /\ Tell(Parties, [type |-> "dispute_chat_deleted"])

Perform(p, op) == \/ op = "initiate" /\ CanInitiate(p) /\ Write(p, op)
                  \/ op = "send" /\ CanWrite(p) /\ Write(p, op)
                  \/ op = "delete" /\ CanClear(p) /\ Clear

Refused(p, op) == \/ op = "initiate" /\ ~CanInitiate(p)
                  \/ op = "send" /\ ~CanWrite(p)
                  \/ op = "delete" /\ ~CanClear(p)

ServeSend ==
    /\ sends # NoSend /\ sends.stage = "sent"
    /\ \/ Perform(whose, sends.op) /\ sends' = [sends EXCEPT !.stage = "ok"]
       \/ /\ Refused(whose, sends.op)
          /\ sends' = [sends EXCEPT !.stage = "error"]
          /\ UNCHANGED <<hearing, noted, frames>>
    /\ UNCHANGED <<whose, desk, losses>>

\* The others, on panels of their own.
OthersWrite ==
    /\ \E p \in People \ {whose}, op \in {"initiate", "send", "delete"} : Perform(p, op)
    /\ UNCHANGED <<whose, desk, sends, losses>>

SendLost == /\ sends # NoSend /\ sends.stage \in {"sent", "ok"} /\ Lost
            /\ sends' = [sends EXCEPT !.stage = "error"]
            /\ UNCHANGED <<notesVars, desk, frames>>

\* The chat that was begun is read again; the deleted one's panel is closed, whichever it
\* is by now; a message that was sent comes by its frame.
Initiated == /\ sends.live
             /\ desk' = [desk EXCEPT !.initiated = TRUE, !.load = "asked", !.read = <<>>]
             /\ UNCHANGED frames
Deleted == desk' = Closed /\ frames' = <<>>

HandleReply ==
    /\ sends # NoSend /\ sends.stage \in {"ok", "error"}
    /\ sends' = NoSend
    /\ \/ sends.stage = "ok" /\ sends.op = "initiate" /\ Initiated
       \/ sends.stage = "ok" /\ sends.op = "delete" /\ Deleted
       \/ /\ sends.stage = "error" \/ sends.op = "send" \/ (sends.op = "initiate" /\ ~sends.live)
          /\ UNCHANGED <<desk, frames>>
    /\ UNCHANGED <<notesVars, losses>>

DisputeChatNext ==
    \/ OpenChat \/ CloseChat \/ CloseContract \/ Poll \/ Polled
    \/ ReadNotes \/ ShowNotes \/ Connect \/ Cut \/ Hear
    \/ HandleInitiate \/ HandleSend \/ HandleDeleteChat
    \/ ServeSend \/ OthersWrite \/ SendLost \/ HandleReply

\* The polls go on, and are answered; readings are answered and shown, and not for ever
\* overtaken by the next poll, ten seconds later.
DisputeChatFairness ==
    /\ WF_disputeChatVars(Poll) /\ WF_disputeChatVars(Polled)
    /\ SF_disputeChatVars(ReadNotes) /\ SF_disputeChatVars(ShowNotes)

DisputeChatSpec == DisputeChatInit /\ [][DisputeChatNext]_disputeChatVars /\ DisputeChatFairness

-----------------------------------------------------------------------------
(* Type invariant: only an open socket brings frames, and no panel that is *)
(* down reads or listens unless it is a party's, whose reading goes on.    *)
Note == [id : 1 .. noted, by : People]
DisputeChatTypeOK ==
    /\ whose \in People /\ noted \in 0 .. MaxNotes /\ losses \in 0 .. MaxLosses
    /\ {hearing, desk.read, desk.notes} \subseteq Seq(Note)
    /\ {desk.open, desk.up, desk.initiated} \subseteq BOOLEAN
    /\ desk.load \in {"none", "asked", "read", "done"}
    /\ desk.socket \in {"none", "opening", "open"}
    /\ frames # <<>> => desk.socket = "open"
    /\ desk.up => desk.open
    /\ ~desk.up /\ Official => desk.load = "none" /\ desk.socket = "none"
    /\ sends # NoSend => /\ sends.op \in {"initiate", "send", "delete"}
                         /\ sends.stage \in {"sent", "ok", "error"}

(* An administrator's chat keeps catching up with what is stored, also     *)
(* when its socket is lost (the one opened instead has no handlers), when  *)
(* another administrator writes or deletes (no frame is sent to the        *)
(* others) or when an answer was overtaken by a frame (AdminDisputes.js    *)
(* :322, dispute_messages.py:195).                                         *)
AdminChatCatchesUp ==
    []<>(Official /\ desk.open => desk.notes = hearing)
=============================================================================

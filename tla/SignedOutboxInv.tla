--------------------------- MODULE SignedOutboxInv --------------------------
(***************************************************************************)
(* The inductive invariants behind the properties of SignedOutbox.  Inv    *)
(* holds of any number of clients and with failing saves; WriterInv needs  *)
(* a single client on the file and saves that succeed.                     *)
(***************************************************************************)
EXTENDS SignedOutbox

Sending(c) == pc[c] \in {"send", "signed", "await"}

\* A client that is sending has something pending, and what it sends for its
\* caller is its caller's request.
PendingShape ==
    \A c \in Clients :
        /\ Sending(c) => mem[c].pending # None
        /\ Sending(c) /\ aim[c] = "own" => mem[c].pending.req = call[c]
        /\ pc[c] \in {"begin", "build"} => aim[c] # "own"
        /\ pc[c] \in {"begin", "build", "send", "signed", "await"} => call[c] # None
        /\ pc[c] = "begin" /\ aim[c] = "open" => mem[c].pending # None
        /\ pc[c] = "fresh" => aim[c] = "open" /\ call[c] # None
        /\ pc[c] = "build" => mem[c].pending = None /\ aim[c] = "call"

\* A connection carries its client's pending request and the answer to it.
ConnectionShape ==
    /\ \A w \in wire : /\ w.msg \in sent
                       /\ w.to # None => pc[w.to] = "await" /\ mem[w.to].pending = w.msg
    /\ \A c \in Clients : /\ pc[c] = "await" => mem[c].pending \in sent
                          /\ reply[c] # None => pc[c] = "await" /\ \A w \in wire : w.to # c
                          /\ reply[c] \in {"ok", "unusable"} => mem[c].pending \in applied
                          /\ reply[c] = "rejected" => mem[c].pending \in refused
    /\ applied \cup refused \subseteq sent
    /\ applied \cap refused = {}

\* Message ids are drawn in order.
IdsFresh ==
    /\ \A m \in sent : m.id < ids
    /\ \A c \in Clients : mem[c].pending # None => mem[c].pending.id < ids
    /\ disk.pending # None => disk.pending.id < ids

\* Content is neither saved nor sent a second time, nor known to two clients.
ContentShape ==
    /\ disk.pending # None => ~IsExplicitlyRebuilt(disk.pending.req)
    /\ \A c, d \in Clients :
          c # d /\ mem[c].pending # None /\ IsExplicitlyRebuilt(mem[c].pending.req) =>
              mem[c].pending # mem[d].pending
    /\ \A c \in Clients : LET p == mem[c].pending IN
        p # None /\ IsContentBearing(p.req) =>
            /\ pc[c] \in {"send", "signed"} => p \notin sent
            /\ pc[c] = "begin" => aim[c] = "call"

DiskFits == disk.pending # None => ~OverCapacity(disk, disk.pending.req)

Inv ==
    /\ TypeOK /\ PendingShape /\ ConnectionShape /\ IdsFresh /\ ContentShape
    /\ StoreBounded /\ PendingFits /\ DiskFits /\ ReceiptsAreReal

-----------------------------------------------------------------------------
Writers == Clients \ Isolated
Active(c) == pc[c] # "closed"

\* A new session is asked for with nothing pending, and what is sent before it
\* is sent on behalf of openSession.
OpeningShape ==
    \A c \in Clients :
        /\ pc[c] = "fresh" => mem[c].pending = None
        /\ pc[c] \in {"fresh", "begin"} \cup UnderControl /\ aim[c] = "open" => call[c] = SessionOpen

\* The file is what the one client that saves to it would save now.
Synced == \A c \in Writers : Active(c) => disk = Durable(mem[c])

\* A completion that was sent is refused, or the file remembers it.
SentCompletionsKept ==
    \A m \in sent : IsCompletion(m.req) =>
        m \in refused \/ m.req \in acked \cup disk.recovered \/ disk.pending = m

\* A completion is pending, or about to be built, only while no receipt for
\* it is stored and the CLI has not acknowledged one.
CompletionOpen ==
    /\ disk.pending # None /\ IsCompletion(disk.pending.req) =>
           disk.pending.req \notin disk.recovered \cup acked
    /\ \A c \in Writers :
         /\ Active(c) /\ mem[c].pending # None /\ IsCompletion(mem[c].pending.req) =>
               mem[c].pending.req \notin mem[c].recovered \cup acked
         /\ pc[c] \in {"begin", "build", "send", "signed", "await"} /\ aim[c] = "call"
              /\ call[c] # None /\ IsCompletion(call[c]) =>
               call[c] \notin mem[c].recovered \cup acked
    /\ acked \cap disk.recovered = {}
    /\ disk.recovered \subseteq Completions

\* Isolated clients neither post nor store completions.
IsolatedShape ==
    \A c \in Isolated :
        /\ mem[c].recovered = {}
        /\ call[c] # None => ~IsCompletion(call[c])
        /\ mem[c].pending # None => ~IsCompletion(mem[c].pending.req)

\* Sequence numbers grow within a session, and sessions are drawn in order.
\* Between dropping a content message and opening the next session the state
\* may repeat a number, but nothing is built from it.
SequenceShape(s) ==
    /\ s.session <= sessions
    /\ s.pending # None => s.pending.session = s.session /\ s.pending.seq = s.next

BelowNext(s) == \A m \in sent : m.session = s.session => m.seq < s.next \/ m = s.pending

InSession(c) == pc[c] \notin {"closed", "opened", "fresh"}

SentSessions == \A m \in sent : 0 < m.session /\ m.session <= sessions

FileSequence ==
    /\ SequenceShape(disk)
    /\ disk.pending # None => BelowNext(disk) /\ disk.session > 0

ClientSequences ==
    \A c \in Clients : Active(c) =>
        /\ SequenceShape(mem[c])
        /\ mem[c].pending # None \/ InSession(c) => BelowNext(mem[c]) /\ mem[c].session > 0

SessionsApart ==
    \A d \in Isolated : Active(d) /\ mem[d].session # 0 =>
        /\ mem[d].session # disk.session
        /\ \A c \in Clients \ {d} : Active(c) => mem[c].session # mem[d].session

SequencesFresh == SentSessions /\ FileSequence /\ ClientSequences /\ SessionsApart

WriterInv ==
    /\ Inv /\ OpeningShape /\ Synced /\ SentCompletionsKept /\ CompletionOpen /\ IsolatedShape
    /\ SequencesFresh /\ SequenceNeverReused

\* As long as every save has reached the file, the one client that saves to it
\* makes it reliable, whatever isolated clients do beside it.
FileIsReliable == diskFaults = 0 => WriterInv

=============================================================================

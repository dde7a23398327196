------------------------------ MODULE Session ------------------------------
(***************************************************************************)
(* What the network service promises to the entity that owns a connection: *)
(* the notices of each connection form a session.  It opens, or is told to *)
(* have failed; packages come in order while it is open; when it breaks    *)
(* the packages that did not go out are named and then the close, once;    *)
(* and nothing comes after the owner closed it itself.  A quiet session    *)
(* (http) ends without a notice.                                           *)
(***************************************************************************)
EXTENDS Naturals, Sequences, SequencesExt, Functions

VARIABLES
  phase,      \* phase[id]: listening, asked, offered, open, over
  log,        \* log[id]: the notices the owner gets, oldest first
  hung,       \* the sessions their owner ended itself
  quiet       \* the sessions that may end without a notice

svars == <<phase, log, hung, quiet>>

SInit ==
  /\ phase = [id \in {} |-> ""]
  /\ log = [id \in {} |-> <<>>]
  /\ hung = {} /\ quiet = {}

\* Where a session is after one more notice; "wrong" if it has no place.
After(at, note) ==
  CASE at = "listening" /\ note.t = "CLOSE" -> "over"
    [] at = "asked" /\ note.t = "FAIL" -> "over"
    [] at = "asked" /\ note.t = "CONNECT" -> "open"
    [] at = "offered" /\ note.t = "ACCEPT" -> "open"
    [] at = "open" /\ note.t = "RECV" -> "open"
    [] at \in {"open", "ending"} /\ note.t = "UNREACH" -> "ending"
    [] at \in {"open", "ending"} /\ note.t = "CLOSE" -> "over"
    [] OTHER -> "wrong"

AfterAll(at, notes) ==
  LET after[k \in 0 .. Len(notes)] ==
        IF k = 0 THEN at ELSE After(after[k - 1], notes[k])
  IN after[Len(notes)]

Same(ids) == \A i \in ids : log'[i] = log[i] /\ phase'[i] = phase[i]

\* A connection asked for may be there, or fail, at once; one that is offered
\* to a listener may be told of at once.
Begin(id) ==
  /\ DOMAIN log' = DOMAIN log \cup {id} /\ DOMAIN phase' = DOMAIN log'
  /\ Same(DOMAIN log)
  /\ \/ /\ log'[id] = <<>>
        /\ phase'[id] \in {"listening", "asked", "offered", "open", "over"}
     \/ log'[id] # <<>> /\ phase'[id] = AfterAll("offered", log'[id])
  /\ quiet' \in {quiet, quiet \cup {id}}
  /\ UNCHANGED hung

\* What the network does to a session is told to its owner; only one that was
\* not yet told of, or a quiet one, may just end.
Hears(id) ==
  /\ DOMAIN log' = DOMAIN log /\ DOMAIN phase' = DOMAIN phase
  /\ Same(DOMAIN log \ {id})
  /\ IsPrefix(log[id], log'[id])
  /\ LET at == AfterAll(phase[id],
                  SubSeq(log'[id], Len(log[id]) + 1, Len(log'[id])))
     IN \/ phase'[id] = at /\ at \notin {"wrong", "ending"}
        \/ /\ phase'[id] = "over" /\ at \notin {"wrong", "ending"}
           /\ at = "offered" \/ id \in quiet
  /\ UNCHANGED <<hung, quiet>>

\* The owner closes the session: the last that is heard of it.
HangUp(id) ==
  /\ phase[id] # "over"
  /\ phase' = [phase EXCEPT ![id] = "over"]
  /\ hung' = hung \cup {id}
  /\ UNCHANGED <<log, quiet>>

SNext ==
  \/ \E id \in DOMAIN log' \ DOMAIN log : Begin(id)
  \/ \E id \in DOMAIN log : Hears(id) \/ HangUp(id)

SafeSpec == SInit /\ [][SNext]_svars
=============================================================================

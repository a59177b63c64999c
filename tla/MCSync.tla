------------------------------- MODULE MCSync --------------------------------
(***************************************************************************)
(* Threads and one object: a mutex, a mailbox or a queue.  The first state *)
(* chooses which; the variables of the others stay as they are.            *)
(***************************************************************************)
EXTENDS Mutex, Mailbox, Queue

CONSTANT Objects    \* the objects this run looks at

MCInit == object \in Objects /\ MutexInitial /\ MailboxInitial /\ QueueInitial

MutexStep == MutexNext /\ UNCHANGED <<waiting, got, item, mailbox, queue>>
MailboxStep == MailboxNext /\ UNCHANGED <<mutex, holders, queue>>
QueueStep == QueueNext /\ UNCHANGED <<mutex, holders, mailbox>>

MCNext == MutexStep \/ MailboxStep \/ QueueStep

MCVars == <<object, init, callers, mutex, holders, waiting, got, item, mailbox, queue>>

MCSpec ==
    /\ MCInit /\ [][MCNext]_MCVars
    /\ \A t \in Thread : /\ WF_MCVars(MailboxStep /\ MailboxGoesOn(t))
                          /\ WF_MCVars(QueueStep /\ QueueGoesOn(t))

\* Of no object a wake-up is lost.
NobodyIsForgotten == MutexKeepsWakeups /\ MailboxKeepsWakeups /\ QueueKeepsWakeups

\* Every field of the three structures has its type.
TypesOK == MutexTypeOK /\ MailboxTypeOK /\ QueueTypeOK
=============================================================================

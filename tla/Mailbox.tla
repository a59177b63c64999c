------------------------------- MODULE Mailbox -------------------------------
(***************************************************************************)
(* comm/mailbox.c: one slot, and the threads that fill and empty it.       *)
(***************************************************************************)
EXTENDS Channel

VARIABLES
    mailbox_state,  \* mailbox_t.state: 1 when the slot is full
    value

mailbox == <<mailbox_state, value>>
mailbox_vars == <<object, init, callers, waiting, got, item, mailbox>>

MailboxInitial == ChannelInit /\ mailbox_state = 0 /\ value = NULL

\* mailbox_init clears the structure: callers do that when nobody uses it.
MailboxInit ==
    /\ init = 0 /\ NobodyInside
    /\ init' = 1
    /\ mailbox_state' = 0
    /\ value' = NULL
    /\ UNCHANGED <<callers, waiting, got, item>>

\* A slip: an if for the while.
MailboxPendOnce(t) ==
    /\ MayPend(t)
    /\ init = 1
    /\ mailbox_state = 1 \/ pc[t] = "pend_woken"
    /\ mailbox_state' = 0
    /\ ReadAndWake(t, value)
    /\ UNCHANGED value

\* mailbox_pend, the test of its loop: the slot is full, ...
MailboxPend(t) ==
    /\ MayPend(t)
    /\ init = 1
    /\ mailbox_state = 1
    /\ mailbox_state' = 0
    /\ ReadAndWake(t, value)
    /\ UNCHANGED value

\* ... or it is empty and the thread waits.
MailboxPendBlock(t) ==
    /\ MayPend(t)
    /\ init = 1
    /\ mailbox_state = 0
    /\ WaitToRead(t)
    /\ UNCHANGED mailbox

\* mailbox_post in the same way.
MailboxPost(t, e) ==
    /\ MayPost(t, e)
    /\ init = 1
    /\ mailbox_state = 0
    /\ mailbox_state' = 1
    /\ value' = e
    /\ WriteAndWake(t)

MailboxPostBlock(t, e) ==
    /\ MayPost(t, e)
    /\ init = 1
    /\ mailbox_state = 1
    /\ WaitToWrite(t, e)
    /\ UNCHANGED mailbox

MailboxUnlock(t) == Unlock(t) /\ UNCHANGED <<init, waiting, got, item, mailbox>>

\* OS_ERR_MAILBOX_NON_INITIALIZED for those who waited.
MailboxFail(t) == FailWoken(t) /\ UNCHANGED mailbox

MailboxDestroy(t) ==
    /\ SendAllAway(t)
    /\ mailbox_state' = 0
    /\ UNCHANGED value

MailboxNext ==
    /\ object = "mailbox" /\ UNCHANGED object
    /\ \/ MailboxInit
       \/ \E t \in Thread :
             \/ MailboxPend(t) \/ MailboxPendBlock(t)
             \/ \E e \in Element : MailboxPost(t, e) \/ MailboxPostBlock(t, e)
             \/ MailboxUnlock(t) \/ MailboxFail(t) \/ MailboxDestroy(t)

MailboxSpec == object = "mailbox" /\ MailboxInitial /\ [][MailboxNext]_mailbox_vars

\* Whoever is in the middle of a call and not blocked is scheduled again.
MailboxGoesOn(t) ==
    /\ pc[t] # "out"
    /\ \/ MailboxPend(t) \/ MailboxPendBlock(t) \/ MailboxUnlock(t) \/ MailboxFail(t)
       \/ \E e \in Element : MailboxPost(t, e) \/ MailboxPostBlock(t, e)

-----------------------------------------------------------------------------
(* Properties                                                              *)

\* The fields of mailbox_t hold values of their types.
MailboxTypeOK == /\ ChannelTypeOK
                 /\ mailbox_state \in {0, 1}
                 /\ value \in Element \cup {NULL}

\* Each pend wakes one writer and each post one reader, and newcomers may
\* overtake both: still no side waits while the slot is as it wants it and
\* nobody is on the way to it.
MailboxKeepsWakeups ==
    object = "mailbox" => KeepsWakeups(mailbox_state, 1 - mailbox_state)

MailboxAsFifo == INSTANCE BoundedFifo
    WITH open <- Shown("mailbox", init, 0), Depths <- {1}, Nothing <- NULL,
         depth <- Shown("mailbox", init, 0),
         fifo <- IF mailbox_state = 1 THEN <<value>> ELSE <<>>,
         got <- Shown("mailbox", got, Nothings),
         readers <- Shown("mailbox", Readers, {}),
         writers <- Shown("mailbox", Writers, {})

\* A mailbox is a first-in first-out channel of depth one: each element posted
\* is received once, and nobody waits for ever beside it.
MailboxIsFifo == MailboxAsFifo!Spec
=============================================================================

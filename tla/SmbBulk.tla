------------------------------- MODULE SmbBulk -------------------------------
(***************************************************************************)
(* One text with many recipients.  Bulk mail (src/sbbs3/bulkmail.cpp), the *)
(* SMTP server (src/sbbs3/mailsrvr.c), net mail (src/sbbs3/netmail.cpp)    *)
(* and the JavaScript class MsgBase (src/sbbs3/js_msgbase.c) all store the *)
(* text first, with one reference, then add a header for each recipient,   *)
(* and only then add the other references to the blocks of the text.       *)
(*                                                                         *)
(* Every action here that stands for a section with the base locked, or    *)
(* with the .sda file open deny-all, is one step: SmbAlloc has the steps.  *)
(* Texts have a body only, as savemsg() makes them.                        *)
(***************************************************************************)
EXTENDS SmbBlocks, FiniteSets

CONSTANTS
    Senders,        \* the threads and processes that send mail
    Kinds,          \* the kinds of senders: "bulkmail", "mailsrvr", "netmail", "js"
    Bodies,         \* the lengths of the texts
    MaxRecipients,  \* bound: the recipients of one text
    MaxTexts,       \* bound: so many texts are stored
    MaxFailures,    \* bound: so many senders fail to count the recipients
    EarlyDeletes    \* TRUE when a recipient may delete a message, and have it
                    \* purged, while the sender is still adding recipients

ASSUME BulkAssumption ==
    /\ Kinds \subseteq {"bulkmail", "mailsrvr", "netmail", "js"}
    /\ Bodies \subseteq Nat \ {0}
    /\ MaxRecipients \in Nat /\ MaxTexts \in Nat /\ MaxFailures \in Nat
    /\ EarlyDeletes \in BOOLEAN

VARIABLES
    sda, sdaLen,  \* the data allocation table and its number of records
    idx,          \* the messages: recipient and text, one for each recipient
    pc,           \* where each sender is
    kind,         \* which of the four programs each sender runs
    msg,          \* the text each sender has stored
    count,        \* msgs, rcpt_count or i: the recipients counted
    texts,        \* ghost: the number of texts stored so far
    failures,     \* ghost: the number of failures so far
    uncounted,    \* ghost: the texts whose further recipients were not counted
    spent         \* ghost: a copy of such a text has taken the last reference to
                  \* a block which another copy needs

ghosts == <<failures, uncounted, spent>>
vars == <<sda, sdaLen, idx, pc, kind, msg, count, texts, ghosts>>

NoText == [text |-> 0, blk |-> 0, body |-> 0, tail |-> 0]

Init ==
    /\ sda = [b \in Block |-> 0] /\ sdaLen = 0
    /\ idx = {}
    /\ pc = [s \in Senders |-> "idle"]
    /\ kind \in [Senders -> Kinds]
    /\ msg = [s \in Senders |-> NoText]
    /\ count = [s \in Senders |-> 0]
    /\ texts = 0
    /\ failures = 0 /\ uncounted = {} /\ spent = FALSE

Goto(s, label) == pc' = [pc EXCEPT ![s] = label]

\* savemsg() without a recipient: smb_addmsg() allocates the blocks of the text
\* with one reference, writes it, and leaves before smb_addmsghdr().
StoreText(s, body) ==
    LET n == DatBlocks(body)
        b == FirstFit(sda, sdaLen, n)
    IN  /\ pc[s] = "idle" /\ texts < MaxTexts
        /\ b + n <= MaxBlocks
        /\ texts' = texts + 1
        /\ sda' = MarkUsed(sda, b, n)
        /\ sdaLen' = LargerOf(sdaLen, b + n)
        /\ msg' = [msg EXCEPT ![s] = [text |-> texts + 1, blk |-> b,
                                      body |-> body, tail |-> 0]]
        /\ Goto(s, "sending")
        /\ UNCHANGED <<idx, kind, count, ghosts>>

\* smb_addmsghdr() for the next recipient.
AddRecipient(s) ==
    /\ pc[s] = "sending" /\ count[s] < MaxRecipients
    /\ idx' = idx \cup {[to |-> count[s] + 1, m |-> msg[s]]}
    /\ count' = [count EXCEPT ![s] = @ + 1]
    /\ UNCHANGED <<sda, sdaLen, pc, kind, msg, texts, ghosts>>

\* bulkmailhdr() cannot read the user and returns 0: counted all the same.
SkipRecipient(s) ==
    /\ pc[s] = "sending" /\ count[s] < MaxRecipients
    /\ kind[s] = "bulkmail"
    /\ count' = [count EXCEPT ![s] = @ + 1]
    /\ UNCHANGED <<sda, sdaLen, idx, pc, kind, msg, texts, ghosts>>

\* The last recipient is done, or one of them fails and ends the loop.
EndOfList(s) ==
    /\ pc[s] = "sending"
    /\ Goto(s, "counting")
    /\ UNCHANGED <<sda, sdaLen, idx, kind, msg, count, texts, ghosts>>

AllRefs == -1

\* Mutant: the test for more than one recipient is off by one.
ReferencesOffByOne(s) ==
    IF count[s] > 2 THEN count[s] - 1
    ELSE IF count[s] = 0 /\ kind[s] \in {"bulkmail", "mailsrvr"} THEN AllRefs
    ELSE 0

\* How many references smb_incmsg_dfields() is to add; AllRefs when instead
\* smb_freemsg_dfields() is called with SMB_ALL_REFS, for want of a recipient.
References(s) ==
    IF count[s] > 1 THEN count[s] - 1
    ELSE IF count[s] = 0 /\ kind[s] \in {"bulkmail", "mailsrvr"} THEN AllRefs
    ELSE 0

\* The blocks smb_incdat() or smb_freemsgdat() visits, in their order, up to
\* the one at which it fails, if it does.
CountedBlocks(s, end) == {b \in FieldBlocks(msg[s], "body") : b < end}

\* smb_incdat() and smb_freemsgdat() on these blocks of the text; the base is not
\* locked.  The counters are uint16_t.
Count(s, blocks) ==
    [b \in Block |->
        IF b \notin blocks THEN sda[b]
        ELSE IF References(s) = AllRefs THEN 0
        ELSE (sda[b] + References(s)) % RefModulus]

\* The sender is done with the text.
Forget(s) ==
    /\ msg' = [msg EXCEPT ![s] = NoText]
    /\ count' = [count EXCEPT ![s] = 0]
    /\ Goto(s, "idle")

CountReferences(s) ==
    /\ pc[s] = "counting"
    /\ sda' = Count(s, FieldBlocks(msg[s], "body"))
    /\ Forget(s)
    /\ UNCHANGED <<sdaLen, idx, kind, texts, ghosts>>

Fail(s) ==
    /\ failures < MaxFailures
    /\ failures' = failures + 1
    /\ uncounted' = IF count[s] > 1 THEN uncounted \cup {msg[s].text} ELSE uncounted
    /\ UNCHANGED <<sdaLen, idx, kind, texts, spent>>

\* The .sda file cannot be opened (bulk mail leaves the counting out then), or the
\* counter of block end not be read or written: none of the four senders
\* looks at what smb_incmsg_dfields() returns.  Or the sender dies by then.
CountingStops(s, end) ==
    /\ pc[s] = "counting"
    /\ sda' = Count(s, CountedBlocks(s, end))
    /\ Fail(s)
    /\ Forget(s)

\* The sender dies among its recipients.
SenderDies(s) ==
    /\ pc[s] = "sending"
    /\ Fail(s)
    /\ Forget(s)
    /\ UNCHANGED sda

InHand(text) == \E s \in Senders : pc[s] # "idle" /\ msg[s].text = text

\* A recipient deletes a message and delmail() purges it: smb_freemsg(), and the
\* index without it, with the base locked and the .sda file open.
Delete(e) ==
    /\ EarlyDeletes \/ ~InHand(e.m.text)
    /\ sda' = FreeFields(sda, e.m)
    /\ idx' = idx \ {e}
    /\ spent' = \/ spent
                 \/ /\ e.m.text \in uncounted
                    /\ \E f \in idx' : \E b \in Extent(e.m) \cap Extent(f.m) : sda'[b] = 0
    /\ UNCHANGED <<sdaLen, pc, kind, msg, count, texts, failures, uncounted>>

Next ==
    \/ \E s \in Senders :
           \/ \E body \in Bodies : StoreText(s, body)
           \/ AddRecipient(s)
           \/ SkipRecipient(s)
           \/ EndOfList(s)
           \/ CountReferences(s)
           \/ \E end \in FieldBlocks(msg[s], "body") : CountingStops(s, end)
           \/ SenderDies(s)
    \/ \E e \in idx : Delete(e)

Spec == Init /\ [][Next]_vars

-----------------------------------------------------------------------------
Headers(b) == {e \in idx : b \in Extent(e.m)}
Quiet == \A s \in Senders : pc[s] = "idle"

\* As long as one recipient has a message left, no block of the shared text is
\* free for another message, however many of the others were deleted.
LiveBlocksCounted ==
    \A e \in idx : \A b \in Extent(e.m) : sda[b] > 0

\* Two messages whose texts share a block have the same text, as long as no copy
\* of a text whose recipients were not all counted has taken the last reference
\* away from another: until then neither a failed nor a half-done count, nor any
\* number of deleted copies, lets smb_allocdat() hand a block out that is in use.
TextsDisjoint ==
    ~spent =>
        \A e, f \in idx : e.m.text # f.m.text => Extent(e.m) \cap Extent(f.m) = {}

\* When nobody is sending, a block has at least as many references as headers
\* use it, so each recipient may delete the message once.  Where the counting
\* failed, it has one at least until one copy takes the last from the others.
NeverUndercounted ==
    Quiet /\ ~spent =>
        \A b \in Block : \A e \in Headers(b) :
            sda[b] >= IF e.m.text \in uncounted THEN 1 ELSE Cardinality(Headers(b))
-----------------------------------------------------------------------------
(* What they rest on: the inductive invariant, when nothing is deleted     *)
(* early, until a copy of an uncounted text takes the last reference.      *)

TextType == [text : 0 .. MaxTexts, blk : 0 .. MaxBlocks, body : Nat, tail : {0}]

FilesOK ==
    /\ sda \in [Block -> Refs] /\ sdaLen \in 0 .. MaxBlocks
    /\ idx \subseteq [to : 1 .. MaxRecipients, m : TextType] /\ IsFiniteSet(idx)

SendersOK ==
    /\ pc \in [Senders -> {"idle", "sending", "counting"}]
    /\ kind \in [Senders -> Kinds]
    /\ msg \in [Senders -> TextType]
    /\ count \in [Senders -> 0 .. MaxRecipients]
    /\ texts \in 0 .. MaxTexts

GhostsOK ==
    /\ failures \in 0 .. MaxFailures
    /\ uncounted \subseteq 0 .. MaxTexts
    /\ spent \in BOOLEAN

TypeOK == FilesOK /\ SendersOK /\ GhostsOK

Sending(s) == pc[s] # "idle"

\* The texts that a header refers to or a sender has in hand.
Stored == {e.m : e \in idx} \cup {msg[s] : s \in {t \in Senders : Sending(t)}}

\* A text is stored once, and one sender has it in hand.
TextInv ==
    /\ \A m \in Stored : m.text \in 1 .. texts
    /\ \A m, k \in Stored : m.text = k.text => m = k
    /\ \A s, t \in Senders : Sending(s) /\ Sending(t) /\ msg[s] = msg[t] => s = t

BlocksInv ==
    /\ \A m, k \in Stored : m # k => Extent(m) \cap Extent(k) = {}
    /\ \A m \in Stored : \A b \in Extent(m) : b < sdaLen

\* Until its sender has counted the recipients, a text has one reference.
SendingInv ==
    \A s \in Senders : Sending(s) =>
        /\ \A b \in Extent(msg[s]) : sda[b] = 1
        /\ \A e \in idx : e.m = msg[s] => e.to <= count[s]

\* Then it has one for each header, or one at least if the counting failed.
CountedInv ==
    \A b \in Block : \/ \E s \in Senders : Sending(s) /\ b \in Extent(msg[s])
                     \/ sda[b] >= Cardinality(Headers(b))
                     \/ sda[b] > 0 /\ \E e \in Headers(b) : e.m.text \in uncounted

SharedInv == TextInv /\ BlocksInv /\ SendingInv /\ CountedInv

BulkInv == TypeOK /\ (~spent => SharedInv)
=============================================================================

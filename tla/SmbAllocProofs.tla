--------------------------- MODULE SmbAllocProofs ---------------------------
(* Proofs about SmbAlloc. *)
EXTENDS SmbAlloc, SmbBlocksProofs, FiniteSetTheorems

USE DEF Block

LEMMA FreeHeaderType ==
    ASSUME NEW table \in [Block -> {0, 1}], NEW e
    PROVE  FreeHeader(table, e) \in [Block -> {0, 1}]
BY DEF FreeHeader

-----------------------------------------------------------------------------
(* Type correctness.                                                       *)

LEMMA InitType == Init => TypeOK
<1>. SUFFICES ASSUME Init PROVE TypeOK
  OBVIOUS
<1>1. NoMsg \in MsgType
  <2>1. (CHOOSE m \in Modes : TRUE) \in Modes
    BY ModesAssumption
  <2>. QED  BY <2>1, MaxBlocksAssumption, BoundsAssumption DEF NoMsg, MsgType
<1>2. TablesOK
  BY RefModulusAssumption, MaxBlocksAssumption DEF Init, TablesOK, Refs
<1>3. MessagesOK
  BY <1>1 DEF Init, MessagesOK
<1>4. ControlOK
  BY BoundsAssumption DEF Init, ControlOK
<1>5. GhostOK
  BY DEF Init, GhostOK
<1>. QED  BY <1>2, <1>3, <1>4, <1>5 DEF TypeOK

LEMMA RefsAreNaturals ==
    ASSUME TypeOK
    PROVE  sda \in [Block -> Nat] /\ sha \in [Block -> Nat] /\ 1 \in Refs
<1>1. Refs \subseteq Nat /\ 1 \in Refs /\ {0, 1} \subseteq Nat
  BY RefModulusAssumption DEF Refs
<1>2. \A S, T : \A f \in [Block -> S] : S \subseteq T => f \in [Block -> T]
  OBVIOUS
<1>. QED  BY <1>1, <1>2 DEF TypeOK, TablesOK

\* The block numbers a text or a header can get.
LEMMA TextPlace ==
    ASSUME TypeOK, NEW c \in Clients, NEW shape \in Shapes, NEW mode \in Modes,
           StoreText(c, shape, mode)
    PROVE  LET n == DatBlocks(shape.body + shape.tail)
               b == Place(sda, sdaLen, sdtLen, mode, n)
           IN  /\ shape.body \in Nat /\ shape.tail \in Nat /\ n \in Nat
               /\ b \in 0 .. MaxBlocks /\ b + n \in 0 .. MaxBlocks
               /\ Hyper => b = sdtLen
               /\ ~Hyper => \A k \in b .. b + n - 1 : k < sdaLen => sda[k] = 0
<1>. DEFINE n == DatBlocks(shape.body + shape.tail)
            b == Place(sda, sdaLen, sdtLen, mode, n)
<1>1. shape.body \in Nat /\ shape.tail \in Nat /\ n \in Nat
  BY ShapesAssumption, DatBlocksType
<1>2. /\ b \in 0 .. MaxBlocks
      /\ Hyper => b = sdtLen
      /\ ~Hyper => \A k \in b .. b + n - 1 : k < sdaLen => sda[k] = 0
  <2>. HIDE DEF n
  <2>. QED  BY <1>1, RefsAreNaturals, PlaceFree DEF TypeOK, TablesOK
<1>3. b + n <= MaxBlocks
  BY DEF StoreText
<1>. HIDE DEF n, b
<1>4. b + n \in 0 .. MaxBlocks
  BY <1>1, <1>2, <1>3, MaxBlocksAssumption
<1>. QED  BY <1>1, <1>2, <1>4 DEF n, b

LEMMA HeaderPlace ==
    ASSUME TypeOK, NEW c \in Clients, NEW n \in HdrBlocks,
           AddHeader(c, n) \/ AddHeaderUnwritten(c, n)
    PROVE  LET b == PlaceHeader(c, n)
           IN  /\ n \in Nat
               /\ b \in 0 .. MaxBlocks /\ b + n \in 0 .. MaxBlocks
               /\ Hyper => b = shdLen
               /\ ~Hyper => \A k \in b .. b + n - 1 : k < shaLen => sha[k] = 0
<1>. DEFINE b == PlaceHeader(c, n)
<1>1. n \in Nat
  BY HdrBlocksAssumption
<1>2. /\ b \in 0 .. MaxBlocks
      /\ Hyper => b = shdLen
      /\ ~Hyper => \A k \in b .. b + n - 1 : k < shaLen => sha[k] = 0
  BY <1>1, RefsAreNaturals, PlaceFree DEF TypeOK, TablesOK, PlaceHeader
<1>3. b + n <= MaxBlocks
  BY DEF AddHeader, AddHeaderUnwritten
<1>. HIDE DEF b
<1>4. b + n \in 0 .. MaxBlocks
  BY <1>1, <1>2, <1>3, MaxBlocksAssumption
<1>. QED  BY <1>1, <1>2, <1>4 DEF b

LEMMA NextTables == TypeOK /\ [Next]_vars => TablesOK'
<1>. SUFFICES ASSUME TypeOK, [Next]_vars PROVE TablesOK'
  OBVIOUS
<1>0. TablesOK
  BY DEF TypeOK
<1>1. ASSUME NEW c \in Clients, NEW shape \in Shapes, NEW mode \in Modes,
             StoreText(c, shape, mode)
      PROVE  TablesOK'
  <2>. DEFINE n == DatBlocks(shape.body + shape.tail)
              b == Place(sda, sdaLen, sdtLen, mode, n)
  <2>1. b + n \in 0 .. MaxBlocks
    BY <1>1, TextPlace
  <2>2. /\ sda' = IF Hyper THEN sda ELSE MarkUsed(sda, b, n)
        /\ sdaLen' = IF Hyper THEN sdaLen ELSE LargerOf(sdaLen, b + n)
        /\ sdtLen' = LargerOf(sdtLen, b + n)
        /\ UNCHANGED <<sha, shaLen, shdLen>>
    BY <1>1 DEF StoreText
  <2>. HIDE DEF n, b
  <2>3. sda' \in [Block -> Refs]
    BY <2>2, <1>0, RefsAreNaturals, MarkUsedType DEF TablesOK
  <2>. QED  BY <2>1, <2>2, <2>3, <1>0, LargerOfType DEF TablesOK
<1>2. ASSUME NEW c \in Clients, NEW n \in HdrBlocks,
             AddHeader(c, n) \/ AddHeaderUnwritten(c, n)
      PROVE  TablesOK'
  <2>. DEFINE b == PlaceHeader(c, n)
  <2>1. b + n \in 0 .. MaxBlocks
    BY <1>2, HeaderPlace
  <2>2. /\ sha' = IF Hyper THEN sha ELSE MarkUsed(sha, b, n)
        /\ shaLen' = IF Hyper THEN shaLen ELSE LargerOf(shaLen, b + n)
        /\ shdLen' = LargerOf(shdLen, b + n) \/ shdLen' = shdLen
        /\ UNCHANGED <<sda, sdaLen, sdtLen>>
    BY <1>2 DEF AddHeader, AddHeaderUnwritten, TakeHeaderBlocks
  <2>. HIDE DEF b
  <2>3. sha' \in [Block -> {0, 1}]
    BY <2>2, <1>0, MarkUsedType DEF TablesOK
  <2>. QED  BY <2>1, <2>2, <2>3, <1>0, LargerOfType DEF TablesOK
<1>3. ASSUME NEW c \in Clients, UndoBody(c) \/ UndoTail(c)
      PROVE  TablesOK'
  <2>1. PICK field : sda' = IF Hyper THEN sda ELSE FreeField(sda, msg[c], field)
    BY <1>3 DEF UndoBody, UndoTail
  <2>2. sda' \in [Block -> Refs]
    BY <2>1, <1>0, FreeFieldType DEF TablesOK
  <2>3. UNCHANGED <<sdaLen, sha, shaLen, sdtLen, shdLen>>
    BY <1>3 DEF UndoBody, UndoTail
  <2>. QED  BY <2>2, <2>3, <1>0 DEF TablesOK
<1>4. ASSUME NEW c \in Clients, NEW e \in idx, Purge(c, e)
      PROVE  TablesOK'
  BY <1>4, <1>0, FreeFieldsType, FreeHeaderType DEF Purge, TablesOK
<1>5. CASE UNCHANGED tables
  BY <1>5, <1>0 DEF tables, TablesOK
<1>. QED  BY <1>1, <1>2, <1>3, <1>4, <1>5
          DEF Next, AddMessage, Maintain, vars, AddHeaderRefused, TextUnwritten,
              PosterDies, MaintStart, MaintEnd, FlagDeleted

LEMMA NextMessages == TypeOK /\ [Next]_vars => MessagesOK'
<1>. SUFFICES ASSUME TypeOK, [Next]_vars PROVE MessagesOK'
  OBVIOUS
<1>0. MessagesOK /\ posts \in 0 .. MaxPosts
  BY DEF TypeOK, ControlOK
<1>1. ASSUME NEW c \in Clients, NEW shape \in Shapes, NEW mode \in Modes,
             StoreText(c, shape, mode)
      PROVE  MessagesOK'
  <2>. DEFINE b == Place(sda, sdaLen, sdtLen, mode, DatBlocks(shape.body + shape.tail))
  <2>1. shape.body \in Nat /\ shape.tail \in Nat /\ b \in 0 .. MaxBlocks
    BY <1>1, TextPlace
  <2>2. /\ msg' = [msg EXCEPT ![c] = [text |-> posts + 1, blk |-> b, mode |-> mode,
                                      body |-> shape.body, tail |-> shape.tail]]
        /\ posts < MaxPosts /\ UNCHANGED <<idx, todo>>
    BY <1>1 DEF StoreText
  <2>. HIDE DEF b
  <2>3. posts + 1 \in 0 .. MaxPosts
    BY <2>2, <1>0, BoundsAssumption
  <2>. QED  BY <2>1, <2>2, <2>3, <1>0 DEF MessagesOK, MsgType
<1>2. ASSUME NEW c \in Clients, NEW n \in HdrBlocks, AddHeader(c, n)
      PROVE  MessagesOK'
  <2>1. PlaceHeader(c, n) \in 0 .. MaxBlocks
    BY <1>2, HeaderPlace
  <2>2. /\ idx' = idx \cup {[m |-> msg[c], hblk |-> PlaceHeader(c, n), hlen |-> n,
                             del |-> FALSE, freed |-> FALSE]}
        /\ UNCHANGED <<msg, todo>>
    BY <1>2 DEF AddHeader
  <2>3. msg[c] \in MsgType
    BY <1>0 DEF MessagesOK
  <2>4. [m |-> msg[c], hblk |-> PlaceHeader(c, n), hlen |-> n,
         del |-> FALSE, freed |-> FALSE] \in EntryType
    BY <2>1, <2>3 DEF EntryType
  <2>. QED  BY <2>2, <2>4, <1>0 DEF MessagesOK
<1>3. ASSUME NEW c \in Clients, NEW fields, TextUnwritten(c, fields)
      PROVE  MessagesOK'
  <2>1. Recorded(msg[c], fields) \in MsgType
    BY <1>0 DEF MessagesOK, MsgType, Recorded
  <2>. QED  BY <2>1, <1>0, <1>3 DEF MessagesOK, TextUnwritten
<1>4. ASSUME NEW c \in Clients, NEW doomed \in SUBSET {e.m.text : e \in idx},
             MaintStart(c, doomed)
      PROVE  MessagesOK'
  <2>1. \A e \in idx : e.m.text \in 0 .. MaxPosts
    BY <1>0 DEF MessagesOK, EntryType, MsgType
  <2>2. doomed \subseteq 0 .. MaxPosts
    BY <2>1
  <2>. QED  BY <2>2, <1>4, <1>0 DEF MaintStart, MessagesOK
<1>5. ASSUME NEW e \in idx, NEW freed \in BOOLEAN,
             idx' = (idx \ {e}) \cup {Flagged(e, freed)}, todo' \subseteq todo,
             UNCHANGED msg
      PROVE  MessagesOK'
  <2>1. Flagged(e, freed) \in EntryType
    BY <1>0 DEF MessagesOK, EntryType, Flagged
  <2>. QED  BY <2>1, <1>5, <1>0 DEF MessagesOK
<1>6. ASSUME NEW c \in Clients, NEW e \in idx, Purge(c, e)
      PROVE  MessagesOK'
  BY <1>5, <1>6 DEF Purge
<1>7. ASSUME NEW e \in idx, FlagDeleted(e)
      PROVE  MessagesOK'
  BY <1>5, <1>7 DEF FlagDeleted
<1>8. ASSUME NEW c \in Clients, MaintEnd(c)
      PROVE  MessagesOK'
  BY <1>8, <1>0 DEF MaintEnd, MessagesOK
<1>9. CASE UNCHANGED <<idx, msg, todo>>
  BY <1>9, <1>0 DEF MessagesOK
<1>. QED  BY <1>1, <1>2, <1>3, <1>4, <1>6, <1>7, <1>8, <1>9
          DEF Next, AddMessage, Maintain, vars, AddHeaderRefused, UndoBody, UndoTail,
              AddHeaderUnwritten, PosterDies

LEMMA OneMore ==
  ASSUME NEW m \in Nat, NEW n \in 0 .. m, NEW k, k = n \/ (n < m /\ k = n + 1)
  PROVE  k \in 0 .. m
OBVIOUS

LEMMA NextControl == TypeOK /\ [Next]_vars => ControlOK'
<1>. DEFINE Label == {"idle", "stored", "undo body", "undo tail", "maint"}
<1>. SUFFICES ASSUME ControlOK, [Next]_vars PROVE ControlOK'
  BY DEF TypeOK
<1>1. ASSUME NEW c \in Clients, NEW l \in Label,
             pc' = [pc EXCEPT ![c] = l], lock' \in {lock, c, NoClient},
             posts' = posts \/ (posts < MaxPosts /\ posts' = posts + 1),
             faults' = faults \/ (faults < MaxFaults /\ faults' = faults + 1)
      PROVE  ControlOK'
  <2>1. pc' \in [Clients -> Label]
    BY <1>1 DEF ControlOK
  <2>2. lock' \in Clients \cup {NoClient}
    BY <1>1 DEF ControlOK
  <2>3. posts \in 0 .. MaxPosts /\ MaxPosts \in Nat
    BY BoundsAssumption DEF ControlOK
  <2>4. posts' \in 0 .. MaxPosts
    BY <1>1, <2>3, OneMore
  <2>5. faults \in 0 .. MaxFaults /\ MaxFaults \in Nat
    BY BoundsAssumption DEF ControlOK
  <2>6. faults' \in 0 .. MaxFaults
    BY <1>1, <2>5, OneMore
  <2>. QED  BY <2>1, <2>2, <2>4, <2>6 DEF ControlOK
<1>2. ASSUME NEW c \in Clients, NEW shape, NEW mode, StoreText(c, shape, mode)
      PROVE  ControlOK'
  <2>1. pc' = [pc EXCEPT ![c] = "stored"] /\ lock' = c
    BY <1>2 DEF StoreText, Goto
  <2>2. posts < MaxPosts /\ posts' = posts + 1 /\ faults' = faults
    BY <1>2 DEF StoreText
  <2>. QED  BY <1>1, <2>1, <2>2
<1>3. ASSUME NEW c \in Clients, NEW n, AddHeader(c, n)
      PROVE  ControlOK'
  <2>1. pc' = [pc EXCEPT ![c] = "idle"] /\ lock' = NoClient
    BY <1>3 DEF AddHeader, Goto
  <2>2. posts' = posts /\ faults' = faults
    BY <1>3 DEF AddHeader
  <2>. QED  BY <1>1, <2>1, <2>2
<1>4. ASSUME NEW c \in Clients, AddHeaderRefused(c)
      PROVE  ControlOK'
  BY <1>1, <1>4 DEF AddHeaderRefused, Goto
<1>5. ASSUME NEW c \in Clients, NEW n, AddHeaderUnwritten(c, n)
      PROVE  ControlOK'
  <2>1. pc' = [pc EXCEPT ![c] = "undo body"] /\ lock' = NoClient
    BY <1>5 DEF AddHeaderUnwritten, Goto
  <2>2. posts' = posts /\ faults < MaxFaults /\ faults' = faults + 1
    BY <1>5 DEF AddHeaderUnwritten
  <2>. QED  BY <1>1, <2>1, <2>2
<1>6. ASSUME NEW c \in Clients, NEW fields, TextUnwritten(c, fields)
      PROVE  ControlOK'
  BY <1>1, <1>6 DEF TextUnwritten, Goto
<1>7. ASSUME NEW c \in Clients, UndoBody(c) \/ UndoTail(c)
      PROVE  ControlOK'
  BY <1>1, <1>7 DEF UndoBody, UndoTail, Goto
<1>8. ASSUME NEW c \in Clients, PosterDies(c)
      PROVE  ControlOK'
  BY <1>1, <1>8 DEF PosterDies, Goto
<1>9. ASSUME NEW c \in Clients, NEW doomed, MaintStart(c, doomed)
      PROVE  ControlOK'
  BY <1>1, <1>9 DEF MaintStart, Goto
<1>10. ASSUME NEW c \in Clients, MaintEnd(c)
       PROVE  ControlOK'
  BY <1>1, <1>10 DEF MaintEnd, Goto
<1>11. CASE UNCHANGED <<lock, pc, posts, faults>>
  BY <1>11 DEF ControlOK
<1>12. ASSUME NEW c \in Clients, NEW e, Purge(c, e)
       PROVE  ControlOK'
  BY <1>11, <1>12 DEF Purge
<1>13. ASSUME NEW e, FlagDeleted(e)
       PROVE  ControlOK'
  BY <1>11, <1>13 DEF FlagDeleted
<1>14. ASSUME NEW c \in Clients, AddMessage(c)
       PROVE  ControlOK'
  BY <1>2, <1>3, <1>4, <1>5, <1>6, <1>7, <1>8, <1>14 DEF AddMessage
<1>15. ASSUME NEW c \in Clients, Maintain(c)
       PROVE  ControlOK'
  BY <1>9, <1>10, <1>12, <1>15 DEF Maintain
<1>. QED  BY <1>11, <1>13, <1>14, <1>15 DEF Next, vars

\* Which steps leave references behind.
LEMMA LeftSteps ==
    ASSUME [Next]_vars
    PROVE  left' = left \/ \E ms : left' = LeftBehind(ms)
<1>1. ASSUME NEW c \in Clients, AddMessage(c)
      PROVE  left' = left \/ \E ms : left' = LeftBehind(ms)
  <2>1. ASSUME NEW fields, TextUnwritten(c, fields)
        PROVE  left' = left \/ \E ms : left' = LeftBehind(ms)
    BY <2>1 DEF TextUnwritten
  <2>2. ASSUME PosterDies(c)
        PROVE  left' = left \/ \E ms : left' = LeftBehind(ms)
    BY <2>2 DEF PosterDies
  <2>. QED  BY <1>1, <2>1, <2>2
            DEF AddMessage, StoreText, AddHeader, AddHeaderRefused, AddHeaderUnwritten,
                UndoBody, UndoTail
<1>2. ASSUME NEW c \in Clients, Maintain(c)
      PROVE  left' = left \/ \E ms : left' = LeftBehind(ms)
  <2>1. ASSUME MaintEnd(c)
        PROVE  left' = left \/ \E ms : left' = LeftBehind(ms)
    BY <2>1 DEF MaintEnd
  <2>. QED  BY <1>2, <2>1 DEF Maintain, MaintStart, Purge
<1>. QED  BY <1>1, <1>2 DEF Next, FlagDeleted, vars

LEMMA NextGhost == TypeOK /\ [Next]_vars => GhostOK'
<1>. SUFFICES ASSUME TypeOK, [Next]_vars PROVE GhostOK'
  OBVIOUS
<1>1. left \in [Block -> Nat]
  BY DEF TypeOK, GhostOK
<1>2. ASSUME NEW ms PROVE LeftBehind(ms) \in [Block -> Nat]
  BY <1>1 DEF LeftBehind
<1>. QED  BY <1>1, <1>2, LeftSteps DEF GhostOK

LEMMA NextType == TypeOK /\ [Next]_vars => TypeOK'
BY NextTables, NextMessages, NextControl, NextGhost DEF TypeOK

\* The counters of the .sda file, the tables and the state of smb_addmsg and of
\* the maintenance run keep their types, for any message shapes and bounds.
THEOREM TypeCorrect == Spec => []TypeOK
<1>. QED  BY InitType, NextType, PTL DEF Spec

-----------------------------------------------------------------------------
(* Who holds the lock, whose text is whose.                                *)

LEMMA NextLock == TypeOK /\ LockInv /\ [Next]_vars => LockInv'
<1>. SUFFICES ASSUME ControlOK, LockInv, [Next]_vars PROVE LockInv'
  BY DEF TypeOK
<1>0. pc \in [Clients -> {"idle", "stored", "undo body", "undo tail", "maint"}]
  BY DEF ControlOK
<1>1. ASSUME NEW c \in Clients, NEW l, pc' = [pc EXCEPT ![c] = l],
             lock = NoClient, lock' = c
      PROVE  LockInv'
  BY <1>1, <1>0, NoClientAssumption DEF LockInv
<1>2. ASSUME NEW c \in Clients, NEW l \in {"idle", "undo body", "undo tail"},
             pc' = [pc EXCEPT ![c] = l],
             lock' = lock \/ (lock = c /\ lock' = NoClient)
      PROVE  LockInv'
  BY <1>2, <1>0 DEF LockInv
<1>3. ASSUME NEW c \in Clients, AddMessage(c) PROVE LockInv'
  <2>1. CASE \E shape \in Shapes, mode \in Modes : StoreText(c, shape, mode)
    BY <2>1, <1>1 DEF StoreText, Goto
  <2>2. CASE ~\E shape \in Shapes, mode \in Modes : StoreText(c, shape, mode)
    <3>1. pc[c] = "stored" => lock = c
      BY DEF LockInv
    <3>2. lock' = lock \/ (lock = c /\ lock' = NoClient)
      BY <1>3, <2>2, <3>1
         DEF AddMessage, AddHeader, AddHeaderRefused, AddHeaderUnwritten,
             TextUnwritten, UndoBody, UndoTail, PosterDies
    <3>3. \E l \in {"idle", "undo body", "undo tail"} : pc' = [pc EXCEPT ![c] = l]
      BY <1>3, <2>2
         DEF AddMessage, AddHeader, AddHeaderRefused, AddHeaderUnwritten,
             TextUnwritten, UndoBody, UndoTail, PosterDies, Goto
    <3>. QED  BY <3>2, <3>3, <1>2
  <2>. QED  BY <2>1, <2>2
<1>4. ASSUME NEW c \in Clients, Maintain(c) PROVE LockInv'
  <2>1. ASSUME NEW doomed, MaintStart(c, doomed) PROVE LockInv'
    BY <2>1, <1>1 DEF MaintStart, Goto
  <2>2. ASSUME NEW e \in idx, Purge(c, e) PROVE LockInv'
    BY <2>2 DEF Purge, LockInv
  <2>3. ASSUME MaintEnd(c) PROVE LockInv'
    <3>1. lock = c
      BY <2>3 DEF MaintEnd, LockInv
    <3>. QED  BY <3>1, <2>3, <1>2 DEF MaintEnd, Goto
  <2>. QED  BY <1>4, <2>1, <2>2, <2>3 DEF Maintain
<1>5. CASE UNCHANGED <<lock, pc>>
  BY <1>5 DEF LockInv
<1>. QED  BY <1>3, <1>4, <1>5 DEF Next, FlagDeleted, vars

\* Who is busy and which text is in whose hands changes only in AddMessage.
LEMMA NextText == TypeOK /\ TextInv /\ [Next]_vars => TextInv'
<1>. SUFFICES ASSUME TypeOK, TextInv, [Next]_vars PROVE TextInv'
  OBVIOUS
<1>0. /\ pc \in [Clients -> {"idle", "stored", "undo body", "undo tail", "maint"}]
      /\ msg \in [Clients -> MsgType] /\ posts \in Nat
  <2>1. posts \in 0 .. MaxPosts /\ MaxPosts \in Nat
    BY BoundsAssumption DEF TypeOK, ControlOK
  <2>2. posts \in Nat
    BY <2>1
  <2>. QED  BY <2>2 DEF TypeOK, ControlOK, MessagesOK
<1>p. posts \in Nat
  BY <1>0
<1>1. ASSUME NEW c \in Clients, NEW shape \in Shapes, NEW mode \in Modes,
             StoreText(c, shape, mode)
      PROVE  TextInv'
  <2>1. /\ pc[c] = "idle" /\ pc' = [pc EXCEPT ![c] = "stored"]
        /\ posts' = posts + 1 /\ idx' = idx
        /\ \E m : m.text = posts + 1 /\ msg' = [msg EXCEPT ![c] = m]
    BY <1>1 DEF StoreText, Goto
  <2>2. msg'[c].text = posts + 1 /\ \A d \in Clients \ {c} : msg'[d] = msg[d] /\ pc'[d] = pc[d]
    BY <2>1, <1>0
  <2>3. \A e \in idx : e.m.text \in 1 .. posts
    BY DEF TextInv
  <2>4. \A d \in Clients \ {c} : /\ Busy(d)' <=> Busy(d)
                                 /\ Busy(d) => msg'[d].text \in 1 .. posts
    BY <2>2 DEF TextInv, Busy
  <2>5. \A e, f \in idx : e.m.text = f.m.text => e = f
    BY DEF TextInv
  <2>6. \A d \in Clients : Busy(d)' => \A e \in idx : e.m.text # msg'[d].text
    <3>1. \A e \in idx : e.m.text # msg'[c].text
      BY <2>2, <2>3, <1>p
    <3>2. \A d \in Clients \ {c} : Busy(d)' => \A e \in idx : e.m.text # msg'[d].text
      <4>1. \A d \in Clients : Busy(d) => \A e \in idx : e.m.text # msg[d].text
        BY DEF TextInv
      <4>. QED  BY <4>1, <2>2 DEF Busy
    <3>. QED  BY <3>1, <3>2
  <2>a. \A d \in Clients \ {c} : Busy(d)' => msg'[d].text \in 1 .. posts
    BY <2>2, <2>4 DEF Busy
  <2>b. \A d \in Clients \ {c} : Busy(d)' => msg'[d].text # msg'[c].text
    BY <2>a, <2>2, <1>p
  <2>7. \A d, k \in Clients : Busy(d)' /\ Busy(k)' /\ msg'[d].text = msg'[k].text => d = k
    <3>1. \A d, k \in Clients \ {c} :
             Busy(d)' /\ Busy(k)' /\ msg'[d].text = msg'[k].text => d = k
      BY <2>2, <2>4 DEF TextInv, Busy
    <3>. QED  BY <3>1, <2>b
  <2>8. \A d \in Clients : Busy(d)' => msg'[d].text \in 1 .. posts'
    <3>1. \A d \in Clients \ {c} : Busy(d)' => msg'[d].text \in 1 .. posts'
      BY <2>a, <2>1, <1>p
    <3>2. msg'[c].text \in 1 .. posts'
      BY <2>1, <2>2, <1>p
    <3>. QED  BY <3>1, <3>2
  <2>9. \A e \in idx : e.m.text \in 1 .. posts'
    BY <2>1, <2>3, <1>p
  <2>. QED  BY <2>1, <2>5, <2>6, <2>7, <2>8, <2>9 DEF TextInv
<1>2. ASSUME NEW c \in Clients, NEW n \in HdrBlocks, AddHeader(c, n)
      PROVE  TextInv'
  <2>1. /\ pc[c] = "stored" /\ pc' = [pc EXCEPT ![c] = "idle"]
        /\ \E e : e.m = msg[c] /\ idx' = idx \cup {e}
        /\ UNCHANGED <<msg, posts>>
    BY <1>2 DEF AddHeader, Goto
  <2>2. PICK new : new.m = msg[c] /\ idx' = idx \cup {new}
    BY <2>1
  <2>3. Busy(c) /\ \A d \in Clients : Busy(d)' => d # c /\ Busy(d)
    BY <2>1, <1>0 DEF Busy
  <2>4. new.m.text \in 1 .. posts /\ \A e \in idx : e.m.text # new.m.text
    BY <2>2, <2>3, <1>0 DEF TextInv
  <2>5. \A e \in idx' : e.m.text \in 1 .. posts
    BY <2>2, <2>4, <1>0 DEF TextInv
  <2>6. \A e, f \in idx' : e.m.text = f.m.text => e = f
    BY <2>2, <2>4, <1>0 DEF TextInv
  <2>7. \A d \in Clients : Busy(d)' => \A e \in idx' : e.m.text # msg[d].text
    BY <2>2, <2>3, <1>0 DEF TextInv
  <2>8. \A d \in Clients : Busy(d)' => msg[d].text \in 1 .. posts
    BY <2>3, <1>0 DEF TextInv
  <2>9. \A d, k \in Clients :
            Busy(d)' /\ Busy(k)' /\ msg[d].text = msg[k].text => d = k
    BY <2>3, <1>0 DEF TextInv
  <2>. QED  BY <2>1, <2>5, <2>6, <2>7, <2>8, <2>9 DEF TextInv
<1>3. ASSUME NEW c \in Clients, NEW fields, TextUnwritten(c, fields)
      PROVE  TextInv'
  <2>1. /\ pc[c] = "stored" /\ pc' = [pc EXCEPT ![c] = "undo body"]
        /\ \A d \in Clients : msg'[d].text = msg[d].text
        /\ UNCHANGED <<idx, posts>>
    BY <1>3, <1>0 DEF TextUnwritten, Goto, Recorded
  <2>. QED  BY <2>1, <1>0 DEF TextInv, Busy
<1>4. ASSUME NEW c \in Clients,
             \/ AddHeaderRefused(c) \/ UndoBody(c) \/ UndoTail(c) \/ PosterDies(c)
             \/ \E n \in HdrBlocks : AddHeaderUnwritten(c, n)
      PROVE  TextInv'
  <2>1. /\ Busy(c) /\ \E l : pc' = [pc EXCEPT ![c] = l]
        /\ UNCHANGED <<idx, msg, posts>>
    BY <1>4 DEF AddHeaderRefused, AddHeaderUnwritten, UndoBody, UndoTail, PosterDies,
                Goto, Busy
  <2>. QED  BY <2>1, <1>0 DEF TextInv, Busy
<1>5. ASSUME NEW e \in idx, NEW freed, idx' = (idx \ {e}) \cup {Flagged(e, freed)},
             UNCHANGED <<pc, msg, posts>>
      PROVE  TextInv'
  <2>1. Flagged(e, freed).m = e.m
    BY DEF Flagged
  <2>2. \A f \in idx' : \E g \in idx : f.m = g.m /\ (g # e => f = g)
                                       /\ (g = e => f = Flagged(e, freed))
    BY <2>1, <1>5
  <2>3. \A c \in Clients : Busy(c)' <=> Busy(c)
    BY <1>5 DEF Busy
  <2>4. \A f, g \in idx' : f.m.text = g.m.text => f = g
    BY <2>2 DEF TextInv
  <2>5. \A f \in idx' : f.m.text \in 1 .. posts'
    BY <2>2, <1>5 DEF TextInv
  <2>6. \A c \in Clients : Busy(c)' => \A f \in idx' : f.m.text # msg'[c].text
    BY <2>2, <2>3, <1>5 DEF TextInv
  <2>. QED  BY <2>3, <2>4, <2>5, <2>6, <1>5 DEF TextInv
<1>6. ASSUME NEW c \in Clients, Maintain(c) PROVE TextInv'
  <2>1. ASSUME NEW e \in idx, Purge(c, e) PROVE TextInv'
    BY <2>1, <1>5 DEF Purge
  <2>2. ASSUME idx' \subseteq idx, UNCHANGED <<msg, posts>>,
               pc[c] \in {"idle", "maint"}, \E l \in {"idle", "maint"} : pc' = [pc EXCEPT ![c] = l]
        PROVE  TextInv'
    BY <2>2, <1>0 DEF TextInv, Busy
  <2>. QED  BY <1>6, <2>1, <2>2 DEF Maintain, MaintStart, MaintEnd, Goto
<1>7. ASSUME NEW e \in idx, FlagDeleted(e) PROVE TextInv'
  BY <1>7, <1>5 DEF FlagDeleted
<1>8. CASE UNCHANGED vars
  BY <1>8 DEF vars, TextInv, Busy
<1>. QED  BY <1>1, <1>2, <1>3, <1>4, <1>6, <1>7, <1>8 DEF Next, AddMessage

\* Only maintenance leaves freed messages in the index, and it removes them
\* before it unlocks the base.
LEMMA NextFreed ==
    TypeOK /\ LockInv /\ TextInv /\ FreedInv /\ [Next]_vars => FreedInv'
<1>. SUFFICES ASSUME ControlOK, LockInv, TextInv, FreedInv, [Next]_vars PROVE FreedInv'
  BY DEF TypeOK
<1>1. ASSUME NEW c \in Clients, AddMessage(c) PROVE FreedInv'
  <2>1. /\ pc[c] # "maint" /\ \E l : pc' = [pc EXCEPT ![c] = l]
        /\ todo' = todo
        /\ \A e \in idx' : e \in idx \/ ~e.freed
    <3>1. ASSUME NEW n \in HdrBlocks, AddHeader(c, n)
          PROVE  \A e \in idx' : e \in idx \/ ~e.freed
      BY <3>1 DEF AddHeader
    <3>2. idx' = idx \/ \E n \in HdrBlocks : AddHeader(c, n)
      BY <1>1 DEF AddMessage, StoreText, AddHeader, AddHeaderRefused, AddHeaderUnwritten,
                  TextUnwritten, UndoBody, UndoTail, PosterDies
    <3>3. pc[c] # "maint" /\ (\E l : pc' = [pc EXCEPT ![c] = l]) /\ todo' = todo
      BY <1>1 DEF AddMessage, StoreText, AddHeader, AddHeaderRefused, AddHeaderUnwritten,
                  TextUnwritten, UndoBody, UndoTail, PosterDies, Goto
    <3>. QED  BY <3>1, <3>2, <3>3
  <2>. QED  BY <2>1 DEF FreedInv, ControlOK
<1>2. ASSUME NEW c \in Clients, NEW doomed, MaintStart(c, doomed) PROVE FreedInv'
  <2>1. \A d \in Clients : pc[d] # "maint"
    BY <1>2, NoClientAssumption DEF MaintStart, LockInv
  <2>. QED  BY <2>1, <1>2 DEF MaintStart, FreedInv
<1>3. ASSUME NEW c \in Clients, NEW e \in idx, Purge(c, e) PROVE FreedInv'
  <2>1. \A f \in idx' : f \in idx \ {e} \/ (f.del /\ f.m = e.m)
    BY <1>3 DEF Purge, Flagged
  <2>2. \A f \in idx' : f.freed => f.del /\ f.m.text \notin todo'
    BY <2>1, <1>3 DEF Purge, FreedInv
  <2>. QED  BY <2>2, <1>3 DEF Purge, FreedInv
<1>4. ASSUME NEW c \in Clients, MaintEnd(c) PROVE FreedInv'
  BY <1>4 DEF MaintEnd, FreedInv
<1>5. ASSUME NEW e \in idx, FlagDeleted(e) PROVE FreedInv'
  <2>1. Flagged(e, FALSE).freed = FALSE
    BY DEF Flagged
  <2>. QED  BY <2>1, <1>5 DEF FlagDeleted, FreedInv
<1>6. CASE UNCHANGED vars
  BY <1>6 DEF vars, FreedInv
<1>. QED  BY <1>1, <1>2, <1>3, <1>4, <1>5, <1>6 DEF Next, Maintain

-----------------------------------------------------------------------------
(* The header blocks.                                                      *)

LEMMA EntryBlocks ==
    ASSUME NEW e \in EntryType
    PROVE  e.hblk \in Nat /\ e.hlen \in Nat /\ e.m \in MsgType
<1>1. e.hblk \in 0 .. MaxBlocks /\ e.hlen \in HdrBlocks /\ e.m \in MsgType
  BY DEF EntryType
<1>2. 0 .. MaxBlocks \subseteq Nat /\ HdrBlocks \subseteq Nat
  BY MaxBlocksAssumption, HdrBlocksAssumption
<1>. QED  BY <1>1, <1>2

\* Taking the blocks from b on disturbs no header that is in the index.
LEMMA HeaderBlocksTaken ==
    ASSUME TypeOK, HeaderInv, NEW c \in Clients, NEW n \in HdrBlocks,
           AddHeader(c, n) \/ AddHeaderUnwritten(c, n)
    PROVE  LET b == PlaceHeader(c, n)
           IN  /\ \A e \in Kept : HdrExtent(e) \cap (b .. b + n - 1) = {}
               /\ \A e \in Kept : \A k \in HdrExtent(e) :
                     k < HeaderEnd' /\ (~Hyper => sha'[k] = 1)
               /\ AddHeader(c, n) => \A k \in b .. b + n - 1 :
                     k < HeaderEnd' /\ (~Hyper => sha'[k] = 1)
<1>. DEFINE b == PlaceHeader(c, n)
<1>1. /\ n \in Nat /\ b \in Nat /\ b + n \in 0 .. MaxBlocks
      /\ Hyper => b = shdLen
      /\ ~Hyper => \A k \in b .. b + n - 1 : k < shaLen => sha[k] = 0
  BY HeaderPlace, MaxBlocksAssumption
<1>2. /\ sha' = IF Hyper THEN sha ELSE MarkUsed(sha, b, n)
      /\ shaLen' = IF Hyper THEN shaLen ELSE LargerOf(shaLen, b + n)
      /\ shdLen' = shdLen \/ shdLen' = LargerOf(shdLen, b + n)
      /\ AddHeader(c, n) => shdLen' = LargerOf(shdLen, b + n)
  BY DEF AddHeader, AddHeaderUnwritten, TakeHeaderBlocks
<1>. HIDE DEF b
<1>3. sha \in [Block -> {0, 1}] /\ shaLen \in Nat /\ shdLen \in Nat
  BY MaxBlocksAssumption DEF TypeOK, TablesOK
<1>4. \A k \in Block : MarkUsed(sha, b, n)[k] =
                          IF k \in b .. b + n - 1 THEN 1 ELSE sha[k]
  BY <1>3, MarkUsedValue
<1>5. /\ HeaderEnd' >= HeaderEnd
      /\ AddHeader(c, n) => HeaderEnd' >= b + n
  BY <1>1, <1>2, <1>3 DEF HeaderEnd, LargerOf
<1>6. ASSUME NEW e \in Kept, NEW k \in HdrExtent(e)
      PROVE  k \notin b .. b + n - 1 /\ k < HeaderEnd' /\ (~Hyper => sha'[k] = 1)
  <2>1. k \in Int /\ k < HeaderEnd /\ (~Hyper => sha[k] = 1)
    <3>1. e \in EntryType
      BY DEF Kept, TypeOK, MessagesOK
    <3>2. e.hblk \in Nat /\ e.hlen \in Nat
      BY <3>1, EntryBlocks
    <3>. QED  BY <3>2 DEF HeaderInv, HdrExtent
  <2>2. k >= 0
    <3>1. e \in EntryType
      BY DEF Kept, TypeOK, MessagesOK
    <3>2. e.hblk \in Nat /\ e.hlen \in Nat
      BY <3>1, EntryBlocks
    <3>. QED  BY <3>2 DEF HdrExtent
  <2>3. k \notin b .. b + n - 1
    BY <2>1, <1>1, <1>3 DEF HeaderEnd
  <2>4. HeaderEnd \in 0 .. MaxBlocks
    BY DEF HeaderEnd, TypeOK, TablesOK
  <2>5. k \in Block
    BY <2>1, <2>2, <2>4, MaxBlocksAssumption
  <2>6. k < HeaderEnd'
    <3>1. HeaderEnd' \in Nat /\ HeaderEnd \in Nat
      BY <1>1, <1>2, <1>3 DEF HeaderEnd, LargerOf
    <3>. QED  BY <3>1, <2>1, <1>5
  <2>. QED  BY <2>1, <2>3, <2>5, <2>6, <1>2, <1>4
<1>7. ASSUME AddHeader(c, n), NEW k \in b .. b + n - 1
      PROVE  k < HeaderEnd' /\ (~Hyper => sha'[k] = 1)
  <2>1. k \in Block
    BY <1>1, MaxBlocksAssumption
  <2>2. HeaderEnd' \in Nat
    BY <1>1, <1>2, <1>3 DEF HeaderEnd, LargerOf
  <2>3. k < HeaderEnd'
    BY <1>1, <1>5, <1>7, <2>2
  <2>. QED  BY <2>1, <2>3, <1>2, <1>4
<1>. QED  BY <1>6, <1>7 DEF b

LEMMA NextHeader ==
    TypeOK /\ LockInv /\ TextInv /\ FreedInv /\ HeaderInv /\ [Next]_vars => HeaderInv'
<1>. SUFFICES ASSUME TypeOK, LockInv, TextInv, FreedInv, HeaderInv, [Next]_vars
              PROVE  HeaderInv'
  OBVIOUS
<1>1. ASSUME NEW c \in Clients, NEW n \in HdrBlocks, AddHeader(c, n)
      PROVE  HeaderInv'
  <2>. DEFINE b == PlaceHeader(c, n)
              new == [m |-> msg[c], hblk |-> b, hlen |-> n,
                      del |-> FALSE, freed |-> FALSE]
  <2>1. Kept' = Kept \cup {new}
    BY <1>1 DEF AddHeader, Kept
  <2>2. HdrExtent(new) = b .. b + n - 1
    BY DEF HdrExtent
  <2>3. /\ \A e \in Kept : HdrExtent(e) \cap HdrExtent(new) = {}
        /\ \A e \in Kept \cup {new} : \A k \in HdrExtent(e) :
              k < HeaderEnd' /\ (~Hyper => sha'[k] = 1)
    <3>. HIDE DEF new
    <3>1. /\ \A e \in Kept : HdrExtent(e) \cap (b .. b + n - 1) = {}
          /\ \A e \in Kept : \A k \in HdrExtent(e) :
                k < HeaderEnd' /\ (~Hyper => sha'[k] = 1)
          /\ \A k \in b .. b + n - 1 : k < HeaderEnd' /\ (~Hyper => sha'[k] = 1)
      BY <1>1, HeaderBlocksTaken
    <3>. HIDE DEF b
    <3>. QED  BY <2>2, <3>1
  <2>. HIDE DEF new, b
  <2>4. \A e, f \in Kept \cup {new} :
           e.m.text # f.m.text => HdrExtent(e) \cap HdrExtent(f) = {}
    BY <2>3 DEF HeaderInv
  <2>. QED  BY <2>1, <2>3, <2>4 DEF HeaderInv
<1>2. ASSUME NEW c \in Clients, NEW n \in HdrBlocks, AddHeaderUnwritten(c, n)
      PROVE  HeaderInv'
  <2>1. Kept' = Kept
    BY <1>2 DEF AddHeaderUnwritten, Kept
  <2>2. \A e \in Kept : \A k \in HdrExtent(e) :
              k < HeaderEnd' /\ (~Hyper => sha'[k] = 1)
    BY <1>2, HeaderBlocksTaken
  <2>. QED  BY <2>1, <2>2 DEF HeaderInv
<1>3. ASSUME NEW c \in Clients, NEW e \in idx, Purge(c, e)
      PROVE  HeaderInv'
  <2>1. Kept' = Kept \ {e}
    <3>1. Flagged(e, TRUE).freed = TRUE
      BY DEF Flagged
    <3>. QED  BY <3>1, <1>3 DEF Purge, Kept
  <2>2. e \in Kept
    BY <1>3 DEF Purge, FreedInv, Kept
  <2>3. \A f \in Kept \ {e} : HdrExtent(f) \cap HdrExtent(e) = {}
    <3>1. \A f \in Kept \ {e} : f.m.text # e.m.text
      BY DEF TextInv, Kept
    <3>. QED  BY <3>1, <2>2 DEF HeaderInv
  <2>4. ASSUME ~Hyper, NEW f \in Kept \ {e}, NEW k \in HdrExtent(f)
        PROVE  sha'[k] = 1
    <3>1. k \notin HdrExtent(e) /\ sha[k] = 1
      BY <2>3, <2>4 DEF HeaderInv
    <3>2. k \in Block
      <4>1. f \in EntryType /\ k < HeaderEnd
        BY <2>4 DEF Kept, TypeOK, MessagesOK, HeaderInv
      <4>2. f.hblk \in Nat /\ f.hlen \in Nat
        BY <4>1, EntryBlocks
      <4>3. HeaderEnd \in 0 .. MaxBlocks
        BY DEF HeaderEnd, TypeOK, TablesOK
      <4>. QED  BY <4>1, <4>2, <4>3, MaxBlocksAssumption DEF HdrExtent
    <3>. QED  BY <3>1, <3>2, <1>3, <2>4 DEF Purge, FreeHeader
  <2>5. HeaderEnd' = HeaderEnd
    BY <1>3 DEF Purge, HeaderEnd
  <2>. QED  BY <2>1, <2>4, <2>5 DEF HeaderInv
<1>4. ASSUME NEW e \in idx, FlagDeleted(e)
      PROVE  HeaderInv'
  <2>1. /\ Flagged(e, FALSE).m = e.m
        /\ HdrExtent(Flagged(e, FALSE)) = HdrExtent(e)
    BY DEF Flagged, HdrExtent
  <2>2. e \in Kept
    <3>1. \A c \in Clients : pc[c] # "maint"
      BY <1>4, NoClientAssumption DEF FlagDeleted, LockInv
    <3>. QED  BY <3>1 DEF FreedInv, Kept
  <2>3. \A f \in Kept' : \E g \in Kept : g.m = f.m /\ HdrExtent(g) = HdrExtent(f)
    <3>1. Kept' \subseteq Kept \cup {Flagged(e, FALSE)}
      BY <1>4 DEF FlagDeleted, Kept
    <3>. QED  BY <3>1, <2>1, <2>2
  <2>4. sha' = sha /\ HeaderEnd' = HeaderEnd
    BY <1>4 DEF FlagDeleted, tables, HeaderEnd
  <2>. QED  BY <2>3, <2>4 DEF HeaderInv
<1>5. ASSUME idx' \subseteq idx, UNCHANGED <<sha, shaLen, shdLen>>
      PROVE  HeaderInv'
  BY <1>5 DEF HeaderInv, Kept, HeaderEnd
<1>6. ASSUME NEW c \in Clients, AddMessage(c)
      PROVE  HeaderInv'
  BY <1>6, <1>1, <1>2, <1>5
     DEF AddMessage, StoreText, AddHeaderRefused, TextUnwritten, UndoBody, UndoTail,
         PosterDies, tables
<1>7. ASSUME NEW c \in Clients, Maintain(c)
      PROVE  HeaderInv'
  BY <1>7, <1>3, <1>5 DEF Maintain, MaintStart, MaintEnd, tables
<1>8. CASE UNCHANGED vars
  BY <1>8, <1>5 DEF vars, tables
<1>. QED  BY <1>4, <1>6, <1>7, <1>8 DEF Next

LEMMA InitHeaderInd == Init => HeaderIndInv
<1>. SUFFICES ASSUME Init PROVE HeaderIndInv
  OBVIOUS
<1>1. TypeOK
  BY InitType
<1>2. LockInv /\ TextInv /\ FreedInv /\ HeaderInv
  BY DEF Init, LockInv, TextInv, FreedInv, HeaderInv, Busy, Kept
<1>. QED  BY <1>1, <1>2 DEF HeaderIndInv

LEMMA NextHeaderInd == HeaderIndInv /\ [Next]_vars => HeaderIndInv'
BY NextType, NextLock, NextText, NextFreed, NextHeader DEF HeaderIndInv

LEMMA HeaderIndImplies == HeaderIndInv => HeadersDisjoint
<1>. SUFFICES ASSUME HeaderIndInv PROVE HeadersDisjoint
  OBVIOUS
<1>1. Readable \subseteq Kept
  BY DEF HeaderIndInv, FreedInv, Readable, Kept
<1>. QED  BY <1>1 DEF HeaderIndInv, HeaderInv, HeadersDisjoint

\* No two messages that can be reached share a block of the header file, and
\* all their header blocks are marked as allocated: for every number of clients,
\* every storage mode and every way smb_addmsg can fail.
THEOREM HeadersSafe == Spec => []HeadersDisjoint
<1>1. Init => HeaderIndInv
  BY InitHeaderInd
<1>2. HeaderIndInv /\ [Next]_vars => HeaderIndInv'
  BY NextHeaderInd
<1>3. HeaderIndInv => HeadersDisjoint
  BY HeaderIndImplies
<1>. QED  BY <1>1, <1>2, <1>3, PTL DEF Spec

-----------------------------------------------------------------------------
(* The data blocks, for messages that have a body only, or with nothing to *)
(* undo.                                                                   *)

LEMMA MsgBlocks ==
    ASSUME NEW m \in MsgType
    PROVE  m.blk \in Nat /\ m.body \in Nat /\ m.tail \in Nat
<1>1. m.blk \in 0 .. MaxBlocks /\ m.body \in Nat /\ m.tail \in Nat
  BY DEF MsgType
<1>2. 0 .. MaxBlocks \subseteq Nat
  BY MaxBlocksAssumption
<1>. QED  BY <1>1, <1>2

LEMMA OwnersType == TypeOK => Owners \subseteq MsgType
<1>. SUFFICES ASSUME TypeOK, NEW m \in Owners PROVE m \in MsgType
  OBVIOUS
<1>1. CASE \E e \in Kept : m = e.m
  BY <1>1, EntryBlocks DEF Kept, TypeOK, MessagesOK
<1>2. CASE \E c \in Clients : m = msg[c]
  BY <1>2 DEF TypeOK, MessagesOK
<1>. QED  BY <1>1, <1>2 DEF Owners

\* Two owners with the same text are the same message, and the owner a busy
\* client has in hand is not in the index.
LEMMA OwnersUnique ==
    TextInv => \A m, k \in Owners : m.text = k.text => m = k
<1>. SUFFICES ASSUME TextInv, NEW m \in Owners, NEW k \in Owners, m.text = k.text
              PROVE  m = k
  OBVIOUS
<1>1. (\E e \in Kept : m = e.m) \/ (\E c \in Clients : Counted(c) /\ m = msg[c])
  BY DEF Owners
<1>2. (\E e \in Kept : k = e.m) \/ (\E c \in Clients : Counted(c) /\ k = msg[c])
  BY DEF Owners
<1>3. \A c \in Clients : Counted(c) => Busy(c)
  BY DEF Counted, Busy
<1>. QED  BY <1>1, <1>2, <1>3 DEF TextInv, Kept

LEMMA OwnersExtent ==
    ASSUME TypeOK, DataInv, NEW m \in Owners, NEW b \in Extent(m)
    PROVE  b \in Block /\ b < DataEnd /\ (~Hyper => sda[b] > 0)
<1>1. b < DataEnd /\ (~Hyper => sda[b] > 0)
  BY DEF DataInv
<1>2. m.blk \in Nat /\ DatBlocks(m.body + m.tail) \in Nat
  BY OwnersType, MsgBlocks, DatBlocksType
<1>3. b \in Nat
  BY <1>2 DEF Extent
<1>4. DataEnd \in 0 .. MaxBlocks
  BY DEF TypeOK, TablesOK, DataEnd
<1>5. b \in Block
  BY <1>1, <1>3, <1>4, MaxBlocksAssumption
<1>. QED  BY <1>1, <1>5

\* What the undoing of a text frees belongs to no text that is left.
LEMMA UndoBodyFrees ==
    ASSUME TypeOK, TextInv, NEW c \in Clients, UndoBody(c)
    PROVE  /\ msg[c] \in Owners /\ Owners' \subseteq Owners
           /\ \A m \in Owners' : m.text # msg[c].text
           /\ ~Hyper => \A b \in Block \ Extent(msg[c]) : sda'[b] = sda[b]
<1>1. /\ pc[c] = "undo body" /\ pc' = [pc EXCEPT ![c] = "undo tail"]
      /\ sda' = IF Hyper THEN sda ELSE FreeField(sda, msg[c], "body")
      /\ UNCHANGED <<idx, msg>>
  BY DEF UndoBody, Goto
<1>2. Counted(c) /\ Busy(c)
  BY <1>1 DEF Counted, Busy
<1>3. \A d \in Clients : Counted(d)' => Counted(d) /\ d # c
  BY <1>1 DEF Counted, TypeOK, ControlOK
<1>4. Owners' \subseteq Owners
  BY <1>1, <1>3 DEF Owners, Kept
<1>5. \A m \in Owners' : m.text # msg[c].text
  <2>1. \A e \in Kept : e.m.text # msg[c].text
    BY <1>2 DEF TextInv, Kept
  <2>2. \A d \in Clients : Counted(d)' => msg[d].text # msg[c].text
    BY <1>2, <1>3 DEF TextInv, Counted, Busy
  <2>. QED  BY <2>1, <2>2, <1>1 DEF Owners, Kept
<1>6. msg[c] \in Owners
  BY <1>2 DEF Owners
<1>7. msg[c] \in MsgType /\ sda \in [Block -> Refs]
  BY DEF TypeOK, MessagesOK, TablesOK
<1>8. \A b \in Block \ Extent(msg[c]) : FreeField(sda, msg[c], "body")[b] = sda[b]
  BY <1>7, MsgBlocks, FieldsInside
<1>. QED  BY <1>1, <1>4, <1>5, <1>6, <1>8

\* So does what the purge of a message frees.
LEMMA PurgeFrees ==
    ASSUME TypeOK, TextInv, FreedInv, NEW c \in Clients, NEW e \in idx, Purge(c, e)
    PROVE  /\ e.m \in Owners /\ Owners' = Owners \ {e.m}
           /\ \A m \in Owners' : m.text # e.m.text
           /\ ~Hyper => \A b \in Block \ Extent(e.m) : sda'[b] = sda[b]
<1>1. /\ idx' = (idx \ {e}) \cup {Flagged(e, TRUE)}
      /\ sda' = IF Hyper THEN sda ELSE FreeFields(sda, e.m)
      /\ UNCHANGED <<pc, msg>>
  BY DEF Purge
<1>2. e \in Kept
  BY DEF Purge, FreedInv, Kept
<1>3. Kept' = Kept \ {e}
  <2>1. Flagged(e, TRUE).freed = TRUE
    BY DEF Flagged
  <2>. QED  BY <2>1, <1>1 DEF Kept
<1>4. e.m \in MsgType /\ e.m \in Owners
  BY <1>2, EntryBlocks DEF Owners, TypeOK, MessagesOK
<1>5. sda \in [Block -> Refs]
  BY DEF TypeOK, TablesOK
<1>6. \A f \in Kept \ {e} : f.m.text # e.m.text
  BY DEF TextInv, Kept
<1>7. \A d \in Clients : Counted(d) => msg[d].text # e.m.text
  BY DEF TextInv, Counted, Busy
<1>8. Owners' = {f.m : f \in Kept \ {e}} \cup {msg[d] : d \in {k \in Clients : Counted(k)}}
  BY <1>1, <1>3 DEF Owners, Counted
<1>9. \A m \in Owners' : m.text # e.m.text
  BY <1>6, <1>7, <1>8
<1>10. Owners' = Owners \ {e.m}
  BY <1>8, <1>9 DEF Owners
<1>11. \A b \in Block \ Extent(e.m) : FreeFields(sda, e.m)[b] = sda[b]
  BY <1>4, <1>5, MsgBlocks, FieldsInside
<1>. QED  BY <1>1, <1>4, <1>9, <1>10, <1>11

\* A text without a tail has no second field to free.
LEMMA UndoTailFrees ==
    ASSUME TypeOK, NEW c \in Clients, UndoTail(c),
           (OneFieldInv /\ OneFieldIdx) \/ NothingUndone
    PROVE  sda' = sda
<1>1. msg[c] \in MsgType /\ msg[c].tail = 0
  BY DEF UndoTail, OneFieldInv, Busy, NothingUndone, TypeOK, MessagesOK
<1>2. sda \in [Block -> Refs]
  BY DEF TypeOK, TablesOK
<1>3. FreeField(sda, msg[c], "tail") = sda
  BY <1>1, <1>2, MsgBlocks, OneFieldBlocks, FreeFieldNothing
<1>. QED  BY <1>3 DEF UndoTail

\* A step keeps DataInv if it adds no owner and frees none of their blocks.
LEMMA DataKeep ==
    ASSUME DataInv, Owners' \subseteq Owners, DataEnd' = DataEnd,
           ~Hyper => \A m \in Owners' : \A b \in Extent(m) : sda'[b] = sda[b]
    PROVE  DataInv'
BY DEF DataInv

LEMMA NextOneField ==
    ASSUME OneField
    PROVE  TypeOK /\ OneFieldInv /\ OneFieldIdx /\ [Next]_vars => OneFieldInv' /\ OneFieldIdx'
<1>. SUFFICES ASSUME TypeOK, OneFieldInv, OneFieldIdx, [Next]_vars
              PROVE  OneFieldInv' /\ OneFieldIdx'
  OBVIOUS
<1>0. pc \in [Clients -> {"idle", "stored", "undo body", "undo tail", "maint"}]
  BY DEF TypeOK, ControlOK
<1>m. msg \in [Clients -> MsgType]
  BY DEF TypeOK, MessagesOK
<1>1. ASSUME NEW c \in Clients, NEW shape \in Shapes, NEW mode \in Modes,
             StoreText(c, shape, mode)
      PROVE  OneFieldInv' /\ OneFieldIdx'
  <2>1. /\ \E m : m.tail = 0 /\ msg' = [msg EXCEPT ![c] = m]
        /\ pc' = [pc EXCEPT ![c] = "stored"] /\ idx' = idx
    BY <1>1 DEF StoreText, Goto, OneField
  <2>2. msg'[c].tail = 0 /\ \A d \in Clients \ {c} : msg'[d] = msg[d] /\ pc'[d] = pc[d]
    BY <2>1, <1>0, <1>m
  <2>. QED  BY <2>1, <2>2 DEF OneFieldInv, OneFieldIdx, Busy
<1>2. ASSUME NEW c \in Clients, NEW n \in HdrBlocks, AddHeader(c, n)
      PROVE  OneFieldInv' /\ OneFieldIdx'
  <2>1. /\ pc' = [pc EXCEPT ![c] = "idle"] /\ msg' = msg /\ Busy(c)
        /\ \E e : e.m = msg[c] /\ idx' = idx \cup {e}
    BY <1>2 DEF AddHeader, Goto, Busy
  <2>. QED  BY <2>1, <1>0 DEF OneFieldInv, OneFieldIdx, Busy
<1>3. ASSUME NEW c \in Clients, NEW fields, TextUnwritten(c, fields)
      PROVE  OneFieldInv' /\ OneFieldIdx'
  <2>1. /\ Busy(c) /\ pc' = [pc EXCEPT ![c] = "undo body"] /\ idx' = idx
        /\ msg' = [msg EXCEPT ![c] = Recorded(@, fields)]
    BY <1>3 DEF TextUnwritten, Goto, Busy
  <2>2. \A d \in Clients \ {c} : msg'[d] = msg[d] /\ pc'[d] = pc[d]
    BY <2>1, <1>0, <1>m
  <2>3. msg'[c].tail = 0
    BY <2>1, <1>m DEF Recorded, OneFieldInv
  <2>. QED  BY <2>1, <2>2, <2>3 DEF OneFieldInv, OneFieldIdx, Busy
<1>4. ASSUME NEW c \in Clients,
             \/ AddHeaderRefused(c) \/ UndoBody(c) \/ UndoTail(c) \/ PosterDies(c)
             \/ \E n \in HdrBlocks : AddHeaderUnwritten(c, n)
      PROVE  OneFieldInv' /\ OneFieldIdx'
  <2>1. /\ Busy(c) /\ \E l : pc' = [pc EXCEPT ![c] = l]
        /\ UNCHANGED <<idx, msg>>
    BY <1>4 DEF AddHeaderRefused, AddHeaderUnwritten, UndoBody, UndoTail, PosterDies,
                Goto, Busy
  <2>. QED  BY <2>1, <1>0 DEF OneFieldInv, OneFieldIdx, Busy
<1>5. ASSUME NEW e \in idx, NEW freed, idx' = (idx \ {e}) \cup {Flagged(e, freed)},
             UNCHANGED <<pc, msg>>
      PROVE  OneFieldInv' /\ OneFieldIdx'
  <2>1. Flagged(e, freed).m = e.m
    BY DEF Flagged
  <2>. QED  BY <2>1, <1>5 DEF OneFieldInv, OneFieldIdx, Busy
<1>6. ASSUME NEW c \in Clients, Maintain(c)
      PROVE  OneFieldInv' /\ OneFieldIdx'
  <2>1. ASSUME NEW e \in idx, Purge(c, e) PROVE OneFieldInv' /\ OneFieldIdx'
    BY <2>1, <1>5 DEF Purge
  <2>2. ASSUME idx' \subseteq idx, UNCHANGED msg,
               pc[c] \in {"idle", "maint"}, \E l \in {"idle", "maint"} : pc' = [pc EXCEPT ![c] = l]
        PROVE  OneFieldInv' /\ OneFieldIdx'
    BY <2>2, <1>0 DEF OneFieldInv, OneFieldIdx, Busy
  <2>. QED  BY <1>6, <2>1, <2>2 DEF Maintain, MaintStart, MaintEnd, Goto
<1>7. ASSUME NEW e \in idx, FlagDeleted(e) PROVE OneFieldInv' /\ OneFieldIdx'
  BY <1>7, <1>5 DEF FlagDeleted
<1>8. CASE UNCHANGED vars
  BY <1>8 DEF vars, OneFieldInv, OneFieldIdx, Busy
<1>. QED  BY <1>1, <1>2, <1>3, <1>4, <1>6, <1>7, <1>8 DEF Next, AddMessage

LEMMA NextField ==
    TypeOK /\ TypeOK' /\ FieldInv /\ [Next]_vars => FieldInv'
<1>. SUFFICES ASSUME TypeOK, TypeOK', FieldInv, [Next]_vars PROVE FieldInv'
  OBVIOUS
<1>1. OneField => OneFieldInv' /\ OneFieldIdx'
  BY NextOneField DEF FieldInv
<1>2. ASSUME faults' = 0 PROVE NothingUndone'
  <2>0. pc \in [Clients -> {"idle", "stored", "undo body", "undo tail", "maint"}]
    BY DEF TypeOK, ControlOK
  <2>a. faults \in Nat
    <3>1. faults \in 0 .. MaxFaults
      BY DEF TypeOK, ControlOK
    <3>2. MaxFaults \in Nat
      BY BoundsAssumption
    <3>. QED  BY <3>1, <3>2
  <2>1. faults' = faults => NothingUndone
    BY <1>2 DEF FieldInv
  <2>2. ASSUME NEW c \in Clients, NEW l \in {"idle", "stored", "maint"},
               pc' = [pc EXCEPT ![c] = l], faults' = faults
        PROVE  NothingUndone'
    BY <2>0, <2>1, <2>2 DEF NothingUndone
  <2>3. ASSUME NEW c \in Clients,
               \/ AddHeaderRefused(c) \/ PosterDies(c)
               \/ \E n \in HdrBlocks : AddHeaderUnwritten(c, n)
               \/ \E fields : TextUnwritten(c, fields)
        PROVE  FALSE
    <3>1. faults' = faults + 1
      BY <2>3 DEF AddHeaderRefused, PosterDies, AddHeaderUnwritten, TextUnwritten
    <3>. QED  BY <1>2, <2>a, <3>1
  <2>4. ASSUME NEW c \in Clients, UndoBody(c) \/ UndoTail(c) PROVE FALSE
    <3>1. faults' = faults /\ pc[c] \in {"undo body", "undo tail"}
      BY <2>4 DEF UndoBody, UndoTail
    <3>. QED  BY <2>1, <3>1 DEF NothingUndone
  <2>5. ASSUME NEW c \in Clients, NEW shape \in Shapes, NEW mode \in Modes, StoreText(c, shape, mode)
        PROVE  NothingUndone'
    BY <2>2, <2>5 DEF StoreText, Goto
  <2>6. ASSUME NEW c \in Clients, NEW n \in HdrBlocks, AddHeader(c, n)
        PROVE  NothingUndone'
    BY <2>2, <2>6 DEF AddHeader, Goto
  <2>7. ASSUME NEW c \in Clients, AddMessage(c) PROVE NothingUndone'
    BY <2>3, <2>4, <2>5, <2>6, <2>7 DEF AddMessage
  <2>8. ASSUME NEW c \in Clients, Maintain(c) PROVE NothingUndone'
    <3>1. ASSUME NEW doomed, MaintStart(c, doomed) PROVE NothingUndone'
      BY <2>2, <3>1 DEF MaintStart, Goto
    <3>2. ASSUME NEW e, Purge(c, e) PROVE NothingUndone'
      BY <2>1, <3>2 DEF Purge, NothingUndone
    <3>3. ASSUME MaintEnd(c) PROVE NothingUndone'
      <4>1. faults' = faults
        BY <1>2, <2>a, <3>3 DEF MaintEnd
      <4>. QED  BY <2>2, <3>3, <4>1 DEF MaintEnd, Goto
    <3>. QED  BY <2>8, <3>1, <3>2, <3>3 DEF Maintain
  <2>9. ASSUME NEW e \in idx, FlagDeleted(e) PROVE NothingUndone'
    BY <2>1, <2>9 DEF FlagDeleted, NothingUndone
  <2>10. CASE UNCHANGED vars
    BY <2>1, <2>10 DEF vars, NothingUndone
  <2>. QED  BY <2>7, <2>8, <2>9, <2>10 DEF Next
<1>. QED  BY <1>1, <1>2 DEF FieldInv

\* The blocks a new text gets belong to no other text.
LEMMA DataStore ==
    ASSUME TypeOK, DataInv, NEW c \in Clients, NEW shape \in Shapes, NEW mode \in Modes,
           StoreText(c, shape, mode)
    PROVE  DataInv'
<1>. DEFINE n == DatBlocks(shape.body + shape.tail)
            b == Place(sda, sdaLen, sdtLen, mode, n)
            new == [text |-> posts + 1, blk |-> b, mode |-> mode,
                    body |-> shape.body, tail |-> shape.tail]
<1>1. /\ n \in Nat /\ b \in 0 .. MaxBlocks /\ b + n \in 0 .. MaxBlocks
      /\ Hyper => b = sdtLen
      /\ ~Hyper => \A k \in b .. b + n - 1 : k < sdaLen => sda[k] = 0
  BY TextPlace
<1>2. /\ sda' = IF Hyper THEN sda ELSE MarkUsed(sda, b, n)
      /\ sdaLen' = IF Hyper THEN sdaLen ELSE LargerOf(sdaLen, b + n)
      /\ sdtLen' = LargerOf(sdtLen, b + n)
      /\ msg' = [msg EXCEPT ![c] = new]
      /\ pc' = [pc EXCEPT ![c] = "stored"] /\ pc[c] = "idle" /\ idx' = idx
  BY DEF StoreText, Goto
<1>3. Extent(new) = b .. b + n - 1
  BY DEF Extent
<1>. HIDE DEF new, b, n
<1>b. b \in Nat /\ b + n \in Nat /\ b + n <= MaxBlocks
  BY <1>1, MaxBlocksAssumption
<1>4. Owners' \subseteq Owners \cup {new}
  <2>1. /\ pc \in [Clients -> {"idle", "stored", "undo body", "undo tail", "maint"}]
        /\ msg \in [Clients -> MsgType]
    BY DEF TypeOK, ControlOK, MessagesOK
  <2>2. Kept' = Kept
    BY <1>2 DEF Kept
  <2>3. \A d \in Clients : Counted(d)' => (d = c /\ msg'[d] = new)
                                          \/ (Counted(d) /\ msg'[d] = msg[d])
    BY <2>1, <1>2 DEF Counted
  <2>. QED  BY <2>2, <2>3 DEF Owners
<1>5. /\ sdaLen \in Nat /\ sdtLen \in Nat /\ sda \in [Block -> Refs]
      /\ sda \in [Block -> Nat] /\ 1 \in Refs
  BY MaxBlocksAssumption, RefsAreNaturals DEF TypeOK, TablesOK
<1>6. DataEnd \in Nat /\ DataEnd' \in Nat /\ DataEnd' >= DataEnd /\ DataEnd' >= b + n
  BY <1>b, <1>2, <1>5 DEF DataEnd, LargerOf
<1>7. \A k \in Block : MarkUsed(sda, b, n)[k] = IF k \in b .. b + n - 1 THEN 1 ELSE sda[k]
  BY <1>5, MarkUsedValue
<1>8. ASSUME NEW m \in Owners, NEW k \in Extent(m)
      PROVE  k \notin Extent(new) /\ k < DataEnd' /\ (~Hyper => sda'[k] > 0)
  <2>1. k \in Block /\ k < DataEnd /\ (~Hyper => sda[k] > 0)
    BY OwnersExtent
  <2>2. k \in Int
    BY <2>1, MaxBlocksAssumption
  <2>3. k \notin b .. b + n - 1
    BY <2>1, <2>2, <1>1, <1>5, <1>b DEF DataEnd
  <2>4. ~Hyper => sda'[k] > 0
    BY <2>1, <2>3, <1>2, <1>7
  <2>5. k < DataEnd'
    BY <2>1, <2>2, <1>6
  <2>. QED  BY <2>3, <2>4, <2>5, <1>3
<1>9. ASSUME NEW k \in Extent(new)
      PROVE  k < DataEnd' /\ (~Hyper => sda'[k] > 0)
  <2>1. k \in b .. b + n - 1
    BY <1>3
  <2>2. k \in Block /\ k \in Int /\ k < DataEnd'
    BY <2>1, <1>b, <1>6, <1>1, MaxBlocksAssumption
  <2>. QED  BY <2>1, <2>2, <1>2, <1>7
<1>10. \A m, k \in Owners \cup {new} : m.text # k.text => Extent(m) \cap Extent(k) = {}
  BY <1>8 DEF DataInv
<1>. QED  BY <1>4, <1>8, <1>9, <1>10 DEF DataInv

\* Freeing blocks of one text disturbs no other owner.
LEMMA DataFreed ==
    ASSUME TypeOK, DataInv, NEW g \in Owners,
           Owners' \subseteq Owners, \A m \in Owners' : m.text # g.text,
           DataEnd' = DataEnd,
           ~Hyper => \A b \in Block \ Extent(g) : sda'[b] = sda[b]
    PROVE  DataInv'
<1>1. ASSUME ~Hyper, NEW m \in Owners', NEW b \in Extent(m)
      PROVE  sda'[b] = sda[b]
  <2>1. b \in Block
    BY <1>1, OwnersExtent
  <2>2. b \notin Extent(g)
    BY <1>1 DEF DataInv
  <2>. QED  BY <1>1, <2>1, <2>2
<1>. QED  BY <1>1, DataKeep

LEMMA RecordedExtent ==
    ASSUME NEW m \in MsgType, NEW fields, m.tail = 0
    PROVE  /\ Recorded(m, fields).text = m.text
           /\ Extent(Recorded(m, fields)) \subseteq Extent(m)
<1>1. m.blk \in Nat /\ m.body \in Nat
  BY MsgBlocks
<1>. DEFINE r == Recorded(m, fields)
<1>2. r.text = m.text /\ r.blk = m.blk /\ r.tail = 0 /\ (r.body = m.body \/ r.body = 0)
  BY DEF Recorded
<1>. HIDE DEF r
<1>3. CASE r.body = m.body
  <2>1. r.body + r.tail = m.body + m.tail
    BY <1>2, <1>3
  <2>. QED  BY <2>1, <1>2 DEF Extent, r
<1>4. CASE r.body = 0
  <2>1. r.body + r.tail = 0
    BY <1>2, <1>4
  <2>2. Extent(r) = r.blk .. r.blk + 0 - 1
    BY <2>1, DatBlocksZero DEF Extent
  <2>3. Extent(r) = {}
    BY <2>2, <1>1, <1>2
  <2>. QED  BY <2>3, <1>2 DEF r
<1>. QED  BY <1>2, <1>3, <1>4

\* What the texts need: one field each, or no failures.
Undoable == OneField \/ MaxFaults = 0

LEMMA Undo ==
    ASSUME Undoable, TypeOK, FieldInv
    PROVE  (OneFieldInv /\ OneFieldIdx) \/ (NothingUndone /\ MaxFaults = 0)
<1>1. faults \in 0 .. MaxFaults
  BY DEF TypeOK, ControlOK
<1>2. MaxFaults = 0 => faults = 0
  BY <1>1
<1>. QED  BY <1>2 DEF Undoable, FieldInv

LEMMA NextData ==
    ASSUME Undoable
    PROVE  DataIndInv /\ [Next]_vars => DataInv'
<1>. SUFFICES ASSUME DataIndInv, [Next]_vars PROVE DataInv'
  OBVIOUS
<1>0. TypeOK /\ LockInv /\ TextInv /\ FreedInv /\ DataInv
  BY DEF DataIndInv, HeaderIndInv
<1>u. (OneFieldInv /\ OneFieldIdx) \/ (NothingUndone /\ MaxFaults = 0)
  BY Undo DEF DataIndInv, HeaderIndInv
<1>s. sda \in [Block -> Refs]
  BY <1>0 DEF TypeOK, TablesOK
<1>p. pc \in [Clients -> {"idle", "stored", "undo body", "undo tail", "maint"}]
  BY <1>0 DEF TypeOK, ControlOK
<1>m. msg \in [Clients -> MsgType]
  BY <1>0 DEF TypeOK, MessagesOK
\* A client moves on and nothing else happens.
<1>1. ASSUME NEW c \in Clients, NEW l, pc' = [pc EXCEPT ![c] = l],
             l \in {"stored", "undo body"} => Counted(c),
             msg' = msg, Kept' \subseteq Kept, sda' = sda, UNCHANGED <<sdaLen, sdtLen>>
      PROVE  DataInv'
  <2>1. \A d \in Clients : Counted(d)' => Counted(d)
    BY <1>1, <1>p DEF Counted
  <2>2. Owners' \subseteq Owners
    BY <2>1, <1>1 DEF Owners
  <2>3. DataEnd' = DataEnd
    BY <1>1 DEF DataEnd
  <2>. QED  BY <2>2, <2>3, <1>1, <1>0, DataKeep
<1>2. ASSUME NEW c \in Clients, NEW n \in HdrBlocks, AddHeader(c, n)
      PROVE  DataInv'
  <2>1. /\ pc[c] = "stored" /\ pc' = [pc EXCEPT ![c] = "idle"]
        /\ UNCHANGED <<msg, sda, sdaLen, sdtLen>>
        /\ \E e : e.m = msg[c] /\ idx' = idx \cup {e}
    BY <1>2 DEF AddHeader, Goto
  <2>2. Counted(c) /\ \A d \in Clients : Counted(d)' => Counted(d)
    BY <2>1, <1>p DEF Counted
  <2>3. \A e \in Kept' : e \in Kept \/ e.m = msg[c]
    BY <2>1 DEF Kept
  <2>4. Owners' \subseteq Owners
    BY <2>1, <2>2, <2>3 DEF Owners
  <2>5. DataEnd' = DataEnd
    BY <2>1 DEF DataEnd
  <2>. QED  BY <2>1, <2>4, <2>5, <1>0, DataKeep
<1>3. ASSUME NEW c \in Clients, NEW fields, TextUnwritten(c, fields)
      PROVE  DataInv'
  <2>1. /\ pc[c] = "stored" /\ pc' = [pc EXCEPT ![c] = "undo body"]
        /\ msg' = [msg EXCEPT ![c] = Recorded(@, fields)]
        /\ UNCHANGED <<idx, sda, sdaLen, sdtLen>>
    BY <1>3 DEF TextUnwritten, Goto, tables
  <2>f. faults < MaxFaults
    BY <1>3 DEF TextUnwritten
  <2>2. msg[c] \in MsgType /\ msg[c].tail = 0 /\ Counted(c)
    <3>1. MaxFaults # 0
      <4>1. faults \in 0 .. MaxFaults
        BY <1>0 DEF TypeOK, ControlOK
      <4>. QED  BY <2>f, <4>1, BoundsAssumption
    <3>. QED  BY <2>1, <3>1, <1>m, <1>u DEF OneFieldInv, Busy, Counted
  <2>3. \A d \in Clients : Counted(d)' =>
           Counted(d) /\ msg'[d].text = msg[d].text /\ Extent(msg'[d]) \subseteq Extent(msg[d])
    <3>1. msg'[c] = Recorded(msg[c], fields)
      BY <2>1, <1>m
    <3>2. \A d \in Clients \ {c} : msg'[d] = msg[d]
      BY <2>1, <1>m
    <3>3. \A d \in Clients : Counted(d)' => Counted(d)
      BY <2>1, <1>p DEF Counted
    <3>. QED  BY <3>1, <3>2, <3>3, <2>2, RecordedExtent
  <2>4. \A m \in Owners' : \E g \in Owners : g.text = m.text /\ Extent(m) \subseteq Extent(g)
    <3>1. Kept' = Kept
      BY <2>1 DEF Kept
    <3>. QED  BY <3>1, <2>3 DEF Owners
  <2>5. DataEnd' = DataEnd
    BY <2>1 DEF DataEnd
  <2>. QED  BY <2>1, <2>4, <2>5, <1>0 DEF DataInv
<1>4. ASSUME NEW c \in Clients, UndoBody(c)
      PROVE  DataInv'
  <2>1. DataEnd' = DataEnd
    BY <1>4 DEF UndoBody, DataEnd
  <2>. QED  BY <2>1, <1>4, <1>0, UndoBodyFrees, DataFreed
<1>5. ASSUME NEW c \in Clients, UndoTail(c)
      PROVE  DataInv'
  <2>1. sda' = sda
    BY <1>5, <1>0, <1>u, UndoTailFrees
  <2>. QED  BY <2>1, <1>5, <1>1 DEF UndoTail, Goto, Kept
<1>6. ASSUME NEW c \in Clients, NEW e \in idx, Purge(c, e)
      PROVE  DataInv'
  <2>1. DataEnd' = DataEnd
    BY <1>6 DEF Purge, DataEnd
  <2>2. Owners' \subseteq Owners
    BY <1>6, <1>0, PurgeFrees
  <2>. QED  BY <2>1, <2>2, <1>6, <1>0, PurgeFrees, DataFreed
<1>7. ASSUME NEW e \in idx, FlagDeleted(e)
      PROVE  DataInv'
  <2>1. /\ idx' = (idx \ {e}) \cup {Flagged(e, FALSE)}
        /\ UNCHANGED <<pc, msg, sda, sdaLen, sdtLen>> /\ lock = NoClient
    BY <1>7 DEF FlagDeleted, tables
  <2>2. e \in Kept
    <3>1. \A c \in Clients : pc[c] # "maint"
      BY <2>1, <1>0, NoClientAssumption DEF LockInv
    <3>. QED  BY <3>1, <1>0 DEF FreedInv, Kept
  <2>3. Kept' \subseteq Kept \cup {Flagged(e, FALSE)} /\ Flagged(e, FALSE).m = e.m
    BY <2>1 DEF Kept, Flagged
  <2>4. \A d \in Clients : Counted(d)' <=> Counted(d)
    BY <2>1 DEF Counted
  <2>5. Owners' \subseteq Owners
    BY <2>1, <2>2, <2>3, <2>4 DEF Owners
  <2>6. DataEnd' = DataEnd
    BY <2>1 DEF DataEnd
  <2>. QED  BY <2>1, <2>5, <2>6, <1>0, DataKeep
<1>8. ASSUME NEW c \in Clients, AddMessage(c) PROVE DataInv'
  <2>1. ASSUME AddHeaderRefused(c) \/ PosterDies(c)
               \/ \E n \in HdrBlocks : AddHeaderUnwritten(c, n)
        PROVE  DataInv'
    <3>1. /\ \E l \in {"undo body", "idle"} :
                pc' = [pc EXCEPT ![c] = l] /\ (l = "undo body" => Counted(c))
          /\ UNCHANGED <<msg, idx, sda, sdaLen, sdtLen>>
      BY <2>1 DEF AddHeaderRefused, PosterDies, AddHeaderUnwritten, Goto, Counted, tables
    <3>2. Kept' \subseteq Kept
      BY <3>1 DEF Kept
    <3>. QED  BY <3>1, <3>2, <1>1
  <2>2. ASSUME NEW shape \in Shapes, NEW mode \in Modes, StoreText(c, shape, mode)
        PROVE  DataInv'
    BY <2>2, <1>0, DataStore
  <2>. QED  BY <1>8, <2>1, <2>2, <1>2, <1>3, <1>4, <1>5 DEF AddMessage
<1>9. ASSUME NEW c \in Clients, Maintain(c) PROVE DataInv'
  <2>1. ASSUME MaintEnd(c) \/ \E doomed : MaintStart(c, doomed) PROVE DataInv'
    <3>1. /\ \E l \in {"maint", "idle"} : pc' = [pc EXCEPT ![c] = l]
          /\ idx' \subseteq idx
          /\ UNCHANGED <<msg, sda, sdaLen, sdtLen>>
      BY <2>1 DEF MaintEnd, MaintStart, Goto, tables
    <3>2. Kept' \subseteq Kept
      BY <3>1 DEF Kept
    <3>. QED  BY <3>1, <3>2, <1>1
  <2>. QED  BY <1>9, <2>1, <1>6 DEF Maintain
<1>10. CASE UNCHANGED vars
  <2>1. Owners' = Owners /\ DataEnd' = DataEnd /\ sda' = sda
    BY <1>10 DEF vars, tables, Owners, DataEnd, Kept, Counted
  <2>. QED  BY <2>1, <1>0, DataKeep
<1>. QED  BY <1>7, <1>8, <1>9, <1>10 DEF Next

LEMMA DataIndImplies == DataIndInv => TextsDisjoint /\ LiveBlocksCounted
<1>. SUFFICES ASSUME DataIndInv PROVE TextsDisjoint /\ LiveBlocksCounted
  OBVIOUS
<1>1. \A e \in Readable : e.m \in Owners
  BY DEF DataIndInv, HeaderIndInv, FreedInv, Readable, Kept, Owners
<1>. QED  BY <1>1 DEF DataIndInv, DataInv, TextsDisjoint, LiveBlocksCounted

LEMMA InitDataInd == Init => DataIndInv
<1>1. Init => OneFieldInv /\ OneFieldIdx /\ NothingUndone /\ DataInv
  BY DEF Init, OneFieldInv, OneFieldIdx, NothingUndone, DataInv, Busy, Owners, Kept, Counted
<1>. QED  BY <1>1, InitHeaderInd DEF DataIndInv, FieldInv

LEMMA NextDataInd ==
    ASSUME Undoable
    PROVE  DataIndInv /\ [Next]_vars => DataIndInv'
<1>1. DataIndInv /\ [Next]_vars => HeaderIndInv'
  BY NextHeaderInd DEF DataIndInv
<1>2. DataIndInv /\ HeaderIndInv' /\ [Next]_vars => FieldInv'
  BY NextField DEF DataIndInv, HeaderIndInv
<1>. QED  BY <1>1, <1>2, NextData DEF DataIndInv

\* The texts of reachable messages never share a data block, for messages with
\* one data field, as savemsg() makes them, or as long as nothing fails: for any
\* number of clients, lengths and storage modes.
THEOREM TextsSafe ==
    ASSUME Undoable PROVE Spec => []TextsDisjoint
<1>1. DataIndInv => TextsDisjoint
  BY DataIndImplies
<1>. QED  BY InitDataInd, NextDataInd, <1>1, PTL DEF Spec

\* Under the same conditions no block that holds such a text is marked free.
THEOREM TextsCounted ==
    ASSUME Undoable PROVE Spec => []LiveBlocksCounted
<1>1. DataIndInv => LiveBlocksCounted
  BY DataIndImplies
<1>. QED  BY InitDataInd, NextDataInd, <1>1, PTL DEF Spec
\* Whatever a step frees, a message that is stored before and after it keeps
\* the counters of its blocks.
LEMMA OwnersKeep ==
    ASSUME Undoable, DataIndInv, [Next]_vars, ~Hyper,
           NEW m \in Owners, m \in Owners', NEW b \in Extent(m)
    PROVE  sda'[b] = sda[b]
<1>0. TypeOK /\ TextInv /\ FreedInv /\ DataInv /\ FieldInv
  BY DEF DataIndInv, HeaderIndInv
<1>1. b \in Block /\ b < sdaLen /\ sda[b] > 0
  BY <1>0, OwnersExtent DEF DataEnd
<1>2. ASSUME NEW g \in Owners, m.text # g.text,
             \A k \in Block \ Extent(g) : sda'[k] = sda[k]
      PROVE  sda'[b] = sda[b]
  BY <1>2, <1>1, <1>0 DEF DataInv
<1>3. ASSUME NEW c \in Clients, NEW shape \in Shapes, NEW mode \in Modes,
             StoreText(c, shape, mode)
      PROVE  sda'[b] = sda[b]
  <2>. DEFINE n == DatBlocks(shape.body + shape.tail)
              p == Place(sda, sdaLen, sdtLen, mode, n)
  <2>1. \A k \in p .. p + n - 1 : k < sdaLen => sda[k] = 0
    BY <1>3, <1>0, TextPlace
  <2>2. sda' = MarkUsed(sda, p, n)
    BY <1>3 DEF StoreText
  <2>. HIDE DEF p, n
  <2>3. DOMAIN sda = Block
    BY <1>0 DEF TypeOK, TablesOK
  <2>4. b \notin p .. p + n - 1
    BY <2>1, <1>1
  <2>5. MarkUsed(sda, p, n)[b] = sda[b]
    BY <2>3, <2>4, <1>1, MarkUsedValue
  <2>. QED  BY <2>2, <2>5
<1>4. ASSUME NEW c \in Clients, UndoBody(c) PROVE sda'[b] = sda[b]
  <2>1. /\ msg[c] \in Owners /\ \A k \in Owners' : k.text # msg[c].text
        /\ \A k \in Block \ Extent(msg[c]) : sda'[k] = sda[k]
    BY <1>4, <1>0, UndoBodyFrees
  <2>. QED  BY <2>1, <1>2
<1>5. ASSUME NEW c \in Clients, UndoTail(c) PROVE sda'[b] = sda[b]
  BY <1>5, <1>0, Undo, UndoTailFrees
<1>6. ASSUME NEW c \in Clients, NEW e \in idx, Purge(c, e) PROVE sda'[b] = sda[b]
  <2>1. /\ e.m \in Owners /\ \A k \in Owners' : k.text # e.m.text
        /\ \A k \in Block \ Extent(e.m) : sda'[k] = sda[k]
    BY <1>6, <1>0, PurgeFrees
  <2>. QED  BY <2>1, <1>2
<1>7. CASE sda' = sda
  BY <1>7
<1>. QED  BY <1>3, <1>4, <1>5, <1>6, <1>7
          DEF Next, AddMessage, Maintain, vars, tables, AddHeader, AddHeaderRefused,
              AddHeaderUnwritten, TextUnwritten, PosterDies, MaintStart, MaintEnd, FlagDeleted

\* What one process frees is never part of a message somebody else can reach:
\* the counter of a block of a reachable message only goes down in the step that
\* deletes that message.
THEOREM OnlyOwnFreed ==
    ASSUME Undoable PROVE Spec => OnlyOwnBlocksFreed
<1>. DEFINE Step == ~Hyper => \A e \in Readable :
               (\E f \in Readable' : f.m = e.m) =>
                   \A b \in Extent(e.m) : sda'[b] >= sda[b]
<1>1. ASSUME DataIndInv, DataIndInv', [Next]_vars PROVE Step
  <2>. SUFFICES ASSUME ~Hyper, NEW e \in Readable, NEW f \in Readable', f.m = e.m,
                       NEW b \in Extent(e.m)
                PROVE  sda'[b] >= sda[b]
    OBVIOUS
  <2>1. \A h \in Readable : h.m \in Owners
    BY <1>1 DEF DataIndInv, HeaderIndInv, FreedInv, Readable, Kept, Owners
  <2>2. \A h \in Readable' : h.m \in Owners'
    BY <1>1 DEF DataIndInv, HeaderIndInv, FreedInv, Readable, Kept, Owners
  <2>3. sda'[b] = sda[b]
    BY <2>1, <2>2, <1>1, OwnersKeep
  <2>4. sda[b] \in Nat
    BY <2>1, <1>1, OwnersExtent, RefsAreNaturals DEF DataIndInv, HeaderIndInv
  <2>. QED  BY <2>3, <2>4
<1>. HIDE DEF Step
<1>2. DataIndInv /\ DataIndInv' /\ [Next]_vars => [Step]_vars
  BY <1>1
<1>3. Spec => [][Step]_vars
  BY InitDataInd, NextDataInd, <1>2, PTL DEF Spec
<1>. QED  BY <1>3 DEF Step, OnlyOwnBlocksFreed
-----------------------------------------------------------------------------
(* The counters of the data blocks.                                        *)

\* While one client has the base locked for maintenance, nobody else flags a
\* message, and maintenance forgets none.
LEMMA NextDoomed ==
    TypeOK /\ LockInv /\ TextInv /\ DoomedInv /\ [Next]_vars => DoomedInv'
<1>. SUFFICES ASSUME TypeOK, LockInv, TextInv, DoomedInv, [Next]_vars PROVE DoomedInv'
  OBVIOUS
<1>. DEFINE Maintained == \E c \in Clients : pc[c] = "maint"
<1>0. pc \in [Clients -> {"idle", "stored", "undo body", "undo tail", "maint"}]
  BY DEF TypeOK, ControlOK
<1>1. lock = NoClient => ~Maintained
  BY NoClientAssumption DEF LockInv
<1>2. ASSUME NEW c \in Clients, NEW l, l # "maint", pc' = [pc EXCEPT ![c] = l]
      PROVE  Maintained' => Maintained
  BY <1>0, <1>2
<1>3. ASSUME NEW c \in Clients, AddMessage(c) PROVE DoomedInv'
  <2>1. Maintained' => Maintained
    BY <1>2, <1>3 DEF AddMessage, StoreText, AddHeader, AddHeaderRefused, AddHeaderUnwritten,
                      TextUnwritten, UndoBody, UndoTail, PosterDies, Goto
  <2>2. todo' = todo /\ \A e \in idx' : e \in idx \/ ~e.del
    <3>1. ASSUME NEW n, AddHeader(c, n)
          PROVE  todo' = todo /\ \A e \in idx' : e \in idx \/ ~e.del
      <4>1. todo' = todo /\ \E e : ~e.del /\ idx' = idx \cup {e}
        BY <3>1 DEF AddHeader
      <4>. QED  BY <4>1
    <3>2. (\E n \in HdrBlocks : AddHeader(c, n)) \/ UNCHANGED <<todo, idx>>
      BY <1>3 DEF AddMessage, StoreText, AddHeaderRefused, AddHeaderUnwritten,
                  TextUnwritten, UndoBody, UndoTail, PosterDies
    <3>. QED  BY <3>1, <3>2
  <2>. QED  BY <2>1, <2>2 DEF DoomedInv
<1>4. ASSUME NEW c \in Clients, NEW doomed, MaintStart(c, doomed) PROVE DoomedInv'
  BY <1>4 DEF MaintStart, DoomedInv
<1>5. ASSUME NEW c \in Clients, NEW e \in idx, Purge(c, e) PROVE DoomedInv'
  <2>1. /\ idx' = (idx \ {e}) \cup {Flagged(e, TRUE)} /\ todo' = todo \ {e.m.text}
        /\ pc' = pc /\ pc[c] = "maint"
    BY <1>5 DEF Purge
  <2>2. Flagged(e, TRUE).freed
    BY DEF Flagged
  <2>3. \A f \in idx \ {e} : f.m.text # e.m.text
    BY DEF TextInv
  <2>. QED  BY <2>1, <2>2, <2>3 DEF DoomedInv
<1>6. ASSUME NEW c \in Clients, MaintEnd(c) PROVE DoomedInv'
  <2>1. pc[c] = "maint" /\ pc' = [pc EXCEPT ![c] = "idle"]
    BY <1>6 DEF MaintEnd, Goto
  <2>2. \A d \in Clients : pc[d] = "maint" => d = c
    BY <2>1 DEF LockInv
  <2>3. ~Maintained'
    BY <2>1, <2>2, <1>0
  <2>. QED  BY <2>3 DEF DoomedInv
<1>7. ASSUME NEW e \in idx, FlagDeleted(e) PROVE DoomedInv'
  BY <1>1, <1>7 DEF FlagDeleted, DoomedInv
<1>8. CASE UNCHANGED vars
  BY <1>8 DEF vars, DoomedInv
<1>. QED  BY <1>3, <1>4, <1>5, <1>6, <1>7, <1>8 DEF Next, Maintain

\* Storing a text adds it to the texts that own blocks, in blocks nobody counts.
LEMMA StoreOwners ==
    ASSUME TypeOK, NEW c \in Clients, NEW shape \in Shapes, NEW mode \in Modes,
           StoreText(c, shape, mode), ~Hyper
    PROVE  \E new : /\ Owners' = Owners \cup {new}
                    /\ sda' = [b \in Block |-> IF b \in Extent(new) THEN 1 ELSE sda[b]]
                    /\ \A b \in Extent(new) : (b < sdaLen => sda[b] = 0) /\ b < sdaLen'
                    /\ \A b \in Block : b < sdaLen => b < sdaLen'
<1>. DEFINE n == DatBlocks(shape.body + shape.tail)
            b == Place(sda, sdaLen, sdtLen, mode, n)
            new == [text |-> posts + 1, blk |-> b, mode |-> mode,
                    body |-> shape.body, tail |-> shape.tail]
<1>1. /\ sda' = MarkUsed(sda, b, n)
      /\ sdaLen' = LargerOf(sdaLen, b + n)
      /\ msg' = [msg EXCEPT ![c] = new]
      /\ pc' = [pc EXCEPT ![c] = "stored"] /\ pc[c] = "idle" /\ idx' = idx
  BY DEF StoreText, Goto
<1>2. Extent(new) = b .. b + n - 1
  BY DEF Extent
<1>8. /\ n \in Nat /\ b \in 0 .. MaxBlocks
      /\ \A k \in b .. b + n - 1 : k < sdaLen => sda[k] = 0
  BY TextPlace
<1>. HIDE DEF new, b, n
<1>3. /\ pc \in [Clients -> {"idle", "stored", "undo body", "undo tail", "maint"}]
      /\ msg \in [Clients -> MsgType]
  BY DEF TypeOK, ControlOK, MessagesOK
<1>4. Kept' = Kept
  BY <1>1 DEF Kept
<1>5. /\ Counted(c)' /\ msg'[c] = new /\ ~Counted(c)
      /\ \A d \in Clients \ {c} : (Counted(d)' <=> Counted(d)) /\ msg'[d] = msg[d]
  BY <1>1, <1>3 DEF Counted
<1>6. Owners' = Owners \cup {new}
  BY <1>4, <1>5 DEF Owners
<1>7. sda' = [k \in Block |-> IF k \in Extent(new) THEN 1 ELSE sda[k]]
  <2>1. DOMAIN sda = Block
    BY DEF TypeOK, TablesOK
  <2>. QED  BY <2>1, <1>1, <1>2 DEF MarkUsed
<1>9. sdaLen \in Nat /\ b \in Nat
  BY <1>8, MaxBlocksAssumption DEF TypeOK, TablesOK
<1>10. sdaLen' >= sdaLen /\ sdaLen' >= b + n /\ sdaLen' \in Nat
  BY <1>1, <1>8, <1>9 DEF LargerOf
<1>11. \A k \in b .. b + n - 1 : k < sdaLen'
  BY <1>8, <1>9, <1>10
<1>12. \A k \in Block : k < sdaLen => k < sdaLen'
  <2>1. \A k \in Block : k \in Int
    BY MaxBlocksAssumption
  <2>. QED  BY <2>1, <1>9, <1>10
<1>. QED  BY <1>2, <1>6, <1>7, <1>8, <1>11, <1>12

\* A message with one data field gives all of its blocks back.
LEMMA FreedValue ==
    ASSUME TypeOK, NEW m \in MsgType, m.tail = 0, NEW b \in Extent(m), b \in Block, sda[b] = 1
    PROVE  FreeFields(sda, m)[b] = 0 /\ FreeField(sda, m, "body")[b] = 0
<1>1. FieldBlocks(m, "body") = Extent(m) /\ FieldBlocks(m, "tail") = {}
  BY MsgBlocks, OneFieldBlocks
<1>. QED  BY <1>1 DEF FreeFields, FreeField

\* A message takes no reference to a block outside of its text away.
LEMMA FreedOutside ==
    ASSUME TypeOK, NEW m \in MsgType, NEW b \in Block, b \notin Extent(m)
    PROVE  FreeFields(sda, m)[b] = sda[b] /\ FreeField(sda, m, "body")[b] = sda[b]
<1>1. sda \in [Block -> Refs]
  BY DEF TypeOK, TablesOK
<1>. QED  BY <1>1, MsgBlocks, FieldsInside

\* The counter of one block, as CountersInv has it.
CounterRight(b, owners) ==
    LET used == \E m \in owners : b \in Extent(m)
    IN  /\ sda[b] = IF used THEN 1 ELSE left[b]
        /\ left[b] \in {0, 1}
        /\ left[b] = 1 => ~used /\ b < sdaLen

\* Texts that give their blocks back as the last that use them.
LEMMA CountersFreed ==
    ASSUME TypeOK, DataInv, CountersInv, ~Hyper, NEW g \in Owners, g.tail = 0,
           Owners' = Owners \ {g}, \A m \in Owners' : m.text # g.text,
           sda' = FreeFields(sda, g) \/ sda' = FreeField(sda, g, "body"),
           left' = left, sdaLen' = sdaLen
    PROVE  CountersInv'
<1>. SUFFICES ASSUME NEW b \in Block PROVE CounterRight(b, Owners)'
  BY DEF CountersInv, CounterRight
<1>0. CounterRight(b, Owners)
  BY DEF CountersInv, CounterRight
<1>g. g \in MsgType
  BY OwnersType
<1>s. sda \in [Block -> Refs]
  BY DEF TypeOK, TablesOK
<1>1. CASE b \in Extent(g)
  <2>1. sda[b] = 1 /\ left[b] = 0
    BY <1>0, <1>1 DEF CounterRight
  <2>2. sda'[b] = 0
    BY <2>1, <1>1, <1>g, FreedValue
  <2>3. ~\E m \in Owners' : b \in Extent(m)
    BY <1>1 DEF DataInv
  <2>. QED  BY <2>1, <2>2, <2>3 DEF CounterRight
<1>2. CASE b \notin Extent(g)
  <2>0. FreeFields(sda, g)[b] = sda[b] /\ FreeField(sda, g, "body")[b] = sda[b]
    BY <1>2, <1>g, FreedOutside
  <2>1. sda'[b] = sda[b]
    BY <2>0
  <2>2. (\E m \in Owners' : b \in Extent(m)) <=> (\E m \in Owners : b \in Extent(m))
    BY <1>2
  <2>. QED  BY <2>1, <2>2, <1>0 DEF CounterRight
<1>. QED  BY <1>1, <1>2

\* Texts that leave their references behind are no longer owners of blocks; what
\* a text is replaced by has no blocks.
LeavesOwners(ms) ==
    /\ \A m \in ms : m \in Owners /\ m \notin Owners'
    /\ \A m \in ms, k \in Owners \ ms : m.text # k.text
    /\ \A k \in Owners \ ms : k \in Owners'
    /\ \A k \in Owners' : k \in Owners \ ms \/ Extent(k) = {}

LEMMA CountersLeft ==
    ASSUME TypeOK, DataInv, CountersInv, ~Hyper, NEW ms, LeavesOwners(ms),
           left' = LeftBehind(ms), sda' = sda, sdaLen' = sdaLen
    PROVE  CountersInv'
<1>l. /\ \A m \in ms : m \in Owners /\ m \notin Owners'
      /\ \A m \in ms, k \in Owners \ ms : m.text # k.text
      /\ \A k \in Owners \ ms : k \in Owners'
      /\ \A k \in Owners' : k \in Owners \ ms \/ Extent(k) = {}
  BY DEF LeavesOwners
<1>. SUFFICES ASSUME NEW b \in Block PROVE CounterRight(b, Owners)'
  BY DEF CountersInv, CounterRight
<1>0. CounterRight(b, Owners)
  BY DEF CountersInv, CounterRight
<1>1. CASE \E m \in ms : b \in Extent(m)
  <2>1. sda[b] = 1 /\ left[b] = 0
    BY <1>0, <1>1, <1>l DEF CounterRight
  <2>2. left'[b] = 1
    BY <2>1, <1>1 DEF LeftBehind
  <2>3. ~\E m \in Owners' : b \in Extent(m)
    BY <1>1, <1>l DEF DataInv
  <2>4. b < sdaLen
    BY <1>1, <1>l DEF DataInv, DataEnd
  <2>. QED  BY <2>1, <2>2, <2>3, <2>4 DEF CounterRight
<1>2. CASE ~\E m \in ms : b \in Extent(m)
  <2>1. left'[b] = left[b]
    BY <1>2 DEF LeftBehind
  <2>2. (\E m \in Owners' : b \in Extent(m)) <=> (\E m \in Owners : b \in Extent(m))
    BY <1>2, <1>l
  <2>. QED  BY <2>1, <2>2, <1>0 DEF CounterRight
<1>. QED  BY <1>1, <1>2

\* The counters while a message is added: only a failure leaves something behind.
LEMMA AddCounters ==
    ASSUME OneField, CounterIndInv, ~Hyper, NEW c \in Clients, AddMessage(c)
    PROVE  CountersInv'
<1>0. /\ TypeOK /\ TextInv /\ DataInv /\ CountersInv /\ OneFieldInv
  BY DEF CounterIndInv, DataIndInv, HeaderIndInv, FieldInv
<1>p. pc \in [Clients -> {"idle", "stored", "undo body", "undo tail", "maint"}]
  BY <1>0 DEF TypeOK, ControlOK
<1>m. msg \in [Clients -> MsgType]
  BY <1>0 DEF TypeOK, MessagesOK
<1>3. ASSUME Owners' = Owners, UNCHANGED <<sda, sdaLen, left>> PROVE CountersInv'
  BY <1>3, <1>0 DEF CountersInv
\* The text in hand, when the client still has its blocks.
<1>h. ASSUME Counted(c)
      PROVE  /\ msg[c] \in Owners /\ msg[c].tail = 0
             /\ \A k \in Owners \ {msg[c]} : msg[c].text # k.text
  <2>1. msg[c] \in Owners
    BY <1>h DEF Owners
  <2>2. msg[c].tail = 0
    BY <1>h, <1>0 DEF OneFieldInv, Busy, Counted
  <2>. QED  BY <2>1, <2>2, <1>0, OwnersUnique
<1>o. ASSUME Counted(c), NEW l, l \notin {"stored", "undo body"},
             pc' = [pc EXCEPT ![c] = l], UNCHANGED <<idx, msg>>
      PROVE  Owners' = Owners \ {msg[c]}
  <2>1. \A d \in Clients : Counted(d)' <=> (Counted(d) /\ d # c)
    BY <1>o, <1>p DEF Counted
  <2>2. \A e \in Kept : e.m.text # msg[c].text
    BY <1>o, <1>0 DEF TextInv, Kept, Busy, Counted
  <2>3. \A d \in Clients \ {c} : Counted(d) => msg[d].text # msg[c].text
    BY <1>o, <1>0 DEF TextInv, Busy, Counted
  <2>4. Kept' = Kept
    BY <1>o DEF Kept
  <2>5. Owners' = {e.m : e \in Kept} \cup {msg[d] : d \in {k \in Clients : Counted(k) /\ k # c}}
    BY <2>1, <2>4, <1>o DEF Owners
  <2>. QED  BY <2>2, <2>3, <2>5 DEF Owners
<1>4. ASSUME NEW shape \in Shapes, NEW mode \in Modes, StoreText(c, shape, mode)
      PROVE  CountersInv'
  <2>1. PICK new : /\ Owners' = Owners \cup {new}
                   /\ sda' = [b \in Block |-> IF b \in Extent(new) THEN 1 ELSE sda[b]]
                   /\ \A b \in Extent(new) : (b < sdaLen => sda[b] = 0) /\ b < sdaLen'
                   /\ \A b \in Block : b < sdaLen => b < sdaLen'
    BY <1>4, <1>0, StoreOwners
  <2>2. left' = left
    BY <1>4 DEF StoreText
  <2>3. ASSUME NEW b \in Block PROVE CounterRight(b, Owners)'
    <3>0. CounterRight(b, Owners)
      BY <1>0 DEF CountersInv, CounterRight
    <3>1. CASE b \in Extent(new)
      <4>1. left[b] = 0
        BY <3>0, <3>1, <2>1 DEF CounterRight
      <4>2. sda'[b] = 1 /\ (\E m \in Owners' : b \in Extent(m))
        BY <2>1, <3>1
      <4>. QED  BY <4>1, <4>2, <2>2 DEF CounterRight
    <3>2. CASE b \notin Extent(new)
      <4>1. sda'[b] = sda[b]
        BY <2>1, <3>2
      <4>2. (\E m \in Owners' : b \in Extent(m)) <=> (\E m \in Owners : b \in Extent(m))
        BY <2>1, <3>2
      <4>. QED  BY <4>1, <4>2, <3>0, <2>1, <2>2 DEF CounterRight
    <3>. QED  BY <3>1, <3>2
  <2>. QED  BY <2>3 DEF CountersInv, CounterRight
<1>5. ASSUME NEW n \in HdrBlocks, AddHeader(c, n) PROVE CountersInv'
  <2>1. /\ pc[c] = "stored" /\ pc' = [pc EXCEPT ![c] = "idle"]
        /\ UNCHANGED <<msg, sda, sdaLen, left>>
        /\ \E e : e.m = msg[c] /\ ~e.freed /\ idx' = idx \cup {e}
    BY <1>5 DEF AddHeader, Goto
  <2>2. /\ Counted(c) /\ ~Counted(c)'
        /\ \A d \in Clients \ {c} : Counted(d)' <=> Counted(d)
    BY <2>1, <1>p DEF Counted
  <2>3. \E e : e.m = msg[c] /\ Kept' = Kept \cup {e}
    BY <2>1 DEF Kept
  <2>4. Owners' = Owners
    BY <2>1, <2>2, <2>3 DEF Owners
  <2>. QED  BY <2>1, <2>4, <1>3
<1>6. ASSUME AddHeaderRefused(c) \/ \E n \in HdrBlocks : AddHeaderUnwritten(c, n)
      PROVE  CountersInv'
  <2>1. /\ pc[c] = "stored" /\ pc' = [pc EXCEPT ![c] = "undo body"]
        /\ UNCHANGED <<idx, msg, sda, sdaLen, left>>
    BY <1>6 DEF AddHeaderRefused, AddHeaderUnwritten, Goto, tables
  <2>2. \A d \in Clients : Counted(d)' <=> Counted(d)
    BY <2>1, <1>p DEF Counted
  <2>3. Owners' = Owners
    BY <2>1, <2>2 DEF Owners, Kept
  <2>. QED  BY <2>1, <2>3, <1>3
<1>7. ASSUME NEW fields \in {{}, {"body"}, {"body", "tail"}}, TextUnwritten(c, fields)
      PROVE  CountersInv'
  <2>1. /\ pc[c] = "stored" /\ pc' = [pc EXCEPT ![c] = "undo body"]
        /\ msg' = [msg EXCEPT ![c] = Recorded(@, fields)]
        /\ left' = IF "body" \in fields THEN left ELSE LeftBehind({msg[c]})
        /\ UNCHANGED <<idx, sda, sdaLen>>
    BY <1>7 DEF TextUnwritten, Goto, tables
  <2>2. Counted(c) /\ \A d \in Clients : Counted(d)' <=> Counted(d)
    BY <2>1, <1>p DEF Counted
  <2>3. /\ msg'[c] = Recorded(msg[c], fields)
        /\ \A d \in Clients \ {c} : msg'[d] = msg[d]
    BY <2>1, <1>m
  <2>4. msg[c] \in MsgType /\ msg[c].tail = 0
    BY <2>2, <1>m, <1>h
  <2>5. CASE "body" \in fields
    <3>1. Recorded(msg[c], fields) = msg[c]
      BY <2>4, <2>5 DEF Recorded, MsgType
    <3>2. msg' = msg
      BY <2>1, <3>1, <1>m
    <3>3. Owners' = Owners
      BY <2>1, <2>2, <3>2 DEF Owners, Kept
    <3>. QED  BY <2>1, <2>5, <3>3, <1>3
  <2>6. CASE "body" \notin fields
    <3>1. fields = {}
      BY <2>6
    <3>. DEFINE r == Recorded(msg[c], fields)
    <3>2. r.blk = msg[c].blk /\ r.body = 0 /\ r.tail = 0
      BY <3>1 DEF Recorded
    <3>. HIDE DEF r
    <3>3. Extent(r) = {}
      <4>1. r.body + r.tail = 0
        BY <3>2
      <4>2. Extent(r) = r.blk .. r.blk + 0 - 1
        BY <4>1, DatBlocksZero DEF Extent
      <4>3. r.blk \in Nat
        BY <3>2, <2>4, MsgBlocks
      <4>. QED  BY <4>2, <4>3
    <3>4. Owners' = (Owners \ {msg[c]}) \cup {r}
      <4>1. \A e \in Kept : e.m.text # msg[c].text
        BY <2>2, <1>0 DEF TextInv, Kept, Busy, Counted
      <4>2. \A d \in Clients \ {c} : Counted(d) => msg[d].text # msg[c].text
        BY <2>2, <1>0 DEF TextInv, Busy, Counted
      <4>3. Kept' = Kept
        BY <2>1 DEF Kept
      <4>4. Owners' = {e.m : e \in Kept} \cup {msg[d] : d \in {k \in Clients : Counted(k) /\ k # c}}
                      \cup {r}
        BY <2>2, <2>3, <4>3 DEF Owners, r
      <4>5. Owners \ {msg[c]} =
                {e.m : e \in Kept} \cup {msg[d] : d \in {k \in Clients : Counted(k) /\ k # c}}
        BY <4>1, <4>2 DEF Owners
      <4>. QED  BY <4>4, <4>5
    <3>5. left' = LeftBehind({msg[c]}) /\ UNCHANGED <<sda, sdaLen>>
      BY <2>1, <2>6
    <3>6. /\ msg[c] \in Owners
          /\ \A k \in Owners \ {msg[c]} : msg[c].text # k.text
      BY <2>2, <1>h
    <3>8. CASE r # msg[c]
      <4>1. LeavesOwners({msg[c]})
        BY <3>3, <3>4, <3>6, <3>8 DEF LeavesOwners
      <4>. QED  BY <4>1, <3>5, <1>0, CountersLeft
    <3>9. CASE r = msg[c]
      <4>1. Owners' = Owners
        BY <3>4, <3>6, <3>9
      <4>2. left' = left
        <5>1. ~\E m \in {msg[c]} : \E b \in Block : b \in Extent(m)
          BY <3>3, <3>9
        <5>2. left \in [Block -> Nat]
          BY <1>0 DEF TypeOK, GhostOK
        <5>. QED  BY <5>1, <5>2, <3>5 DEF LeftBehind
      <4>. QED  BY <4>1, <4>2, <3>5, <1>3
    <3>. QED  BY <3>8, <3>9
  <2>. QED  BY <2>5, <2>6
<1>8. ASSUME UndoBody(c) PROVE CountersInv'
  <2>1. /\ pc[c] = "undo body" /\ pc' = [pc EXCEPT ![c] = "undo tail"]
        /\ sda' = FreeField(sda, msg[c], "body")
        /\ UNCHANGED <<idx, msg, sdaLen, left>>
    BY <1>8 DEF UndoBody, Goto
  <2>2. Counted(c)
    BY <2>1 DEF Counted
  <2>3. Owners' = Owners \ {msg[c]}
    BY <2>1, <2>2, <1>o
  <2>. QED  BY <2>1, <2>2, <2>3, <1>h, <1>0, CountersFreed
<1>9. ASSUME UndoTail(c) PROVE CountersInv'
  <2>1. /\ pc[c] = "undo tail" /\ pc' = [pc EXCEPT ![c] = "idle"]
        /\ UNCHANGED <<idx, msg, sdaLen, left>>
    BY <1>9 DEF UndoTail, Goto
  <2>2. sda' = sda
    BY <1>9, <1>0, UndoTailFrees DEF CounterIndInv, DataIndInv, FieldInv
  <2>3. \A d \in Clients : Counted(d)' <=> Counted(d)
    BY <2>1, <1>p DEF Counted
  <2>4. Owners' = Owners
    BY <2>1, <2>3 DEF Owners, Kept
  <2>. QED  BY <2>1, <2>2, <2>4, <1>3
<1>10. ASSUME PosterDies(c) PROVE CountersInv'
  <2>1. /\ pc[c] \in {"stored", "undo body", "undo tail"} /\ pc' = [pc EXCEPT ![c] = "idle"]
        /\ left' = IF Counted(c) THEN LeftBehind({msg[c]}) ELSE left
        /\ UNCHANGED <<idx, msg, sda, sdaLen>>
    BY <1>10 DEF PosterDies, Goto, tables
  <2>2. CASE Counted(c)
    <3>1. Owners' = Owners \ {msg[c]}
      BY <2>1, <2>2, <1>o
    <3>2. left' = LeftBehind({msg[c]})
      BY <2>1, <2>2
    <3>3. LeavesOwners({msg[c]})
      BY <2>2, <3>1, <1>h DEF LeavesOwners
    <3>. QED  BY <2>1, <3>2, <3>3, <1>0, CountersLeft
  <2>3. CASE ~Counted(c)
    <3>1. \A d \in Clients : Counted(d)' <=> Counted(d)
      BY <2>1, <2>3, <1>p DEF Counted
    <3>2. Owners' = Owners
      BY <2>1, <3>1 DEF Owners, Kept
    <3>. QED  BY <2>1, <2>3, <3>2, <1>3
  <2>. QED  BY <2>2, <2>3
<1>. QED  BY <1>4, <1>5, <1>6, <1>7, <1>8, <1>9, <1>10 DEF AddMessage

LEMMA NextCounters ==
    ASSUME OneField
    PROVE  CounterIndInv /\ [Next]_vars => CountersInv'
<1>. SUFFICES ASSUME CounterIndInv, [Next]_vars, ~Hyper PROVE CountersInv'
  BY DEF CountersInv
<1>0. /\ TypeOK /\ LockInv /\ TextInv /\ FreedInv /\ DataInv /\ DoomedInv /\ CountersInv
      /\ OneFieldIdx
  BY DEF CounterIndInv, DataIndInv, HeaderIndInv, FieldInv
<1>p. pc \in [Clients -> {"idle", "stored", "undo body", "undo tail", "maint"}]
  BY <1>0 DEF TypeOK, ControlOK
<1>3. ASSUME Owners' = Owners, UNCHANGED <<sda, sdaLen, left>> PROVE CountersInv'
  BY <1>3, <1>0 DEF CountersInv
<1>7. ASSUME NEW c \in Clients, NEW doomed, MaintStart(c, doomed) PROVE CountersInv'
  <2>1. /\ pc[c] = "idle" /\ pc' = [pc EXCEPT ![c] = "maint"]
        /\ UNCHANGED <<idx, msg, sda, sdaLen, left>>
    BY <1>7 DEF MaintStart, Goto, tables
  <2>2. \A d \in Clients : Counted(d)' <=> Counted(d)
    BY <2>1, <1>p DEF Counted
  <2>3. Owners' = Owners
    BY <2>1, <2>2 DEF Owners, Kept
  <2>. QED  BY <2>1, <2>3, <1>3
<1>8. ASSUME NEW c \in Clients, NEW e \in idx, Purge(c, e) PROVE CountersInv'
  <2>1. sda' = FreeFields(sda, e.m) /\ UNCHANGED <<sdaLen, left>>
    BY <1>8 DEF Purge
  <2>2. /\ e.m \in Owners /\ Owners' = Owners \ {e.m}
        /\ \A m \in Owners' : m.text # e.m.text
    BY <1>8, <1>0, PurgeFrees
  <2>3. e.m.tail = 0
    BY <1>0 DEF OneFieldIdx
  <2>. QED  BY <2>1, <2>2, <2>3, <1>0, CountersFreed
<1>9. ASSUME NEW c \in Clients, MaintEnd(c) PROVE CountersInv'
  <2>. DEFINE dropped == {e \in idx : e.m.text \in todo}
              ms == {e.m : e \in dropped}
  <2>1. /\ pc[c] = "maint" /\ pc' = [pc EXCEPT ![c] = "idle"]
        /\ idx' = {e \in idx : ~e.del /\ e.m.text \notin todo}
        /\ left' = LeftBehind(ms)
        /\ UNCHANGED <<msg, sda, sdaLen>>
    BY <1>9 DEF MaintEnd, Goto, tables
  <2>2. \A d \in Clients : Counted(d)' <=> Counted(d)
    BY <2>1, <1>p DEF Counted
  <2>3. dropped \subseteq Kept
    BY <1>0 DEF Kept, FreedInv
  <2>4. Kept' = Kept \ dropped
    BY <2>1, <1>0 DEF Kept, DoomedInv
  <2>5. \A d \in Clients : Counted(d) => \A e \in idx : e.m.text # msg[d].text
    BY <1>0 DEF TextInv, Counted, Busy
  <2>6. \A e \in dropped, f \in Kept \ dropped : e.m.text # f.m.text
    BY <2>3, <1>0 DEF Kept
  <2>. HIDE DEF dropped
  <2>7. dropped \subseteq idx
    BY <2>3 DEF Kept
  <2>8. ms \subseteq Owners
    BY <2>3 DEF Owners
  <2>9. Owners' = Owners \ ms
    <3>1. Owners' = {e.m : e \in Kept \ dropped}
                    \cup {msg[d] : d \in {k \in Clients : Counted(k)}}
      BY <2>1, <2>2, <2>4 DEF Owners
    <3>2. \A m \in Owners' : m \notin ms
      BY <3>1, <2>5, <2>6, <2>7
    <3>3. \A m \in Owners \ ms : m \in Owners'
      BY <3>1 DEF Owners
    <3>4. \A m \in Owners' : m \in Owners
      BY <3>1 DEF Owners
    <3>. QED  BY <3>2, <3>3, <3>4
  <2>10. \A m \in ms, k \in Owners \ ms : m.text # k.text
    <3>1. Owners' = {e.m : e \in Kept \ dropped}
                    \cup {msg[d] : d \in {k \in Clients : Counted(k)}}
      BY <2>1, <2>2, <2>4 DEF Owners
    <3>2. \A m \in ms, k \in Owners' : m.text # k.text
      BY <3>1, <2>5, <2>6, <2>7
    <3>. QED  BY <3>2, <2>9
  <2>. HIDE DEF ms
  <2>11. LeavesOwners(ms)
    BY <2>8, <2>9, <2>10 DEF LeavesOwners
  <2>. QED  BY <2>1, <2>11, <1>0, CountersLeft
<1>10. ASSUME NEW e \in idx, FlagDeleted(e) PROVE CountersInv'
  <2>1. /\ idx' = (idx \ {e}) \cup {Flagged(e, FALSE)}
        /\ UNCHANGED <<pc, msg, sda, sdaLen, left>> /\ lock = NoClient
    BY <1>10 DEF FlagDeleted, tables
  <2>2. e \in Kept
    <3>1. \A c \in Clients : pc[c] # "maint"
      BY <2>1, <1>0, NoClientAssumption DEF LockInv
    <3>. QED  BY <3>1, <1>0 DEF FreedInv, Kept
  <2>3. ~Flagged(e, FALSE).freed /\ Flagged(e, FALSE).m = e.m
    BY DEF Flagged
  <2>4. Kept' = (Kept \ {e}) \cup {Flagged(e, FALSE)}
    BY <2>1, <2>3 DEF Kept
  <2>5. {f.m : f \in Kept'} = {f.m : f \in Kept}
    BY <2>2, <2>3, <2>4
  <2>6. Owners' = Owners
    BY <2>1, <2>5 DEF Owners, Counted
  <2>. QED  BY <2>1, <2>6, <1>3
<1>11. CASE UNCHANGED vars
  BY <1>11, <1>3 DEF vars, tables, Owners, Kept, Counted
<1>. QED  BY <1>7, <1>8, <1>9, <1>10, <1>11, AddCounters DEF Next, Maintain

LEMMA CounterIndImplies == CounterIndInv => CountersExact
<1>. SUFFICES ASSUME CounterIndInv, ~Hyper, NEW b \in Block
              PROVE  sda[b] = left[b] + Cardinality({m \in Owners : b \in Extent(m)})
  BY DEF CountersExact
<1>. DEFINE here == {m \in Owners : b \in Extent(m)}
<1>0. TypeOK /\ TextInv /\ DataInv /\ CountersInv
  BY DEF CounterIndInv, DataIndInv, HeaderIndInv
<1>3. CounterRight(b, Owners)
  BY <1>0 DEF CountersInv, CounterRight
<1>l. left[b] \in Nat
  BY <1>3 DEF CounterRight
<1>4. \A m, k \in here : m = k
  BY <1>0, OwnersUnique DEF DataInv
<1>5. CASE here = {}
  <2>1. sda[b] = left[b]
    BY <1>3, <1>5 DEF CounterRight
  <2>2. Cardinality(here) = 0
    BY <1>5, FS_EmptySet
  <2>. QED  BY <2>1, <2>2, <1>l
<1>6. CASE here # {}
  <2>1. PICK m \in here : here = {m}
    BY <1>4, <1>6
  <2>2. sda[b] = 1 /\ left[b] = 0
    BY <2>1, <1>3 DEF CounterRight
  <2>3. Cardinality(here) = 1
    BY <2>1, FS_Singleton
  <2>. QED  BY <2>2, <2>3
<1>. QED  BY <1>5, <1>6

\* Whatever fails or dies, with one data field per message: every counter is at
\* every moment the number of texts in the block, and what was left behind by a
\* failure. No undo takes a reference of somebody else's text away.
THEOREM CountersSafe ==
    ASSUME OneField PROVE Spec => []CountersExact
<1>1. Init => CounterIndInv
  <2>. SUFFICES ASSUME Init PROVE CounterIndInv
    OBVIOUS
  <2>1. DoomedInv
    BY DEF Init, DoomedInv
  <2>2. Owners = {}
    BY DEF Init, Owners, Kept, Counted
  <2>3. CountersInv
    BY <2>2 DEF Init, CountersInv
  <2>. QED  BY <2>1, <2>3, InitDataInd DEF CounterIndInv
<1>2. CounterIndInv /\ [Next]_vars => CounterIndInv'
  <2>1. CounterIndInv /\ [Next]_vars => DataIndInv'
    BY NextDataInd DEF CounterIndInv, Undoable
  <2>2. CounterIndInv /\ [Next]_vars => DoomedInv'
    BY NextDoomed DEF CounterIndInv, DataIndInv, HeaderIndInv
  <2>. QED  BY <2>1, <2>2, NextCounters DEF CounterIndInv
<1>3. CounterIndInv => CountersExact
  BY CounterIndImplies
<1>. QED  BY <1>1, <1>2, <1>3, PTL DEF Spec
=============================================================================

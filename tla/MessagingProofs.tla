--------------------------- MODULE MessagingProofs ---------------------------
(***************************************************************************)
(* Proofs about the event channel, for any events, relays, members,        *)
(* partitions and limits.                                                  *)
(*                                                                         *)
(* The consumer group: no offset covers a message that has ended nowhere,  *)
(* offsets never go back, and a message is read again only after its       *)
(* partition was taken from somebody.  The inductive invariant says what a *)
(* position means: everything below it has ended, except the message its   *)
(* owner has in hand.                                                      *)
(*                                                                         *)
(* The relay: events stay with their transactions, and the relay           *)
(* implements EventDelivery.  Last, both side by side.                     *)
(***************************************************************************)
EXTENDS Messaging, TLAPS

-----------------------------------------------------------------------------
(* The consumer group. *)

Owned(p) == owner[p] \in Consumers

(* What is stored has ended, and an owner starts from there. *)
StoredEnded ==
    /\ CommittedAccounted
    /\ \A p \in Partitions : Owned(p) => committed[p] <= pos[p]

(* What an owner has passed has ended or is in its hands. *)
PassedEnded ==
    \A m \in Messages, c \in Consumers :
        owner[m[1]] = c /\ m[2] <= pos[m[1]] /\ outcome[m] = {}
        => msg[c] = m /\ stage[c] \in InHand

(* A member about to commit is done with its message. *)
DoneEnded ==
    \A c \in Consumers : stage[c] = "committing" => outcome[msg[c]] # {}

(* Who has ended or been stopped has no partition. *)
OwnersAreMembers ==
    \A p \in Partitions, c \in Consumers : owner[p] = c => Member(c)

(* The next readings of a partition are as many as its owners allow. *)
Readings ==
    /\ RepeatsExcused
    /\ \A m \in Messages :
          (Owned(m[1]) => m[2] > pos[m[1]]) => taken[m] <= released[m[1]]

GroupInv == StoredEnded /\ PassedEnded /\ DoneEnded /\ OwnersAreMembers /\ Readings

GroupIInv == GroupTypeOK /\ GroupInv

-----------------------------------------------------------------------------
(* Messages are pairs of a partition and a number up to its last. *)

LEMMA MessageType ==
    \A m \in Messages : m[1] \in Partitions /\ m[2] \in Nat /\ m # NoMessage
  BY GroupAssumption DEF Messages, NoMessage

LEMMA MessageIntro ==
    ASSUME NEW p \in Partitions, NEW i \in 1..Last[p]
    PROVE  /\ <<p, i>> \in Messages
           /\ \A m \in Messages : m[1] = p /\ m[2] = i => m = <<p, i>>
  BY DEF Messages

LEMMA PollKeeps ==
    ASSUME GroupIInv, NEW c \in Consumers, NEW p \in Partitions, Poll(c, p)
    PROVE  GroupIInv'
  <1> USE MessageType DEF GroupIInv, GroupInv, InHand, groupVars, loopVars, histVars
  <1>0. /\ <<p, pos[p] + 1>> \in Messages
        /\ \A m \in Messages : m[1] = p /\ m[2] = pos[p] + 1 => m = <<p, pos[p] + 1>>
    <2>1. pos[p] \in Nat /\ Last[p] \in Nat
      BY GroupAssumption DEF GroupTypeOK
    <2>2. pos[p] < Last[p]
      BY DEF Poll
    <2>3. pos[p] + 1 \in 1..Last[p]
      BY <2>1, <2>2
    <2> QED BY <2>3, MessageIntro
  <1>m. /\ msg' = [msg EXCEPT ![c] = <<p, pos[p] + 1>>]
        /\ taken' = [taken EXCEPT ![<<p, pos[p] + 1>>] = @ + 1]
    BY DEF Poll
  <1>1. GroupTypeOK'
    <2>1. pos' \in [Partitions -> Nat] /\ \A q \in Partitions : pos'[q] <= Last[q]
      <3>1. pos[p] \in Nat /\ Last[p] \in Nat /\ pos[p] < Last[p]
        BY GroupAssumption DEF GroupTypeOK, Poll
      <3>2. pos' = [pos EXCEPT ![p] = pos[p] + 1] /\ pos \in [Partitions -> Nat]
        BY DEF GroupTypeOK, Poll
      <3>3. \A q \in Partitions : pos[q] <= Last[q]
        BY DEF GroupTypeOK
      <3> QED BY <3>1, <3>2, <3>3
    <2>2. /\ msg' \in [Consumers -> Messages \cup {NoMessage}]
          /\ stage' \in [Consumers -> InHand \cup {"stalled", "polling", "committing",
                                                  "ended"}]
          /\ taken' \in [Messages -> Nat]
      BY <1>0, <1>m, SMTT(20) DEF GroupTypeOK, Poll
    <2>3. \A b \in Consumers : msg'[b] # NoMessage <=> stage'[b] \in InHand \cup {"committing"}
      BY <1>0, <1>m, SMTT(20) DEF GroupTypeOK, Poll
    <2> QED BY <2>1, <2>2, <2>3, SMTT(20) DEF GroupTypeOK, Poll
  <1>3. ASSUME NEW m \in Messages, NEW b \in Consumers, owner'[m[1]] = b,
              m[2] <= pos'[m[1]], outcome'[m] = {}
        PROVE  msg'[b] = m /\ stage'[b] \in InHand
    <2>1. CASE m[1] = p /\ m[2] = pos[p] + 1
      <3>1. m = <<p, pos[p] + 1>> /\ b = c
        BY <1>0, <1>3, <2>1 DEF Poll
      <3> QED BY <3>1, <1>m DEF GroupTypeOK, Poll
    <2>2. CASE ~(m[1] = p /\ m[2] = pos[p] + 1)
      <3>1. owner[m[1]] = b /\ outcome[m] = {}
        BY <1>3 DEF Poll
      <3>2. m[2] <= pos[m[1]]
        <4>1. pos' = [pos EXCEPT ![p] = pos[p] + 1] /\ pos \in [Partitions -> Nat]
          BY DEF GroupTypeOK, Poll
        <4>2. m[1] \in Partitions /\ m[2] \in Nat
          BY MessageType
        <4>3. CASE m[1] = p
          BY <1>3, <2>2, <4>1, <4>2, <4>3
        <4>4. CASE m[1] # p
          BY <1>3, <4>1, <4>2, <4>4
        <4> QED BY <4>3, <4>4
      <3>3. msg[b] = m /\ stage[b] \in InHand
        BY <3>1, <3>2 DEF PassedEnded
      <3>4. b # c
        BY <3>3 DEF Poll
      <3> QED BY <3>3, <3>4, <1>m DEF GroupTypeOK, Poll
    <2> QED BY <2>1, <2>2
  <1>2. StoredEnded'
    BY GroupAssumption, <1>0, SMTT(20) DEF GroupTypeOK, StoredEnded,
       CommittedAccounted, Owned, Poll
  <1>4. DoneEnded'
    BY <1>0, SMTT(20) DEF GroupTypeOK, DoneEnded, NoMessage, Poll
  <1>5. OwnersAreMembers'
    BY GroupAssumption, SMTT(20) DEF GroupTypeOK, OwnersAreMembers, Member, Poll
  <1>6. Readings'
    BY GroupAssumption, <1>0, SMTT(20) DEF GroupTypeOK, Readings, RepeatsExcused,
       Owned, Poll
  <1> QED BY <1>1, <1>2, <1>3, <1>4, <1>5, <1>6 DEF PassedEnded, DoneEnded

LEMMA BreakKeeps ==
    ASSUME GroupIInv, NEW c \in Consumers, Break(c)
    PROVE  GroupIInv'
  <1> USE MessageType DEF GroupIInv, GroupInv, InHand, groupVars, loopVars, histVars
  <1>1. GroupTypeOK'
    BY GroupAssumption, SMTT(20) DEF GroupTypeOK, Places, NoMessage, Break, Leave
  <1>2. StoredEnded'
    BY GroupAssumption, SMTT(20) DEF GroupTypeOK, StoredEnded, CommittedAccounted,
       Owned, Break, Leave
  <1>3. ASSUME NEW m \in Messages, NEW b \in Consumers, owner'[m[1]] = b,
              m[2] <= pos'[m[1]], outcome'[m] = {}
        PROVE  msg'[b] = m /\ stage'[b] \in InHand
    BY <1>3, SMTT(20) DEF GroupTypeOK, PassedEnded, OwnersAreMembers, Member,
       Break, Leave
  <1>4. DoneEnded'
    BY SMTT(20) DEF GroupTypeOK, DoneEnded, NoMessage, Break, Leave
  <1>5. OwnersAreMembers'
    BY GroupAssumption, SMTT(20) DEF GroupTypeOK, OwnersAreMembers, Member, Break,
       Leave
  <1>6. Readings'
    BY GroupAssumption, SMTT(20) DEF GroupTypeOK, Readings, RepeatsExcused, Owned,
       Break, Leave
  <1> QED BY <1>1, <1>2, <1>3, <1>4, <1>5, <1>6 DEF PassedEnded, DoneEnded

LEMMA BeginKeeps ==
    ASSUME GroupIInv, NEW c \in Consumers, Begin(c)
    PROVE  GroupIInv'
  <1> USE MessageType DEF GroupIInv, GroupInv, InHand, groupVars, loopVars, histVars
  <1>1. GroupTypeOK'
    BY GroupAssumption, SMTT(20) DEF GroupTypeOK, Places, NoMessage, Begin
  <1>2. StoredEnded'
    BY GroupAssumption, SMTT(20) DEF GroupTypeOK, StoredEnded, CommittedAccounted,
       Owned, Begin
  <1>3. ASSUME NEW m \in Messages, NEW b \in Consumers, owner'[m[1]] = b,
              m[2] <= pos'[m[1]], outcome'[m] = {}
        PROVE  msg'[b] = m /\ stage'[b] \in InHand
    BY <1>3, SMTT(20) DEF GroupTypeOK, PassedEnded, OwnersAreMembers, Member, Begin
  <1>4. DoneEnded'
    BY SMTT(20) DEF GroupTypeOK, DoneEnded, NoMessage, Begin
  <1>5. OwnersAreMembers'
    BY GroupAssumption, SMTT(20) DEF GroupTypeOK, OwnersAreMembers, Member, Begin
  <1>6. Readings'
    BY GroupAssumption, SMTT(20) DEF GroupTypeOK, Readings, RepeatsExcused, Owned,
       Begin
  <1> QED BY <1>1, <1>2, <1>3, <1>4, <1>5, <1>6 DEF PassedEnded, DoneEnded

LEMMA HandleKeeps ==
    ASSUME GroupIInv, NEW c \in Consumers, Handle(c)
    PROVE  GroupIInv'
  <1> USE MessageType DEF GroupIInv, GroupInv, InHand, groupVars, loopVars, histVars
  <1>a. msg[c] \in Messages
    BY SMTT(20) DEF GroupTypeOK, NoMessage, Handle
  <1>b. PICK place : outcome' = [outcome EXCEPT ![msg[c]] = @ \cup {place}]
    BY DEF Handle
  <1>0. /\ outcome'[msg[c]] # {}
        /\ \A m \in Messages : outcome[m] # {} => outcome'[m] # {}
    BY <1>a, <1>b DEF GroupTypeOK
  <1>4. ASSUME NEW b \in Consumers, stage'[b] = "committing"
        PROVE  outcome'[msg'[b]] # {}
    <2>1. CASE b = c
      BY <1>0, <2>1 DEF Handle
    <2>2. CASE b # c
      <3>1. stage[b] = "committing" /\ msg'[b] = msg[b]
        BY <1>4, <2>2 DEF GroupTypeOK, Handle
      <3>2. msg[b] \in Messages /\ outcome[msg[b]] # {}
        BY <3>1 DEF GroupTypeOK, DoneEnded
      <3> QED BY <1>0, <3>1, <3>2
    <2> QED BY <2>1, <2>2
  <1>1. GroupTypeOK'
    BY GroupAssumption, SMTT(20) DEF GroupTypeOK, Places, NoMessage, Handle
  <1>2. StoredEnded'
    BY GroupAssumption, SMTT(20) DEF GroupTypeOK, StoredEnded, CommittedAccounted,
       Owned, Handle
  <1>3. ASSUME NEW m \in Messages, NEW b \in Consumers, owner'[m[1]] = b,
              m[2] <= pos'[m[1]], outcome'[m] = {}
        PROVE  msg'[b] = m /\ stage'[b] \in InHand
    BY <1>3, <1>0, SMTT(20) DEF GroupTypeOK, PassedEnded, OwnersAreMembers,
       Member, Handle
  <1>5. OwnersAreMembers'
    BY GroupAssumption, SMTT(20) DEF GroupTypeOK, OwnersAreMembers, Member, Handle
  <1>6. Readings'
    BY GroupAssumption, SMTT(20) DEF GroupTypeOK, Readings, RepeatsExcused, Owned,
       Handle
  <1> QED BY <1>1, <1>2, <1>3, <1>4, <1>5, <1>6 DEF PassedEnded, DoneEnded

LEMMA HandlerRaisesKeeps ==
    ASSUME GroupIInv, NEW c \in Consumers, HandlerRaises(c)
    PROVE  GroupIInv'
  <1> USE MessageType DEF GroupIInv, GroupInv, InHand, groupVars, loopVars, histVars
  <1>1. GroupTypeOK'
    BY GroupAssumption, SMTT(20) DEF GroupTypeOK, Places, NoMessage, HandlerRaises
  <1>2. StoredEnded'
    BY GroupAssumption, SMTT(20) DEF GroupTypeOK, StoredEnded, CommittedAccounted,
       Owned, HandlerRaises
  <1>3. ASSUME NEW m \in Messages, NEW b \in Consumers, owner'[m[1]] = b,
              m[2] <= pos'[m[1]], outcome'[m] = {}
        PROVE  msg'[b] = m /\ stage'[b] \in InHand
    BY <1>3, SMTT(20) DEF GroupTypeOK, PassedEnded, OwnersAreMembers, Member,
       HandlerRaises
  <1>4. DoneEnded'
    BY SMTT(20) DEF GroupTypeOK, DoneEnded, NoMessage, HandlerRaises
  <1>5. OwnersAreMembers'
    BY GroupAssumption, SMTT(20) DEF GroupTypeOK, OwnersAreMembers, Member,
       HandlerRaises
  <1>6. Readings'
    BY GroupAssumption, SMTT(20) DEF GroupTypeOK, Readings, RepeatsExcused, Owned,
       HandlerRaises
  <1> QED BY <1>1, <1>2, <1>3, <1>4, <1>5, <1>6 DEF PassedEnded, DoneEnded

LEMMA DeadLetterKeeps ==
    ASSUME GroupIInv, NEW c \in Consumers, DeadLetter(c)
    PROVE  GroupIInv'
  <1> USE MessageType DEF GroupIInv, GroupInv, InHand, groupVars, loopVars, histVars
  <1>a. msg[c] \in Messages
    BY SMTT(20) DEF GroupTypeOK, NoMessage, DeadLetter, Published
  <1>b. PICK place : outcome' = [outcome EXCEPT ![msg[c]] = @ \cup {place}]
    BY DEF DeadLetter, Published
  <1>0. /\ outcome'[msg[c]] # {}
        /\ \A m \in Messages : outcome[m] # {} => outcome'[m] # {}
    BY <1>a, <1>b DEF GroupTypeOK
  <1>4. ASSUME NEW b \in Consumers, stage'[b] = "committing"
        PROVE  outcome'[msg'[b]] # {}
    <2>1. CASE b = c
      BY <1>0, <2>1 DEF DeadLetter, Published
    <2>2. CASE b # c
      <3>1. stage[b] = "committing" /\ msg'[b] = msg[b]
        BY <1>4, <2>2 DEF GroupTypeOK, DeadLetter, Published
      <3>2. msg[b] \in Messages /\ outcome[msg[b]] # {}
        BY <3>1 DEF GroupTypeOK, DoneEnded
      <3> QED BY <1>0, <3>1, <3>2
    <2> QED BY <2>1, <2>2
  <1>1. GroupTypeOK'
    BY GroupAssumption, SMTT(20) DEF GroupTypeOK, Places, NoMessage, DeadLetter,
       Published
  <1>2. StoredEnded'
    BY GroupAssumption, SMTT(20) DEF GroupTypeOK, StoredEnded, CommittedAccounted,
       Owned, DeadLetter, Published
  <1>3. ASSUME NEW m \in Messages, NEW b \in Consumers, owner'[m[1]] = b,
              m[2] <= pos'[m[1]], outcome'[m] = {}
        PROVE  msg'[b] = m /\ stage'[b] \in InHand
    BY <1>3, <1>0, SMTT(20) DEF GroupTypeOK, PassedEnded, OwnersAreMembers,
       Member, DeadLetter, Published
  <1>5. OwnersAreMembers'
    BY GroupAssumption, SMTT(20) DEF GroupTypeOK, OwnersAreMembers, Member,
       DeadLetter, Published
  <1>6. Readings'
    BY GroupAssumption, SMTT(20) DEF GroupTypeOK, Readings, RepeatsExcused, Owned,
       DeadLetter, Published
  <1> QED BY <1>1, <1>2, <1>3, <1>4, <1>5, <1>6 DEF PassedEnded, DoneEnded

LEMMA CommitOffsetsKeeps ==
    ASSUME GroupIInv, NEW c \in Consumers, CommitOffsets(c)
    PROVE  GroupIInv'
  <1> USE MessageType DEF GroupIInv, GroupInv, InHand, groupVars, loopVars, histVars
  <1>1. GroupTypeOK'
    BY GroupAssumption, SMTT(20) DEF GroupTypeOK, Places, NoMessage, CommitOffsets
  <1>2. StoredEnded'
    BY GroupAssumption, SMTT(20) DEF GroupTypeOK, StoredEnded, CommittedAccounted,
       Owned, CommitOffsets, PassedEnded, DoneEnded, OwnersAreMembers, Member
  <1>3. ASSUME NEW m \in Messages, NEW b \in Consumers, owner'[m[1]] = b,
              m[2] <= pos'[m[1]], outcome'[m] = {}
        PROVE  msg'[b] = m /\ stage'[b] \in InHand
    BY <1>3, SMTT(20) DEF GroupTypeOK, PassedEnded, OwnersAreMembers, Member,
       CommitOffsets
  <1>4. DoneEnded'
    BY SMTT(20) DEF GroupTypeOK, DoneEnded, NoMessage, CommitOffsets
  <1>5. OwnersAreMembers'
    BY GroupAssumption, SMTT(20) DEF GroupTypeOK, OwnersAreMembers, Member,
       CommitOffsets
  <1>6. Readings'
    BY GroupAssumption, SMTT(20) DEF GroupTypeOK, Readings, RepeatsExcused, Owned,
       CommitOffsets
  <1> QED BY <1>1, <1>2, <1>3, <1>4, <1>5, <1>6 DEF PassedEnded, DoneEnded

LEMMA CommitFailsKeeps ==
    ASSUME GroupIInv, NEW c \in Consumers, CommitFails(c)
    PROVE  GroupIInv'
  <1> USE MessageType DEF GroupIInv, GroupInv, InHand, groupVars, loopVars, histVars
  <1>1. GroupTypeOK'
    BY GroupAssumption, SMTT(20) DEF GroupTypeOK, Places, NoMessage, CommitFails,
       Leave, Release, Fault
  <1>2. StoredEnded'
    BY GroupAssumption, SMTT(20) DEF GroupTypeOK, StoredEnded, CommittedAccounted,
       Owned, CommitFails, Leave, Release, Fault
  <1>3. ASSUME NEW m \in Messages, NEW b \in Consumers, owner'[m[1]] = b,
              m[2] <= pos'[m[1]], outcome'[m] = {}
        PROVE  msg'[b] = m /\ stage'[b] \in InHand
    BY <1>3, GroupAssumption, SMTT(20) DEF GroupTypeOK, PassedEnded,
       OwnersAreMembers, Member, CommitFails, Leave, Release, Fault
  <1>4. DoneEnded'
    BY SMTT(20) DEF GroupTypeOK, DoneEnded, NoMessage, CommitFails, Leave,
       Release, Fault
  <1>5. OwnersAreMembers'
    BY GroupAssumption, SMTT(20) DEF GroupTypeOK, OwnersAreMembers, Member,
       CommitFails, Leave, Release, Fault
  <1>6. Readings'
    BY GroupAssumption, SMTT(20) DEF GroupTypeOK, Readings, RepeatsExcused, Owned,
       CommitFails, Leave, Release, Fault, StoredEnded
  <1> QED BY <1>1, <1>2, <1>3, <1>4, <1>5, <1>6 DEF PassedEnded, DoneEnded

LEMMA StopConsumerKeeps ==
    ASSUME GroupIInv, NEW c \in Consumers, StopConsumer(c)
    PROVE  GroupIInv'
  <1> USE MessageType DEF GroupIInv, GroupInv, InHand, groupVars, loopVars, histVars
  <1>1. GroupTypeOK'
    BY GroupAssumption, SMTT(20) DEF GroupTypeOK, Places, NoMessage, StopConsumer,
       Release, Fault
  <1>2. StoredEnded'
    BY GroupAssumption, SMTT(20) DEF GroupTypeOK, StoredEnded, CommittedAccounted,
       Owned, StopConsumer, Release, Fault
  <1>3. ASSUME NEW m \in Messages, NEW b \in Consumers, owner'[m[1]] = b,
              m[2] <= pos'[m[1]], outcome'[m] = {}
        PROVE  msg'[b] = m /\ stage'[b] \in InHand
    BY <1>3, GroupAssumption, SMTT(20) DEF GroupTypeOK, PassedEnded,
       OwnersAreMembers, Member, StopConsumer, Release, Fault
  <1>4. DoneEnded'
    BY SMTT(20) DEF GroupTypeOK, DoneEnded, NoMessage, StopConsumer, Release, Fault
  <1>5. OwnersAreMembers'
    BY GroupAssumption, SMTT(20) DEF GroupTypeOK, OwnersAreMembers, Member,
       StopConsumer, Release, Fault
  <1>6. Readings'
    BY GroupAssumption, SMTT(20) DEF GroupTypeOK, Readings, RepeatsExcused, Owned,
       StopConsumer, Release, Fault, StoredEnded
  <1> QED BY <1>1, <1>2, <1>3, <1>4, <1>5, <1>6 DEF PassedEnded, DoneEnded

LEMMA CrashKeeps ==
    ASSUME GroupIInv, NEW c \in Consumers, Crash(c)
    PROVE  GroupIInv'
  <1> USE MessageType DEF GroupIInv, GroupInv, InHand, groupVars, loopVars, histVars
  <1>1. GroupTypeOK'
    BY GroupAssumption, SMTT(20) DEF GroupTypeOK, Places, NoMessage, Crash, Leave,
       Release, Fault
  <1>2. StoredEnded'
    BY GroupAssumption, SMTT(20) DEF GroupTypeOK, StoredEnded, CommittedAccounted,
       Owned, Crash, Leave, Release, Fault
  <1>3. ASSUME NEW m \in Messages, NEW b \in Consumers, owner'[m[1]] = b,
              m[2] <= pos'[m[1]], outcome'[m] = {}
        PROVE  msg'[b] = m /\ stage'[b] \in InHand
    BY <1>3, GroupAssumption, SMTT(20) DEF GroupTypeOK, PassedEnded,
       OwnersAreMembers, Member, Crash, Leave, Release, Fault
  <1>4. DoneEnded'
    BY SMTT(20) DEF GroupTypeOK, DoneEnded, NoMessage, Crash, Leave, Release, Fault
  <1>5. OwnersAreMembers'
    BY GroupAssumption, SMTT(20) DEF GroupTypeOK, OwnersAreMembers, Member, Crash,
       Leave, Release, Fault
  <1>6. Readings'
    BY GroupAssumption, SMTT(20) DEF GroupTypeOK, Readings, RepeatsExcused, Owned,
       Crash, Leave, Release, Fault, StoredEnded
  <1> QED BY <1>1, <1>2, <1>3, <1>4, <1>5, <1>6 DEF PassedEnded, DoneEnded

LEMMA JoinKeeps ==
    ASSUME GroupIInv, NEW c \in Consumers, Join(c)
    PROVE  GroupIInv'
  <1> USE MessageType DEF GroupIInv, GroupInv, InHand, groupVars, loopVars, histVars
  <1>1. GroupTypeOK'
    BY GroupAssumption, SMTT(20) DEF GroupTypeOK, Places, NoMessage, Join
  <1>2. StoredEnded'
    BY GroupAssumption, SMTT(20) DEF GroupTypeOK, StoredEnded, CommittedAccounted,
       Owned, Join
  <1>3. ASSUME NEW m \in Messages, NEW b \in Consumers, owner'[m[1]] = b,
              m[2] <= pos'[m[1]], outcome'[m] = {}
        PROVE  msg'[b] = m /\ stage'[b] \in InHand
    BY <1>3, SMTT(20) DEF GroupTypeOK, PassedEnded, OwnersAreMembers, Member, Join
  <1>4. DoneEnded'
    BY SMTT(20) DEF GroupTypeOK, DoneEnded, NoMessage, Join
  <1>5. OwnersAreMembers'
    BY GroupAssumption, SMTT(20) DEF GroupTypeOK, OwnersAreMembers, Member, Join
  <1>6. Readings'
    BY GroupAssumption, SMTT(20) DEF GroupTypeOK, Readings, RepeatsExcused, Owned,
       Join
  <1> QED BY <1>1, <1>2, <1>3, <1>4, <1>5, <1>6 DEF PassedEnded, DoneEnded

LEMMA JoinStalledKeeps ==
    ASSUME GroupIInv, NEW c \in Consumers, JoinStalled(c)
    PROVE  GroupIInv'
  <1> USE MessageType DEF GroupIInv, GroupInv, InHand, groupVars, loopVars, histVars
  <1>1. GroupTypeOK'
    BY GroupAssumption, SMTT(20) DEF GroupTypeOK, Places, NoMessage, JoinStalled,
       Fault
  <1>2. StoredEnded'
    BY GroupAssumption, SMTT(20) DEF GroupTypeOK, StoredEnded, CommittedAccounted,
       Owned, JoinStalled, Fault
  <1>3. ASSUME NEW m \in Messages, NEW b \in Consumers, owner'[m[1]] = b,
              m[2] <= pos'[m[1]], outcome'[m] = {}
        PROVE  msg'[b] = m /\ stage'[b] \in InHand
    BY <1>3, SMTT(20) DEF GroupTypeOK, PassedEnded, OwnersAreMembers, Member,
       JoinStalled, Fault
  <1>4. DoneEnded'
    BY SMTT(20) DEF GroupTypeOK, DoneEnded, NoMessage, JoinStalled, Fault
  <1>5. OwnersAreMembers'
    BY GroupAssumption, SMTT(20) DEF GroupTypeOK, OwnersAreMembers, Member,
       JoinStalled, Fault
  <1>6. Readings'
    BY GroupAssumption, SMTT(20) DEF GroupTypeOK, Readings, RepeatsExcused, Owned,
       JoinStalled, Fault
  <1> QED BY <1>1, <1>2, <1>3, <1>4, <1>5, <1>6 DEF PassedEnded, DoneEnded

LEMMA ExpireKeeps ==
    ASSUME GroupIInv, NEW c \in Consumers, Expire(c)
    PROVE  GroupIInv'
  <1> USE MessageType DEF GroupIInv, GroupInv, InHand, groupVars, loopVars, histVars
  <1>1. GroupTypeOK'
    BY GroupAssumption, SMTT(20) DEF GroupTypeOK, Places, NoMessage, Expire,
       Leave, Release
  <1>2. StoredEnded'
    BY GroupAssumption, SMTT(20) DEF GroupTypeOK, StoredEnded, CommittedAccounted,
       Owned, Expire, Leave, Release
  <1>3. ASSUME NEW m \in Messages, NEW b \in Consumers, owner'[m[1]] = b,
              m[2] <= pos'[m[1]], outcome'[m] = {}
        PROVE  msg'[b] = m /\ stage'[b] \in InHand
    BY <1>3, GroupAssumption, SMTT(20) DEF GroupTypeOK, PassedEnded,
       OwnersAreMembers, Member, Expire, Leave, Release
  <1>4. DoneEnded'
    BY SMTT(20) DEF GroupTypeOK, DoneEnded, NoMessage, Expire, Leave, Release
  <1>5. OwnersAreMembers'
    BY GroupAssumption, SMTT(20) DEF GroupTypeOK, OwnersAreMembers, Member,
       Expire, Leave, Release
  <1>6. Readings'
    BY GroupAssumption, SMTT(20) DEF GroupTypeOK, Readings, RepeatsExcused, Owned,
       Expire, Leave, Release, StoredEnded
  <1> QED BY <1>1, <1>2, <1>3, <1>4, <1>5, <1>6 DEF PassedEnded, DoneEnded

LEMMA AssignKeeps ==
    ASSUME GroupIInv, NEW c \in Consumers, NEW p \in Partitions, Assign(p, c)
    PROVE  GroupIInv'
  <1> USE MessageType DEF GroupIInv, GroupInv, InHand, groupVars, loopVars, histVars
  <1>0. faults' \in 0..MaxFaults /\ released' \in [Partitions -> Nat]
    BY GroupAssumption, SMTT(20) DEF GroupTypeOK, Assign, Fault
  <1>1. GroupTypeOK'
    <2>1. owner' \in [Partitions -> Consumers \cup {NoOne}] /\ pos' \in [Partitions -> Nat]
      BY SMTT(20) DEF GroupTypeOK, Assign, Resume
    <2>2. \A q \in Partitions : committed'[q] <= Last[q] /\ pos'[q] <= Last[q]
      BY SMTT(20) DEF GroupTypeOK, Assign, Resume
    <2> QED BY <1>0, <2>1, <2>2, SMTT(20) DEF GroupTypeOK, Assign
  <1>2. StoredEnded'
    BY GroupAssumption, SMTT(20) DEF GroupTypeOK, StoredEnded, CommittedAccounted,
       Owned, Assign, Resume, Fault
  <1>3. ASSUME NEW m \in Messages, NEW b \in Consumers, owner'[m[1]] = b,
              m[2] <= pos'[m[1]], outcome'[m] = {}
        PROVE  msg'[b] = m /\ stage'[b] \in InHand
    BY <1>3, SMTT(20) DEF GroupTypeOK, PassedEnded, OwnersAreMembers, Member,
       Assign, Resume, Fault, StoredEnded, CommittedAccounted, Owned
  <1>4. DoneEnded'
    BY SMTT(20) DEF GroupTypeOK, DoneEnded, NoMessage, Assign, Resume, Fault
  <1>5. OwnersAreMembers'
    BY GroupAssumption, SMTT(20) DEF GroupTypeOK, OwnersAreMembers, Member,
       Assign, Resume, Fault
  <1>6. Readings'
    BY GroupAssumption, SMTT(20) DEF GroupTypeOK, Readings, RepeatsExcused, Owned,
       Assign, Resume, Fault, StoredEnded
  <1> QED BY <1>1, <1>2, <1>3, <1>4, <1>5, <1>6 DEF PassedEnded, DoneEnded

-----------------------------------------------------------------------------
(* The group starts within the invariant and no step leaves it. *)

LEMMA GroupInitInvariant == GroupInit => GroupIInv
  <1> SUFFICES ASSUME GroupInit PROVE GroupIInv
    OBVIOUS
  <1> USE MessageType, GroupAssumption DEF GroupInit, InHand, NoMessage
  <1>0. \A m \in Messages : m[1] \in Partitions /\ m[2] \in Nat /\ ~(m[2] <= 0)
    BY DEF Messages
  <1>1. GroupTypeOK
    BY SMTT(20) DEF GroupTypeOK, Places
  <1>2. StoredEnded /\ PassedEnded /\ OwnersAreMembers
    BY <1>0, SMTT(20) DEF StoredEnded, CommittedAccounted, PassedEnded,
       OwnersAreMembers, Owned, Member
  <1>3. DoneEnded
    BY DEF DoneEnded
  <1>4. Readings
    BY SMTT(20) DEF Readings, RepeatsExcused, Owned
  <1> QED BY <1>1, <1>2, <1>3, <1>4 DEF GroupIInv, GroupInv

LEMMA GroupStutterKeeps == ASSUME GroupIInv, UNCHANGED consumerVars PROVE GroupIInv'
  <1> USE DEF consumerVars, groupVars, loopVars, histVars, GroupIInv, GroupInv
  <1>1. GroupTypeOK'
    BY DEF GroupTypeOK
  <1>2. (StoredEnded /\ PassedEnded /\ DoneEnded)'
    BY DEF StoredEnded, CommittedAccounted, PassedEnded, DoneEnded, Owned
  <1>3. (OwnersAreMembers /\ Readings)'
    BY DEF OwnersAreMembers, Readings, RepeatsExcused, Owned, Member
  <1> QED BY <1>1, <1>2, <1>3

LEMMA GroupNextInvariant == GroupIInv /\ [GroupNext]_consumerVars => GroupIInv'
  <1> SUFFICES ASSUME GroupIInv, [GroupNext]_consumerVars PROVE GroupIInv'
    OBVIOUS
  <1>1. ASSUME NEW c \in Consumers, Step(c) PROVE GroupIInv'
    BY <1>1, PollKeeps, BreakKeeps, BeginKeeps, HandleKeeps, HandlerRaisesKeeps,
       DeadLetterKeeps, CommitOffsetsKeeps, CommitFailsKeeps DEF Step
  <1>2. ASSUME NEW c \in Consumers,
               StopConsumer(c) \/ Crash(c) \/ Join(c) \/ JoinStalled(c) \/ Expire(c)
        PROVE  GroupIInv'
    BY <1>2, StopConsumerKeeps, CrashKeeps, JoinKeeps, JoinStalledKeeps, ExpireKeeps
  <1>3. ASSUME NEW p \in Partitions, NEW c \in Consumers, Assign(p, c) PROVE GroupIInv'
    BY <1>3, AssignKeeps
  <1>4. CASE UNCHANGED consumerVars
    BY <1>4, GroupStutterKeeps
  <1> QED BY <1>1, <1>2, <1>3, <1>4 DEF GroupNext

(* What a position means holds for good: all below it has ended, except the
   message its owner is working on (start and _process_message). *)
THEOREM GroupInvariant == GroupSpec => []GroupIInv
  BY GroupInitInvariant, GroupNextInvariant, PTL DEF GroupSpec

(* The consumers' variables keep their types, and a member holds a message
   exactly while one of its iterations is under way. *)
THEOREM GroupTypeCorrect == GroupSpec => []GroupTypeOK
  BY GroupInvariant, PTL DEF GroupIInv

(* A stored offset covers no message that was neither handled nor put aside,
   although commit() stores positions and not the message's own offset. *)
THEOREM NothingSkipped == GroupSpec => []CommittedAccounted
  <1>1. GroupIInv => CommittedAccounted
    BY DEF GroupIInv, GroupInv, StoredEnded
  <1> QED BY <1>1, GroupInvariant, PTL

(* A message is read again only when its partition was taken from an owner:
   neither a raising handler nor a poison message makes a consumer repeat. *)
THEOREM RereadExcused == GroupSpec => []RepeatsExcused
  <1>1. GroupIInv => RepeatsExcused
    BY DEF GroupIInv, GroupInv, Readings
  <1> QED BY <1>1, GroupInvariant, PTL

(* A step that stores offsets stores none below the one already there, the
   late commit of a member that lost some of its partitions included. *)
LEMMA StepForward ==
    GroupIInv /\ [GroupNext]_consumerVars
    => [\A p \in Partitions : committed'[p] >= committed[p]]_consumerVars
  <1> SUFFICES ASSUME GroupIInv, GroupNext
               PROVE  \A p \in Partitions : committed'[p] >= committed[p]
    OBVIOUS
  <1> USE DEF GroupIInv, GroupTypeOK, groupVars, loopVars, histVars
  <1>1. ASSUME NEW c \in Consumers, CommitOffsets(c)
        PROVE  \A p \in Partitions : committed'[p] >= committed[p]
    BY <1>1, SMTT(20) DEF CommitOffsets, GroupInv, StoredEnded, Owned
  <1>2. ASSUME UNCHANGED committed
        PROVE  \A p \in Partitions : committed'[p] >= committed[p]
    BY <1>2, SMTT(20)
  <1>3. \/ \E c \in Consumers : CommitOffsets(c)
        \/ UNCHANGED committed
    BY DEF GroupNext, Step, Poll, Break, Begin, Handle, HandlerRaises, DeadLetter,
           CommitFails, StopConsumer, Crash, Join, JoinStalled, Expire, Assign
  <1> QED BY <1>1, <1>2, <1>3

THEOREM OffsetsForward == GroupSpec => OffsetsMoveForward
  BY GroupInvariant, StepForward, PTL DEF GroupSpec, OffsetsMoveForward

(* A consumer group loses no message to its offsets, rereads none on its own
   account and never moves an offset back. *)
THEOREM GroupKept == GroupSpec => ConsumptionKept
  BY GroupTypeCorrect, NothingSkipped, RereadExcused, OffsetsForward, PTL
     DEF ConsumptionKept

-----------------------------------------------------------------------------
(* The outbox relay. *)

USE EventsAssumption, LimitsAssumption

LEMMA InitIInv == Init => IInv
  BY DEF Init, IInv, TypeOK, BatchesDisjoint, RowOfCommittedTxn,
         SessionsConsistent, UnsentExcused, Sent, PublishedHasCopy,
         NoPhantomEvent, DuplicatesExcused, GivenUpWhenExhausted, Row,
         RowStatus, NoRow, NoSession

(* What a relay selects is unlocked and retryable. *)
LEMMA OldestSubset == \A S, n : Oldest(S, n) \subseteq S
  BY DEF Oldest

(* Under the invariant a row worth retrying is a pending one. *)
LEMMA RetryableIsPending ==
  ASSUME TypeOK, GivenUpWhenExhausted, NEW e \in Events, Retryable(e)
  PROVE  row[e].status = "pending" /\ row[e].retries < MaxRetries
  BY DEF TypeOK, GivenUpWhenExhausted, Retryable, Row

LEMMA HandlerPreservesIInv ==
  ASSUME IInv, NEW e \in Events, Schedule(e) \/ Commit(e) \/ Rollback(e)
  PROVE  IInv'
<1> USE DEF IInv, TypeOK, BatchesDisjoint, RowOfCommittedTxn,
            SessionsConsistent, UnsentExcused, Sent, PublishedHasCopy,
            NoPhantomEvent, DuplicatesExcused, GivenUpWhenExhausted, Row,
            RowStatus, NewRow, relayVars, brokerVars, envVars, dbVars
<1>1. CASE Schedule(e)
  BY <1>1 DEF Schedule
<1>2. CASE Rollback(e)
  BY <1>2 DEF Rollback
<1>3. CASE Commit(e)
  <2>1. row[e].status = "absent" /\ \A r \in Relays : e \notin batch[r]
    BY <1>3 DEF Commit
  <2>2. \A f \in Events : f # e => row'[f] = row[f] /\ txn'[f] = txn[f]
    BY <1>3 DEF Commit
  <2>3. row'[e] = NewRow /\ txn'[e] = "committed"
    BY <1>3 DEF Commit
  <2>4. TypeOK'
    BY <1>3 DEF Commit
  <2>5. SessionsConsistent'
    BY <1>3, <2>1, <2>2 DEF Commit
  <2>6. UnsentExcused'
    BY <1>3, <2>1, <2>2, <2>3 DEF Commit
  <2>7. QED
    BY <1>3, <2>1, <2>2, <2>3, <2>4, <2>5, <2>6 DEF Commit
<1>4. QED
  BY <1>1, <1>2, <1>3

LEMMA FetchPreservesIInv ==
  ASSUME IInv, NEW r \in Relays, Fetch(r)
  PROVE  IInv'
<1> DEFINE rows == Oldest({e \in Events : Retryable(e) /\ ~Locked(e)}, BatchSize)
<1> USE DEF IInv, TypeOK, relayVars, brokerVars, envVars, dbVars
<1>1. rows \subseteq Events /\ \A e \in rows : Retryable(e) /\ ~Locked(e)
  BY OldestSubset
<1> HIDE DEF rows
<1>2. /\ batch' = [batch EXCEPT ![r] = rows]
      /\ todo' = [todo EXCEPT ![r] = rows]
      /\ mem' = [mem EXCEPT ![r] = row]
      /\ UNCHANGED <<dbVars, running, attempt, brokerVars, envVars>>
      /\ batch[r] = {}
  BY DEF Fetch, rows
<1>3. \A e \in rows : row[e].status = "pending" /\ row[e].retries < MaxRetries
  BY <1>1, RetryableIsPending
<1>4. TypeOK'
  BY <1>1, <1>2
<1>5. BatchesDisjoint'
  BY <1>1, <1>2 DEF BatchesDisjoint, Locked
<1>6. SessionsConsistent'
  BY <1>1, <1>2, <1>3 DEF SessionsConsistent
<1>7. UnsentExcused'
  <2>1. \A e \in Events, s \in Relays :
          e \in batch[s] /\ mem[s][e].status = "published"
            => e \in batch'[s] /\ mem'[s][e].status = "published"
    BY <1>2
  <2>2. QED
    BY <1>2, <2>1 DEF UnsentExcused, Sent
<1>8. QED
  BY <1>2, <1>4, <1>5, <1>6, <1>7
     DEF RowOfCommittedTxn, PublishedHasCopy, NoPhantomEvent,
         DuplicatesExcused, GivenUpWhenExhausted

(* A send settles the event the loop is at, or only counts the failure. *)
LEMMA SendPreservesIInv ==
  ASSUME IInv, NEW r \in Relays, NEW e \in Events, Send(r, e)
  PROVE  IInv'
<1> USE DEF IInv, TypeOK, relayVars, brokerVars, envVars, dbVars
<1>1. /\ e \in todo[r] /\ e \in batch[r]
      /\ mem[r][e] = row[e]
      /\ row[e].status = "pending" /\ row[e].retries < MaxRetries
      /\ txn[e] = "committed"
  BY DEF Send, SendAcked, SendFails, SendAckLost, PublishExhausted, Current,
         SessionsConsistent, GivenUpWhenExhausted, RowOfCommittedTxn
<1>2. \A s \in Relays : s # r => e \notin batch[s]
  BY <1>1 DEF BatchesDisjoint
<1>3. copies[e] <= excuse[e]
  BY <1>1, <1>2 DEF UnsentExcused, Sent, Row
<1>4. CASE SendFails(r, e)
  BY <1>4 DEF SendFails, BatchesDisjoint, RowOfCommittedTxn,
              SessionsConsistent, UnsentExcused, Sent, PublishedHasCopy,
              NoPhantomEvent, DuplicatesExcused, GivenUpWhenExhausted
<1>5. CASE SendAckLost(r, e)
  <2>1. /\ copies' = [copies EXCEPT ![e] = @ + 1]
        /\ excuse' = [excuse EXCEPT ![e] = @ + 1]
        /\ UNCHANGED <<dbVars, running, batch, todo, mem, dlq, rollbacks>>
    BY <1>5 DEF SendAckLost
  <2>2. TypeOK'
    BY <1>5, <2>1 DEF SendAckLost
  <2>3. \A f \in Events : /\ copies'[f] >= copies[f]
                          /\ f # e => copies'[f] = copies[f] /\ excuse'[f] = excuse[f]
                          /\ copies'[e] = copies[e] + 1 /\ excuse'[e] = excuse[e] + 1
    BY <2>1
  <2>4. UnsentExcused' /\ DuplicatesExcused'
    BY <1>3, <2>1, <2>3 DEF UnsentExcused, Sent, DuplicatesExcused
  <2>5. SessionsConsistent' /\ PublishedHasCopy' /\ NoPhantomEvent'
    BY <1>1, <2>1, <2>3 DEF SessionsConsistent, PublishedHasCopy, NoPhantomEvent
  <2>6. BatchesDisjoint' /\ RowOfCommittedTxn' /\ GivenUpWhenExhausted'
    <3>1. txn' = txn /\ row' = row /\ batch' = batch
      BY <2>1
    <3>2. BatchesDisjoint'
      BY <3>1 DEF BatchesDisjoint
    <3>3. RowOfCommittedTxn'
      BY <3>1 DEF RowOfCommittedTxn
    <3>4. GivenUpWhenExhausted'
      BY <3>1 DEF GivenUpWhenExhausted
    <3>5. QED
      BY <3>2, <3>3, <3>4
  <2>7. QED
    BY <2>2, <2>4, <2>5, <2>6
<1>6. CASE SendAcked(r, e)
  <2>1. /\ copies' = [copies EXCEPT ![e] = @ + 1]
        /\ mem' = [mem EXCEPT ![r][e] = AfterSuccess(@)]
        /\ todo' = [todo EXCEPT ![r] = @ \ {e}]
        /\ UNCHANGED <<dbVars, running, batch, dlq, envVars>>
    BY <1>6 DEF SendAcked
  <2>2. TypeOK'
    BY <1>1, <1>6, <2>1 DEF SendAcked, AfterSuccess, Row, RowStatus
  <2>3. /\ copies'[e] = copies[e] + 1
        /\ \A f \in Events : f # e => copies'[f] = copies[f]
    BY <2>1
  <2>4. /\ mem'[r][e] = AfterSuccess(row[e])
        /\ \A s \in Relays, f \in Events : s # r \/ f # e => mem'[s][f] = mem[s][f]
    BY <1>1, <2>1
  <2>5. SessionsConsistent'
    BY <1>1, <1>2, <2>1, <2>3, <2>4 DEF SessionsConsistent, AfterSuccess
  <2>6. UnsentExcused' /\ DuplicatesExcused'
    <3>1. excuse' = excuse /\ row' = row /\ batch' = batch
      BY <2>1
    <3>2. Sent(e)'
      BY <1>1, <2>4, <3>1 DEF Sent, AfterSuccess
    <3>3. \A f \in Events : f # e /\ Sent(f) => Sent(f)'
      BY <2>4, <3>1 DEF Sent
    <3>4. UnsentExcused'
      BY <2>3, <3>1, <3>2, <3>3 DEF UnsentExcused
    <3>5. DuplicatesExcused'
      BY <1>3, <2>3, <3>1 DEF DuplicatesExcused
    <3>6. QED
      BY <3>4, <3>5
  <2>7. PublishedHasCopy' /\ NoPhantomEvent'
    BY <1>1, <2>1, <2>3 DEF PublishedHasCopy, NoPhantomEvent
  <2>8. BatchesDisjoint' /\ RowOfCommittedTxn' /\ GivenUpWhenExhausted'
    <3>1. txn' = txn /\ row' = row /\ batch' = batch
      BY <2>1
    <3>2. BatchesDisjoint'
      BY <3>1 DEF BatchesDisjoint
    <3>3. RowOfCommittedTxn'
      BY <3>1 DEF RowOfCommittedTxn
    <3>4. GivenUpWhenExhausted'
      BY <3>1 DEF GivenUpWhenExhausted
    <3>5. QED
      BY <3>2, <3>3, <3>4
  <2>9. QED
    BY <2>2, <2>5, <2>6, <2>7, <2>8
<1>7. CASE PublishExhausted(r, e)
  <2>1. /\ \E routed \in {0, 1} : dlq' = [dlq EXCEPT ![e] = @ + routed]
        /\ mem' = [mem EXCEPT ![r][e] = AfterFailure(@)]
        /\ todo' = [todo EXCEPT ![r] = @ \ {e}]
        /\ UNCHANGED <<dbVars, running, batch, copies, envVars>>
    BY <1>7 DEF PublishExhausted
  <2>2. /\ AfterFailure(row[e]) \in Row
        /\ AfterFailure(row[e]).status = "failed"
             => AfterFailure(row[e]).retries = MaxRetries
        /\ AfterFailure(row[e]).status = "pending"
             => AfterFailure(row[e]).retries < MaxRetries
        /\ AfterFailure(row[e]).status \in {"pending", "failed"}
    <3>1. row[e].retries \in Nat /\ row[e].retries + 1 \in 0..MaxRetries
      BY <1>1 DEF Row
    <3>2. AfterFailure(row[e]).status \in {"pending", "failed"}
      BY DEF AfterFailure
    <3>3. AfterFailure(row[e]).retries = row[e].retries + 1
      BY DEF AfterFailure
    <3>4. AfterFailure(row[e]) \in Row
      BY <3>1 DEF AfterFailure, Row, RowStatus
    <3>5. (AfterFailure(row[e]).status = "failed") = (row[e].retries + 1 >= MaxRetries)
      BY DEF AfterFailure
    <3>6. QED
      BY <1>1, <3>1, <3>2, <3>3, <3>4, <3>5
  <2>3. TypeOK'
    BY <1>1, <1>7, <2>1, <2>2 DEF PublishExhausted
  <2>4. /\ mem'[r][e] = AfterFailure(row[e])
        /\ \A s \in Relays, f \in Events : s # r \/ f # e => mem'[s][f] = mem[s][f]
    BY <1>1, <2>1
  <2>5. SessionsConsistent'
    BY <1>1, <1>2, <2>1, <2>2, <2>4 DEF SessionsConsistent
  <2>6. UnsentExcused'
    BY <1>1, <1>3, <2>1, <2>4 DEF UnsentExcused, Sent
  <2>7. NoPhantomEvent'
    BY <1>1, <2>1 DEF NoPhantomEvent
  <2>8. BatchesDisjoint' /\ RowOfCommittedTxn' /\ GivenUpWhenExhausted'
    <3>1. txn' = txn /\ row' = row /\ batch' = batch
      BY <2>1
    <3>2. BatchesDisjoint'
      BY <3>1 DEF BatchesDisjoint
    <3>3. RowOfCommittedTxn'
      BY <3>1 DEF RowOfCommittedTxn
    <3>4. GivenUpWhenExhausted'
      BY <3>1 DEF GivenUpWhenExhausted
    <3>5. QED
      BY <3>2, <3>3, <3>4
  <2>9. PublishedHasCopy' /\ DuplicatesExcused'
    BY <2>1 DEF PublishedHasCopy, DuplicatesExcused
  <2>10. QED
    BY <2>3, <2>5, <2>6, <2>7, <2>8, <2>9
<1>8. QED
  BY <1>4, <1>5, <1>6, <1>7 DEF Send

LEMMA CommitBatchPreservesIInv ==
  ASSUME IInv, NEW r \in Relays, CommitBatch(r)
  PROVE  IInv'
<1> USE DEF IInv, TypeOK, relayVars, brokerVars, envVars, dbVars
<1>1. /\ todo[r] = {}
      /\ row' = [e \in Events |-> IF e \in batch[r] THEN mem[r][e] ELSE row[e]]
      /\ batch' = [batch EXCEPT ![r] = {}]
      /\ mem' = [mem EXCEPT ![r] = NoSession]
      /\ UNCHANGED <<txn, running, todo, attempt, brokerVars, envVars>>
  BY DEF CommitBatch
<1>2. NoSession \in [Events -> Row]
  BY DEF NoSession, NoRow, Row, RowStatus
<1>3. TypeOK'
  BY <1>1, <1>2
<1>4. \A s \in Relays : s # r => /\ batch'[s] = batch[s] /\ mem'[s] = mem[s]
                                 /\ \A e \in batch[s] : row'[e] = row[e]
  BY <1>1 DEF BatchesDisjoint
<1>5. BatchesDisjoint'
  BY <1>1 DEF BatchesDisjoint
<1>6. RowOfCommittedTxn'
  BY <1>1 DEF RowOfCommittedTxn, SessionsConsistent
<1>7. SessionsConsistent'
  <2> SUFFICES ASSUME NEW s \in Relays
               PROVE  /\ todo'[s] \subseteq batch'[s]
                      /\ \A e \in todo'[s] : mem'[s][e] = row'[e]
                      /\ \A e \in batch'[s] :
                           /\ row'[e].status = "pending"
                           /\ mem'[s][e].status # "absent"
                           /\ mem'[s][e].status = "published" => copies'[e] > 0
                           /\ mem'[s][e].status = "failed" => mem'[s][e].retries = MaxRetries
                           /\ mem'[s][e].status = "pending" => mem'[s][e].retries < MaxRetries
    BY DEF SessionsConsistent
  <2>1. todo' = todo /\ copies' = copies
    BY <1>1
  <2>2. CASE s = r
    BY <1>1, <2>2
  <2>3. CASE s # r
    <3>1. /\ batch'[s] = batch[s] /\ mem'[s] = mem[s]
          /\ \A e \in batch[s] : row'[e] = row[e]
      BY <1>4, <2>3
    <3>2. todo'[s] \subseteq batch'[s]
      BY <2>1, <3>1 DEF SessionsConsistent
    <3>3. \A e \in todo'[s] : mem'[s][e] = row'[e]
      <4>1. \A e \in todo[s] : e \in batch[s] /\ mem[s][e] = row[e]
        BY DEF SessionsConsistent
      <4>2. QED
        BY <2>1, <3>1, <4>1
    <3>4. \A e \in batch[s] :
             /\ row[e].status = "pending"
             /\ mem[s][e].status # "absent"
             /\ mem[s][e].status = "published" => copies[e] > 0
             /\ mem[s][e].status = "failed" => mem[s][e].retries = MaxRetries
             /\ mem[s][e].status = "pending" => mem[s][e].retries < MaxRetries
      BY DEF SessionsConsistent
    <3>5. QED
      BY <2>1, <3>1, <3>2, <3>3, <3>4
  <2>4. QED
    BY <2>2, <2>3
<1>8. UnsentExcused'
  <2> SUFFICES ASSUME NEW e \in Events, copies[e] > excuse[e]
               PROVE  Sent(e)'
    BY <1>1 DEF UnsentExcused
  <2>1. Sent(e)
    BY DEF UnsentExcused
  <2>2. CASE e \in batch[r]
    <3>1. row[e].status = "pending"
      BY <2>2 DEF SessionsConsistent
    <3>2. PICK s \in Relays : e \in batch[s] /\ mem[s][e].status = "published"
      BY <2>1, <3>1 DEF Sent
    <3>3. s = r
      BY <2>2, <3>2 DEF BatchesDisjoint
    <3>4. QED
      BY <1>1, <2>2, <3>2, <3>3 DEF Sent
  <2>3. CASE e \notin batch[r]
    BY <1>1, <1>4, <2>1, <2>3 DEF Sent
  <2>4. QED
    BY <2>2, <2>3
<1>9. PublishedHasCopy' /\ GivenUpWhenExhausted'
  BY <1>1 DEF PublishedHasCopy, GivenUpWhenExhausted, SessionsConsistent
<1>10. QED
  BY <1>1, <1>3, <1>5, <1>6, <1>7, <1>8, <1>9 DEF NoPhantomEvent, DuplicatesExcused

LEMMA LoseBatchPreservesIInv ==
  ASSUME IInv, NEW r \in Relays, LoseBatch(r)
  PROVE  IInv'
<1> USE DEF IInv, TypeOK, relayVars, brokerVars, envVars, dbVars
<1>1. /\ excuse' = [e \in Events |->
                      IF e \in batch[r] /\ mem[r][e].status = "published"
                      THEN excuse[e] + 1 ELSE excuse[e]]
      /\ batch' = [batch EXCEPT ![r] = {}]
      /\ todo' = [todo EXCEPT ![r] = {}]
      /\ mem' = [mem EXCEPT ![r] = NoSession]
      /\ UNCHANGED <<dbVars, running, brokerVars, lostAcks>>
  BY DEF LoseBatch
<1>2. NoSession \in [Events -> Row]
  BY DEF NoSession, NoRow, Row, RowStatus
<1>3. TypeOK'
  BY <1>1, <1>2 DEF LoseBatch
<1>4. BatchesDisjoint' /\ SessionsConsistent'
  BY <1>1 DEF BatchesDisjoint, SessionsConsistent
<1>5. \A e \in Events : excuse'[e] >= excuse[e]
  BY <1>1
<1>6. DuplicatesExcused'
  BY <1>1, <1>5 DEF DuplicatesExcused
<1>7. UnsentExcused'
  <2> SUFFICES ASSUME NEW e \in Events, copies[e] > excuse'[e]
               PROVE  Sent(e)'
    BY <1>1, <1>3 DEF UnsentExcused
  <2>1. Sent(e)
    BY <1>3, <1>5 DEF UnsentExcused
  <2>2. ~(e \in batch[r] /\ mem[r][e].status = "published")
    BY <1>1 DEF DuplicatesExcused
  <2>3. QED
    BY <1>1, <2>1, <2>2 DEF Sent
<1>8. RowOfCommittedTxn' /\ PublishedHasCopy' /\ NoPhantomEvent'
      /\ GivenUpWhenExhausted'
  BY <1>1 DEF RowOfCommittedTxn, PublishedHasCopy, NoPhantomEvent,
             GivenUpWhenExhausted
<1>9. QED
  BY <1>3, <1>4, <1>6, <1>7, <1>8

LEMMA IdlePreservesIInv ==
  ASSUME IInv, UNCHANGED vars \/ \E r \in Relays : Stop(r)
  PROVE  IInv'
<1>1. /\ UNCHANGED <<txn, row, batch, todo, mem, attempt, copies, dlq, excuse,
                     rollbacks, lostAcks>>
      /\ running' \subseteq running
  BY DEF Stop, vars, relayVars, brokerVars, envVars, dbVars
<1>2. TypeOK'
  BY <1>1 DEF IInv, TypeOK
<1>3. BatchesDisjoint' /\ SessionsConsistent' /\ RowOfCommittedTxn'
  BY <1>1 DEF IInv, BatchesDisjoint, RowOfCommittedTxn, SessionsConsistent
<1>4. UnsentExcused' /\ PublishedHasCopy' /\ GivenUpWhenExhausted'
  BY <1>1 DEF IInv, UnsentExcused, Sent, PublishedHasCopy, GivenUpWhenExhausted
<1>5. NoPhantomEvent' /\ DuplicatesExcused'
  BY <1>1 DEF IInv, NoPhantomEvent, DuplicatesExcused
<1>6. QED
  BY <1>2, <1>3, <1>4, <1>5 DEF IInv

(* The inductive invariant of the relay: each handler action, each step of a
   relay and each fault preserves it. *)
THEOREM RelayInvariant == Spec => []IInv
<1>1. IInv /\ [Next]_vars => IInv'
  BY HandlerPreservesIInv, FetchPreservesIInv, SendPreservesIInv,
     CommitBatchPreservesIInv, LoseBatchPreservesIInv, IdlePreservesIInv
     DEF Next
<1>2. QED
  BY <1>1, InitIInv, PTL DEF Spec

(* The variables keep their types: in particular a retry counter never
   passes OutboxRelay.max_retries. *)
THEOREM TypeCorrect == Spec => []TypeOK
<1>1. IInv => TypeOK
  BY DEF IInv
<1>2. QED
  BY <1>1, RelayInvariant, PTL

(* schedule_outbox_event: nothing of an uncommitted transaction is sent. *)
THEOREM NoPhantom == Spec => []NoPhantomEvent
<1>1. IInv => NoPhantomEvent
  BY DEF IInv
<1>2. QED
  BY <1>1, RelayInvariant, PTL

(* process_batch: however many relays poll, a duplicate needs a lost
   acknowledgement or a rolled-back batch. *)
THEOREM Duplicates == Spec => []DuplicatesExcused
<1>1. IInv => DuplicatesExcused
  BY DEF IInv
<1>2. QED
  BY <1>1, RelayInvariant, PTL

(* process_batch: a row is given up after exactly MaxRetries failures. *)
THEOREM GivenUp == Spec => []GivenUpWhenExhausted
<1>1. IInv => GivenUpWhenExhausted
  BY DEF IInv
<1>2. QED
  BY <1>1, RelayInvariant, PTL

-----------------------------------------------------------------------------
(* Refinement. *)

LEMMA PhaseType ==
  ASSUME TypeOK
  PROVE  \A e \in Events : PhaseOf(e) \in Delivery!Phase
  BY DEF TypeOK, Row, RowStatus, PhaseOf, Delivery!Phase

(* The phase of an event depends on its row alone. *)
LEMMA PhaseUnchanged ==
  ASSUME row' = row
  PROVE  \A e \in Events : PhaseOf(e)' = PhaseOf(e)
  BY DEF PhaseOf

LEMMA StepRefines ==
  ASSUME IInv, IInv', [Next]_vars
  PROVE  [Delivery!Next]_(Delivery!vars)
<1> USE DEF dbVars, relayVars, brokerVars, envVars
<1>1. CASE row' = row /\ copies' = copies
  BY <1>1, PhaseUnchanged DEF Delivery!vars
<1>2. ASSUME NEW e \in Events, Commit(e)
      PROVE  Delivery!Record(e)
  <2>1. /\ row[e].status = "absent"
        /\ row' = [row EXCEPT ![e] = NewRow]
        /\ copies' = copies
    BY <1>2 DEF Commit, IInv, RowOfCommittedTxn
  <2>2. PhaseOf(e) = "absent"
    BY <2>1 DEF PhaseOf
  <2>3. row'[e].status = "pending" /\ \A f \in Events : f # e => row'[f] = row[f]
    BY <2>1 DEF NewRow, IInv, TypeOK
  <2>4. \A f \in Events : PhaseOf(f)' = IF f = e THEN "due" ELSE PhaseOf(f)
    BY <2>3 DEF PhaseOf
  <2>5. QED
    BY <2>1, <2>2, <2>4 DEF Delivery!Record
<1>3. ASSUME NEW r \in Relays, NEW e \in Events, SendAcked(r, e) \/ SendAckLost(r, e)
      PROVE  Delivery!Deliver(e)
  <2>1. row[e].status = "pending" /\ row' = row
    BY <1>3 DEF SendAcked, SendAckLost, Current, IInv, SessionsConsistent
  <2>2. copies' = [copies EXCEPT ![e] = @ + 1]
    BY <1>3 DEF SendAcked, SendAckLost
  <2>3. {f \in Events : copies'[f] > 0} = {f \in Events : copies[f] > 0} \cup {e}
    BY <2>2 DEF IInv, TypeOK
  <2>4. PhaseOf(e) = "due"
    BY <2>1 DEF PhaseOf
  <2>5. [f \in Events |-> PhaseOf(f)]' = [f \in Events |-> PhaseOf(f)]
    BY <2>1, PhaseUnchanged
  <2>6. QED
    BY <2>3, <2>4, <2>5 DEF Delivery!Deliver
<1>4. ASSUME NEW r \in Relays, CommitBatch(r)
      PROVE  \E confirmed, given_up \in SUBSET Events :
                Delivery!Settle(confirmed, given_up)
  <2> DEFINE ok == {e \in batch[r] : mem[r][e].status = "published"}
             bad == {e \in batch[r] : mem[r][e].status = "failed"}
  <2>1. ok \in SUBSET Events /\ bad \in SUBSET Events
    BY DEF IInv, TypeOK
  <2>2. /\ row' = [e \in Events |-> IF e \in batch[r] THEN mem[r][e] ELSE row[e]]
        /\ copies' = copies
    BY <1>4 DEF CommitBatch
  <2>3. \A e \in ok \cup bad : PhaseOf(e) = "due"
    BY DEF IInv, SessionsConsistent, PhaseOf
  <2>4. \A e \in ok : copies[e] > 0
    BY DEF IInv, SessionsConsistent
  <2>5. \A e \in Events : PhaseOf(e)' = IF e \in ok THEN "published"
                                        ELSE IF e \in bad THEN "abandoned"
                                        ELSE PhaseOf(e)
    <3> SUFFICES ASSUME NEW e \in Events
                 PROVE  PhaseOf(e)' = IF e \in ok THEN "published"
                                      ELSE IF e \in bad THEN "abandoned"
                                      ELSE PhaseOf(e)
      OBVIOUS
    <3>1. CASE e \notin batch[r]
      <4>1. row'[e] = row[e] /\ e \notin ok /\ e \notin bad
        BY <2>2, <3>1
      <4>2. QED
        BY <4>1 DEF PhaseOf
    <3>2. CASE e \in batch[r]
      <4>1. row[e].status = "pending" /\ mem[r][e].status \in {"pending", "published", "failed"}
        BY <3>2 DEF IInv, SessionsConsistent, TypeOK, Row, RowStatus
      <4>2. row'[e] = mem[r][e]
        BY <2>2, <3>2
      <4>3. QED
        BY <3>2, <4>1, <4>2 DEF PhaseOf
    <3>3. QED
      BY <3>1, <3>2
  <2>6. Delivery!Settle(ok, bad)
    BY <2>1, <2>2, <2>3, <2>4, <2>5 DEF Delivery!Settle
  <2>7. QED
    BY <2>1, <2>6
<1>5. CASE Next
  <2>1. ASSUME NEW e \in Events, Schedule(e) \/ Rollback(e)
        PROVE  row' = row /\ copies' = copies
    BY <2>1 DEF Schedule, Rollback
  <2>2. ASSUME NEW r \in Relays, NEW e \in Events,
               SendFails(r, e) \/ PublishExhausted(r, e)
        PROVE  row' = row /\ copies' = copies
    BY <2>2 DEF SendFails, PublishExhausted
  <2>3. ASSUME NEW r \in Relays, Fetch(r) \/ LoseBatch(r) \/ Stop(r)
        PROVE  row' = row /\ copies' = copies
    BY <2>3 DEF Fetch, LoseBatch, Stop
  <2>4. QED
    BY <1>1, <1>2, <1>3, <1>4, <1>5, <2>1, <2>2, <2>3
       DEF Next, Send, Delivery!Next
<1>6. CASE UNCHANGED vars
  BY <1>1, <1>6 DEF vars
<1>7. QED
  BY <1>5, <1>6

(* The relay implements the promise of the outbox: published only with a copy
   on the topic, settled for good, nothing sent after that. *)
THEOREM RelayImplementsDelivery == Spec => ImplementsDelivery
<1>1. Init => Delivery!Init
  BY DEF Init, Delivery!Init, PhaseOf, NoRow
<1>2. QED
  BY <1>1, StepRefines, RelayInvariant, PTL
     DEF Spec, ImplementsDelivery, Delivery!Spec

-----------------------------------------------------------------------------
(* Both sides. *)

(* Each side's steps leave the other side's variables alone, so that what was
   shown of each alone holds of the two together. *)
LEMMA MessagingHasRelay == MessagingSpec => Spec
<1>1. MessagingInit => Init BY DEF MessagingInit
<1>2. [MessagingNext]_MessagingVars => [Next]_vars
  BY DEF MessagingNext, Producing, Consuming, MessagingVars
<1>3. QED BY <1>1, <1>2, PTL DEF MessagingSpec, Spec

LEMMA MessagingHasGroup == MessagingSpec => GroupSpec
<1>1. MessagingInit => GroupInit BY DEF MessagingInit
<1>2. [MessagingNext]_MessagingVars => [GroupNext]_consumerVars
  BY DEF MessagingNext, Producing, Consuming, MessagingVars
<1>3. QED BY <1>1, <1>2, PTL DEF MessagingSpec, GroupSpec

(* No event of a transaction that did not commit reaches a topic, none is there
   twice without an excuse or given up early; offsets skip no message and never go
   back.  All this while both ends are there. *)
THEOREM ChannelSafe ==
    MessagingSpec => /\ [](NoPhantomEvent /\ DuplicatesExcused /\ GivenUpWhenExhausted)
                     /\ ImplementsDelivery
                     /\ ConsumptionKept
BY MessagingHasRelay, MessagingHasGroup, NoPhantom, Duplicates, GivenUp,
   RelayImplementsDelivery, GroupKept, PTL
=============================================================================

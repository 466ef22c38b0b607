--------------------------- MODULE LogFilesProofs ---------------------------
(***************************************************************************)
(* The positions of the log continue over rotations, failures and kills,   *)
(* and its files and runs start on lines, for every cap, number of inodes, *)
(* output and number of failures.                                          *)
(***************************************************************************)
EXTENDS LogFiles, WellFoundedInduction, TLAPS

Byte == {"text", "feed"}
Steps == [op : {"append", "write", "rotate", "end", "start", "hand"}, bytes : Seq(Byte)]
File == Inode \cup {None}

LogType(g) ==
    g \in [up : BOOLEAN, fd : File, written : Nat, base : Nat, ends : BOOLEAN,
           stage : {"idle", "placing", "renamed", "created"}]

CallType(c) ==
    c \in [todo : Seq(Steps), run : Nat, at : Nat, handed : [at : Nat, bytes : Seq(Byte)]]

TypeI ==
    /\ disk \in [stream : Seq(Byte), file : [Inode -> [from : Nat, len : Nat]],
                 live : File, rotated : File, base : [offset : Nat, inode : File]]
    /\ LogType(log)
    /\ CallType(call)
    /\ used \in [Resource -> Nat]

\* Where file i ends in the stream.
EndOf(i) == disk.file[i].from + disk.file[i].len

\* The files named hold the end of the stream, the rotated one up to where the
\* live one starts, and the holder writes to the last of them.
FilesOK ==
    /\ disk.live # None => EndOf(disk.live) = Len(disk.stream)
    /\ disk.live # None /\ disk.rotated # None =>
          disk.live # disk.rotated /\ EndOf(disk.rotated) = disk.file[disk.live].from
    /\ disk.live # None /\ disk.rotated = None => disk.file[disk.live].from = 0
    /\ disk.live = None /\ disk.rotated # None => EndOf(disk.rotated) = Len(disk.stream)
    /\ disk.live = None /\ disk.rotated = None => Len(disk.stream) = 0

WriterOK ==
    /\ log.up => /\ log.fd # None
                 /\ log.written = disk.file[log.fd].len
                 /\ log.fd = IF disk.live = None THEN disk.rotated ELSE disk.live
    /\ log.stage # "idle" => log.up
    /\ call.todo # <<>> => log.up
    /\ log.stage \in {"renamed", "created"} => At("rotate")
    /\ log.stage = "placing" => call.todo = StartRun
    /\ log.stage = "renamed" => disk.live = None
    /\ log.stage \in {"placing", "created"} => disk.live # None

Fresh == Len(disk.stream) = 0 /\ disk.rotated = None /\ disk.base = NoBase

\* What the sidecar says, while none failed to be written.
SidecarOK ==
    used["records"] = 0 =>
        /\ disk.base = NoBase => Fresh /\ (log.up => log.stage = "placing")
        /\ disk.base # NoBase =>
              /\ disk.base.inode # None
              /\ disk.base.inode \in {disk.live, disk.rotated}
              /\ disk.base.offset = disk.file[disk.base.inode].from
              /\ log.up /\ disk.live # None /\ disk.base.inode # disk.live =>
                    log.stage \in {"placing", "created"}

\* Before the first kill a log that is not open has never been placed.
FirstOK == used["kills"] = 0 /\ (~log.up \/ log.stage = "placing") => Fresh

BaseOK ==
    log.up /\ (used["records"] = 0 \/ used["kills"] = 0) => log.base = disk.file[log.fd].from

IInv == TypeI /\ FilesOK /\ WriterOK /\ SidecarOK /\ FirstOK /\ BaseOK

-----------------------------------------------------------------------------
(* Numbers, and the types of the calls, which they keep. *)

\* What lies past a position, at most some length.
LEMMA LeastIn == \A a, b, m \in Nat : Least(Less(a, b), m) \in 0..m
  BY DEF Least, Less

\* A file that grows ends as much later.
LEMMA Sums == \A a, b, m \in Nat : a + (b + m) = (a + b) + m
  OBVIOUS

\* The positions of a sequence are naturals.
LEMMA Positions == \A n \in Nat : 1..n \in SUBSET Nat
  OBVIOUS

\* A length above zero is not zero.
LEMMA ZeroIsLeast == ~(0 > 0)
  OBVIOUS

\* A set of naturals that is not empty has a first element, its least.
LEMMA FirstIsIn ==
    ASSUME NEW S \in SUBSET Nat, S # {}
    PROVE  First(S) \in S /\ \A y \in S : First(S) <= y
  <1>1. PICK x \in S : \A y \in S : ~ (<<y, x>> \in OpToRel(<, Nat))
    BY Zenon, NatLessThanWellFounded, WFMin
  <1>2. \A y \in S : x <= y
    <2>1. TAKE y \in S
    <2>2. x \in Nat /\ y \in Nat
      BY <2>1
    <2>3. ~(y < x)
      BY Zenon, <1>1, <2>1, <2>2 DEF OpToRel
    <2>4. QED
      BY <2>2, <2>3
  <1>3. QED
    BY Zenon, <1>2 DEF First

\* Part of a sequence is one.
LEMMA PartType ==
    ASSUME NEW S, NEW s \in Seq(S), NEW m \in 1..(Len(s) + 1), NEW n \in 0..Len(s)
    PROVE  SubSeq(s, m, n) \in Seq(S)
  OBVIOUS

\* A write of a sequence of bytes is a sequence of steps.
LEMMA WriteOfType ==
    ASSUME NEW bytes \in Seq(Byte)
    PROVE  WriteOf(bytes) \in Seq(Steps)
  <1>1. Step("write", bytes) \in Steps
    BY DEF Step, Steps
  <1>2. <<Step("write", bytes)>> \in Seq(Steps)
    BY <1>1
  <1>3. QED
    BY <1>2 DEF WriteOf

\* A rotation is a step.
LEMMA RotateType == Rotate \in Steps
  BY DEF Rotate, Step, Steps

\* What an append chooses to do is a sequence of steps.
LEMMA AppendType ==
    ASSUME NEW g, g.ends \in BOOLEAN, NEW bytes \in Seq(Byte)
    PROVE  AppendBytes(g, bytes) \in Seq(Steps)
  <1> DEFINE head == IF g.ends THEN 0 ELSE First(Feeds(bytes))
             split == WriteOf(SubSeq(bytes, 1, head)) \o <<Rotate>>
                         \o WriteOf(SubSeq(bytes, head + 1, Len(bytes)))
             plain == \/ g.written = 0 \/ g.written + Len(bytes) <= Cap
                      \/ ~g.ends /\ Feeds(bytes) = {}
  <1>1. CASE plain
    BY <1>1, WriteOfType DEF AppendBytes
  <1>2. CASE ~plain
    <2>1. head \in 0..Len(bytes)
      <3>1. CASE g.ends
        BY <3>1
      <3>2. CASE ~g.ends
        <4>1. Feeds(bytes) \in SUBSET Nat /\ Feeds(bytes) # {}
          BY <1>2, <3>2 DEF Feeds
        <4>2. First(Feeds(bytes)) \in Feeds(bytes)
          BY <4>1, FirstIsIn
        <4>3. QED
          BY <3>2, <4>2 DEF Feeds
      <3>3. QED
        BY <3>1, <3>2
    <2> HIDE DEF head
    <2>2. SubSeq(bytes, 1, head) \in Seq(Byte) /\ SubSeq(bytes, head + 1, Len(bytes)) \in Seq(Byte)
      BY <2>1
    <2>3. split \in Seq(Steps)
      <3>1. /\ WriteOf(SubSeq(bytes, 1, head)) \in Seq(Steps)
            /\ WriteOf(SubSeq(bytes, head + 1, Len(bytes))) \in Seq(Steps)
        BY Zenon, <2>2, WriteOfType
      <3>2. <<Rotate>> \in Seq(Steps)
        BY RotateType
      <3>3. QED
        BY <3>1, <3>2
    <2>4. AppendBytes(g, bytes) = split
      BY Zenon, <1>2 DEF AppendBytes, head
    <2>5. QED
      BY <2>3, <2>4
  <1>3. QED
    BY <1>1, <1>2

\* A decision keeps the types.
LEMMA DecideType ==
    ASSUME NEW c, CallType(c), NEW g, LogType(g)
    PROVE  CallType(Decide(c, g))
  <1>1. CASE c.todo = <<>>
    BY <1>1 DEF Decide
  <1>2. CASE c.todo # <<>>
    <2>1. Head(c.todo) \in Steps /\ Tail(c.todo) \in Seq(Steps)
      BY <1>2 DEF CallType
    <2>2. Head(c.todo).bytes \in Seq(Byte)
      BY <2>1 DEF Steps
    <2>3. AppendBytes(g, Head(c.todo).bytes) \o Tail(c.todo) \in Seq(Steps)
      BY <2>1, <2>2, AppendType DEF LogType
    <2>4. <<Step("write", EndOpenLine), Rotate, Step("hand", Head(c.todo).bytes \o EndOpenLine)>>
             \in Seq(Steps)
      <3>1. EndOpenLine \in Seq(Byte)
        BY DEF EndOpenLine, Byte
      <3>2. Head(c.todo).bytes \o EndOpenLine \in Seq(Byte)
        BY <3>1, <2>2
      <3>3. Step("write", EndOpenLine) \in Steps
               /\ Step("hand", Head(c.todo).bytes \o EndOpenLine) \in Steps
        BY <3>1, <3>2 DEF Step, Steps
      <3>4. QED
        BY <3>3, RotateType
    <2>5. End(g) \in Nat /\ c.at \in Nat
      BY DEF CallType, LogType, End
    <2>6. SubSeq(Head(c.todo).bytes, 1, Least(Less(End(g), c.at), Len(Head(c.todo).bytes)))
             \in Seq(Byte)
      <3>1. Least(Less(End(g), c.at), Len(Head(c.todo).bytes)) \in 0..Len(Head(c.todo).bytes)
        <4>1. Len(Head(c.todo).bytes) \in Nat
          BY <2>2
        <4>2. QED
          BY Zenon, <2>5, <4>1, LeastIn
      <3>2. QED
        BY <2>2, <3>1
    <2>7. QED
      BY ZenonT(60), <1>2, <2>1, <2>3, <2>4, <2>5, <2>6 DEF CallType, Decide
  <1>3. QED
    BY <1>1, <1>2

\* So do as many as a call can take in a row.
LEMMA ReadyType ==
    ASSUME NEW c, CallType(c), NEW g, LogType(g)
    PROVE  CallType(Ready(c, g))
  BY DecideType DEF Ready

\* So does a step done, which the call goes on from.
LEMMA DoneType ==
    ASSUME NEW c, CallType(c), c.todo # <<>>, NEW g, LogType(g)
    PROVE  CallType(Done(c, g))
  <1>1. Tail(c.todo) \in Seq(Steps)
    BY DEF CallType
  <1>2. CallType([c EXCEPT !.todo = Tail(@)])
    BY Zenon, <1>1 DEF CallType
  <1>3. QED
    BY <1>2, ReadyType DEF Done

\* So does a step that failed, which the call skips to its next part from.
LEMMA FailedType ==
    ASSUME NEW c, CallType(c), NEW g, LogType(g)
    PROVE  CallType(Failed(c, g))
  <1> DEFINE on == {i \in DOMAIN c.todo : c.todo[i].op \in {"start", "hand"}}
  <1>1. CASE on = {}
    <2>1. Failed(c, g) = [c EXCEPT !.todo = <<>>]
      BY <1>1 DEF Failed
    <2>2. <<>> \in Seq(Steps)
      OBVIOUS
    <2>3. QED
      BY Zenon, <2>1, <2>2 DEF CallType
  <1>2. CASE on # {}
    <2>1. First(on) \in 1..Len(c.todo)
      <3>1. on \in SUBSET Nat
        BY DEF CallType
      <3>2. First(on) \in on
        BY <1>2, <3>1, FirstIsIn
      <3>3. QED
        BY <3>2 DEF CallType
    <2>2. SubSeq(c.todo, First(on), Len(c.todo)) \in Seq(Steps)
      <3>1. c.todo \in Seq(Steps)
        BY DEF CallType
      <3> HIDE DEF on
      <3>2. First(on) \in 1..(Len(c.todo) + 1) /\ Len(c.todo) \in 0..Len(c.todo)
        BY <2>1, <3>1
      <3>3. QED
        BY <3>1, <3>2, PartType
    <2>3. CallType([c EXCEPT !.todo = SubSeq(@, First(on), Len(@))])
      BY Zenon, <2>2 DEF CallType
    <2>4. QED
      BY <1>2, <2>3, ReadyType DEF Failed
  <1>3. QED
    BY <1>1, <1>2

-----------------------------------------------------------------------------
(* What the steps rest on. *)

\* What starts a run is a sequence of steps, the first of which appends.
LEMMA StartRunType == StartRun \in Seq(Steps) /\ StartRun # <<>> /\ Head(StartRun).op = "append"
  <1>1. /\ Step("append", EndOpenLine) \in Steps /\ Step("start", <<>>) \in Steps
        /\ Step("append", RunReset) \in Steps
    BY DEF Step, Steps, Byte, EndOpenLine, RunReset
  <1>2. Head(StartRun) = Step("append", EndOpenLine)
    BY DEF StartRun
  <1>3. QED
    BY <1>1, <1>2 DEF StartRun, Step

\* A file is written only while nothing else is under way.
LEMMA WritingIsIdle == IInv /\ At("write") => log.stage = "idle" /\ log.up
  BY StartRunType DEF IInv, TypeI, LogType, WriterOK, At

\* What a failure, a kill or a reader counts.
LEMMA SpendCounts ==
    ASSUME IInv, NEW k \in Resource, Spend(k)
    PROVE  /\ used' \in [Resource -> Nat]
           /\ used'["records"] = used["records"] + (IF k = "records" THEN 1 ELSE 0)
           /\ used'["kills"] = used["kills"] + (IF k = "kills" THEN 1 ELSE 0)
           /\ used["records"] \in Nat /\ used["kills"] \in Nat
  BY SMTT(40) DEF IInv, TypeI, Spend, Resource

\* Readers and followers change nothing the invariant reads.
LEMMA OthersKeep ==
    ASSUME IInv, UNCHANGED <<disk, log, call>>, used' \in [Resource -> Nat],
           used'["records"] = used["records"], used'["kills"] = used["kills"]
    PROVE  IInv'
  <1>1. disk' = disk /\ log' = log /\ call' = call
    BY Zenon
  <1>2. TypeI' /\ FilesOK'
    BY Zenon, <1>1 DEF IInv, TypeI, LogType, CallType, FilesOK, EndOf
  <1>3. WriterOK'
    BY Zenon, <1>1 DEF IInv, WriterOK, At
  <1>4. SidecarOK'
    BY Zenon, <1>1 DEF IInv, SidecarOK, Fresh
  <1>5. FirstOK' /\ BaseOK'
    BY Zenon, <1>1 DEF IInv, FirstOK, BaseOK, Fresh
  <1>6. QED
    BY Zenon, <1>2, <1>3, <1>4, <1>5 DEF IInv

\* Before the first holder there is no file and no sidecar (RotatingLog::open).
LEMMA InitOK == Init => IInv
  <1>1. <<>> \in Seq(Steps) /\ <<>> \in Seq(Byte)
    OBVIOUS
  <1>2. Init => TypeI
    BY <1>1 DEF Init, TypeI, LogType, CallType, Down, NoCall, NoBase, File, Resource
  <1>3. QED
    BY <1>2 DEF Init, IInv, FilesOK, WriterOK, SidecarOK, FirstOK, BaseOK, Fresh, Down, NoCall

\* Some of the bytes of a write reach the file.
LEMMA WrittenKeeps ==
    ASSUME IInv, At("write"), NEW bytes \in Seq(Byte), NEW ends \in BOOLEAN,
           disk' = Written(disk, log.fd, bytes),
           log' = [log EXCEPT !.written = @ + Len(bytes), !.ends = ends],
           CallType(call'), used' \in [Resource -> Nat],
           used'["records"] = used["records"], used'["kills"] = used["kills"]
    PROVE  IInv'
  <1>1. log.stage = "idle" /\ log.up /\ log.fd \in Inode
    BY WritingIsIdle DEF IInv, TypeI, LogType, WriterOK, File
  <1> DEFINE n == Len(bytes)
  <1>2. n \in Nat /\ disk.stream \o bytes \in Seq(Byte) /\ Len(disk.stream) \in Nat
          /\ Len(disk.stream \o bytes) = Len(disk.stream) + n
    BY DEF IInv, TypeI
  <1> HIDE DEF n
  <1>3. /\ disk'.stream = disk.stream \o bytes
        /\ disk'.live = disk.live /\ disk'.rotated = disk.rotated /\ disk'.base = disk.base
        /\ disk'.file = [disk.file EXCEPT ![log.fd].len = @ + n]
    BY DEF Written, IInv, TypeI, n
  <1>4. TypeI'
    <2>1. disk'.file \in [Inode -> [from : Nat, len : Nat]]
      <3>1. disk.file \in [Inode -> [from : Nat, len : Nat]]
        BY DEF IInv, TypeI
      <3>2. disk.file[log.fd].len + n \in Nat
        BY SMTT(40), <1>1, <1>2, <3>1
      <3>3. [disk.file[log.fd] EXCEPT !.len = @ + n] \in [from : Nat, len : Nat]
        BY Zenon, <1>1, <3>1, <3>2
      <3>4. QED
        BY <1>1, <1>3, <3>1, <3>3
    <2>2. disk' \in [stream : Seq(Byte), file : [Inode -> [from : Nat, len : Nat]],
                     live : File, rotated : File, base : [offset : Nat, inode : File]]
      BY Zenon, <1>2, <1>3, <2>1 DEF IInv, TypeI, Written, n
    <2>3. LogType(log')
      <3>1. LogType(log)
        BY DEF IInv, TypeI
      <3>2. log.written + Len(bytes) \in Nat
        BY <3>1 DEF LogType
      <3>3. QED
        BY Zenon, <3>1, <3>2 DEF LogType
    <2>4. QED
      BY Zenon, <2>2, <2>3 DEF TypeI, CallType
  <1>5. /\ \A i \in Inode : disk'.file[i].from = disk.file[i].from
        /\ \A i \in Inode : i # log.fd => disk'.file[i].len = disk.file[i].len
        /\ disk'.file[log.fd].len = disk.file[log.fd].len + n
        /\ \A i \in Inode : disk.file[i].from \in Nat /\ disk.file[i].len \in Nat
    BY <1>1, <1>2, <1>3 DEF IInv, TypeI
  <1>6. /\ log'.written = log.written + n /\ log'.fd = log.fd /\ log'.stage = "idle" /\ log'.up
        /\ log'.base = log.base
    BY <1>1 DEF IInv, TypeI, LogType, n
  <1>7. FilesOK'
    <2>0. n \in Nat /\ Len(disk'.stream) = Len(disk.stream) + n
      BY <1>2, <1>3
    <2>1. /\ disk.live \in File /\ disk.rotated \in File
          /\ log.fd = IF disk.live = None THEN disk.rotated ELSE disk.live
      BY <1>1 DEF IInv, TypeI, WriterOK
    <2>2. /\ disk.live # None => EndOf(disk.live) = Len(disk.stream)
          /\ disk.live # None /\ disk.rotated # None =>
                disk.live # disk.rotated /\ EndOf(disk.rotated) = disk.file[disk.live].from
          /\ disk.live # None /\ disk.rotated = None => disk.file[disk.live].from = 0
          /\ disk.live = None /\ disk.rotated # None => EndOf(disk.rotated) = Len(disk.stream)
      BY Zenon DEF IInv, FilesOK
    <2>3. CASE disk.live # None
      <3>1. log.fd = disk.live /\ disk.live \in Inode
        BY Zenon, <2>1, <2>3 DEF File
      <3>2. EndOf(disk.live)' = EndOf(disk.live) + n
        <4>1. /\ disk'.live = disk.live
              /\ disk'.file[disk.live].from = disk.file[disk.live].from
              /\ disk'.file[disk.live].len = disk.file[disk.live].len + n
              /\ disk.file[disk.live].from \in Nat /\ disk.file[disk.live].len \in Nat
          BY Zenon, <1>3, <1>5, <3>1
        <4>2. disk.file[disk.live].from + (disk.file[disk.live].len + n)
                = (disk.file[disk.live].from + disk.file[disk.live].len) + n
          BY Zenon, <2>0, <4>1, Sums
        <4>3. EndOf(disk.live)' = disk.file[disk.live].from + (disk.file[disk.live].len + n)
          BY Zenon, <4>1 DEF EndOf
        <4>4. QED
          BY Zenon, <4>2, <4>3 DEF EndOf
      <3>4. EndOf(disk.live)' = Len(disk'.stream)
        BY Zenon, <2>0, <2>2, <2>3, <3>2
      <3>3. disk.rotated # None => EndOf(disk.rotated)' = EndOf(disk.rotated)
        BY <1>3, <1>5, <2>1, <2>2, <2>3, <3>1 DEF EndOf, File
      <3>5. QED
        BY <1>3, <1>5, <2>2, <2>3, <3>1, <3>3, <3>4 DEF FilesOK
    <2>4. CASE disk.live = None
      <3>1. log.fd = disk.rotated /\ disk.rotated \in Inode
        BY Zenon, <1>1, <2>1, <2>4 DEF File
      <3>2. EndOf(disk.rotated)' = EndOf(disk.rotated) + n
        <4>1. /\ disk'.rotated = disk.rotated
              /\ disk'.file[disk.rotated].from = disk.file[disk.rotated].from
              /\ disk'.file[disk.rotated].len = disk.file[disk.rotated].len + n
              /\ disk.file[disk.rotated].from \in Nat /\ disk.file[disk.rotated].len \in Nat
          BY Zenon, <1>3, <1>5, <3>1
        <4>2. disk.file[disk.rotated].from + (disk.file[disk.rotated].len + n)
                = (disk.file[disk.rotated].from + disk.file[disk.rotated].len) + n
          BY Zenon, <2>0, <4>1, Sums
        <4>3. EndOf(disk.rotated)' = disk.file[disk.rotated].from + (disk.file[disk.rotated].len + n)
          BY Zenon, <4>1 DEF EndOf
        <4>4. QED
          BY Zenon, <4>2, <4>3 DEF EndOf
      <3>3. disk.rotated # None
        BY <3>1, LogFilesAssumption
      <3>4. EndOf(disk.rotated)' = Len(disk'.stream)
        BY Zenon, <2>0, <2>2, <2>4, <3>2, <3>3
      <3>5. QED
        BY <1>3, <2>4, <3>3, <3>4 DEF FilesOK
    <2>5. QED
      BY <2>3, <2>4
  <1>8. WriterOK'
    <2>1. /\ log.fd # None /\ log.written = disk.file[log.fd].len
          /\ log.fd = IF disk.live = None THEN disk.rotated ELSE disk.live
      BY Zenon, <1>1 DEF IInv, WriterOK
    <2>2. log'.written = disk'.file[log'.fd].len
      BY ZenonT(60), <1>5, <1>6, <2>1
    <2>3. log'.fd = IF disk'.live = None THEN disk'.rotated ELSE disk'.live
      BY Zenon, <1>3, <1>6, <2>1
    <2>4. log'.stage \notin {"placing", "renamed", "created"}
      BY Zenon, <1>6
    <2>5. QED
      BY Zenon, <1>6, <2>1, <2>2, <2>3, <2>4 DEF WriterOK
  <1>9. SidecarOK'
    BY <1>1, <1>3, <1>5, <1>6 DEF IInv, TypeI, SidecarOK, WriterOK, File
  <1>10. FirstOK' /\ BaseOK'
    BY <1>1, <1>3, <1>5, <1>6 DEF IInv, FirstOK, BaseOK
  <1>11. QED
    BY <1>4, <1>7, <1>8, <1>9, <1>10 DEF IInv

\* What the step at hand writes is a sequence of bytes.
LEMMA HeadType ==
    ASSUME IInv, call.todo # <<>>
    PROVE  CallType(call) /\ Head(call.todo) \in Steps /\ Head(call.todo).bytes \in Seq(Byte)
  <1>1. call.todo \in Seq(Steps)
    BY DEF IInv, TypeI, CallType
  <1>2. Head(call.todo) \in Steps
    BY <1>1
  <1>3. QED
    BY <1>2 DEF Steps, IInv, TypeI

\* A longer log is a log.
LEMMA WrittenType ==
    ASSUME NEW g, LogType(g), NEW n \in Nat, NEW b \in BOOLEAN
    PROVE  LogType([g EXCEPT !.written = @ + n, !.ends = b])
  <1>1. g.written + n \in Nat
    BY DEF LogType
  <1>2. QED
    BY Zenon, <1>1 DEF LogType

\* The file written stays the last part of the stream (RotatingLog::write).
LEMMA WriteOK == IInv /\ Write => IInv'
  <1> SUFFICES ASSUME IInv, Write PROVE IInv'
    OBVIOUS
  <1> DEFINE bytes == Head(call.todo).bytes
             ends == bytes[Len(bytes)] = "feed"
  <1>1. At("write") /\ call.todo # <<>>
    BY DEF Write, At
  <1>2. bytes \in Seq(Byte) /\ CallType(call) /\ LogType(log) /\ Len(bytes) \in Nat
    BY SMTT(40), <1>1, HeadType DEF IInv, TypeI
  <1>3. ends \in BOOLEAN
    OBVIOUS
  <1>4. /\ disk' = Written(disk, log.fd, bytes)
        /\ log' = [log EXCEPT !.written = @ + Len(bytes), !.ends = ends]
        /\ call' = Done(call, log') /\ used' = used
    BY DEF Write
  <1> HIDE DEF bytes, ends
  <1>5. LogType(log')
    BY Zenon, <1>2, <1>3, <1>4, WrittenType
  <1>6. CallType(call')
    BY <1>1, <1>2, <1>4, <1>5, DoneType
  <1>7. used' \in [Resource -> Nat]
    BY SMTT(40), <1>4 DEF IInv, TypeI
  <1>8. QED
    BY Zenon, <1>1, <1>2, <1>3, <1>4, <1>6, <1>7, WrittenKeeps

\* So it does when a write fails: the log takes its length from the file (resync).
LEMMA FailWriteOK == IInv /\ FailWrite => IInv'
  <1> SUFFICES ASSUME IInv, FailWrite PROVE IInv'
    BY SMTT(40)
  <1> DEFINE all == Head(call.todo).bytes
  <1>1. At("write") /\ call.todo # <<>>
    BY Zenon DEF FailWrite, At
  <1>2. all \in Seq(Byte) /\ CallType(call) /\ LogType(log) /\ Len(all) \in Nat
    <2>1. all \in Seq(Byte) /\ CallType(call) /\ LogType(log)
      BY Zenon, <1>1, HeadType DEF IInv, TypeI
    <2> HIDE DEF all
    <2>2. Len(all) \in Nat
      BY <2>1
    <2>3. QED
      BY Zenon, <2>1, <2>2
  <1> HIDE DEF all
  <1>3. PICK k \in 0..(Len(all) - 1) :
          /\ disk' = Written(disk, log.fd, SubSeq(all, 1, k))
          /\ log' = [log EXCEPT !.written = disk'.file[log.fd].len,
                                !.ends = EndsLine(disk', disk'.file[log.fd].len)]
    BY ZenonT(40) DEF FailWrite, all
  <1>4. call' = Failed(call, log') /\ Spend("faults")
    BY Zenon DEF FailWrite
  <1> DEFINE bytes == SubSeq(all, 1, k)
             ends == EndsLine(disk', disk'.file[log.fd].len)
  <1>5. k \in 0..Len(all) /\ 1 \in 1..(Len(all) + 1)
    BY <1>2
  <1>6. bytes \in Seq(Byte)
    BY <1>2, <1>5, PartType
  <1>7. ends \in BOOLEAN
    BY DEF EndsLine
  <1>8. disk' = Written(disk, log.fd, bytes)
    BY <1>3
  <1>9. log' = [log EXCEPT !.written = disk'.file[log.fd].len, !.ends = ends]
    BY <1>3
  <1> HIDE DEF bytes, ends
  <1>10. disk'.file[log.fd].len = log.written + Len(bytes)
    <2>1. log.fd \in Inode /\ log.written = disk.file[log.fd].len
      BY <1>1, WritingIsIdle DEF IInv, TypeI, LogType, WriterOK, File
    <2>2. disk'.file = [disk.file EXCEPT ![log.fd].len = @ + Len(bytes)]
      BY <1>8 DEF Written, IInv, TypeI
    <2>3. QED
      BY <2>1, <2>2 DEF IInv, TypeI
  <1>11. log' = [log EXCEPT !.written = @ + Len(bytes), !.ends = ends]
    BY SMTT(40), <1>9, <1>10
  <1>12. LogType(log')
    <2>1. Len(bytes) \in Nat
      BY <1>6
    <2>2. QED
      BY Zenon, <1>2, <1>7, <1>11, <2>1, WrittenType
  <1>13. CallType(call')
    BY <1>2, <1>4, <1>12, FailedType
  <1>14. /\ used' \in [Resource -> Nat]
         /\ used'["records"] = used["records"] /\ used'["kills"] = used["kills"]
    BY <1>4, SpendCounts DEF Resource
  <1>15. QED
    BY Zenon, <1>1, <1>6, <1>7, <1>8, <1>11, <1>13, <1>14, WrittenKeeps

\* The rename only changes which name the file written has (rotate).
LEMMA RenameOK == IInv /\ Rename => IInv'
  <1> SUFFICES ASSUME IInv, Rename PROVE IInv'
    OBVIOUS
  <1>1. /\ At("rotate") /\ log.stage = "idle" /\ disk.live # None /\ call.todo # <<>> /\ log.up
        /\ log.fd = disk.live /\ disk.live \in Inode
    BY DEF Rename, Rotating, At, IInv, TypeI, LogType, WriterOK, File
  <1>2. /\ disk'.stream = disk.stream /\ disk'.file = disk.file /\ disk'.base = disk.base
        /\ disk'.rotated = disk.live /\ disk'.live = None
        /\ log'.up /\ log'.fd = log.fd /\ log'.written = log.written /\ log'.base = log.base
        /\ log'.stage = "renamed" /\ call' = call /\ used' = used
    BY <1>1 DEF Rename, IInv, TypeI, LogType
  <1>3. TypeI'
    <2>1. disk' \in [stream : Seq(Byte), file : [Inode -> [from : Nat, len : Nat]],
                     live : File, rotated : File, base : [offset : Nat, inode : File]]
      BY Zenon DEF Rename, IInv, TypeI, File
    <2>2. LogType(log')
      BY Zenon DEF Rename, IInv, TypeI, LogType
    <2>3. QED
      BY <1>2, <2>1, <2>2 DEF IInv, TypeI
  <1>4. FilesOK'
    BY <1>1, <1>2 DEF IInv, FilesOK, EndOf
  <1>5. WriterOK'
    BY <1>1, <1>2 DEF IInv, WriterOK, At
  <1>6. SidecarOK'
    BY <1>1, <1>2 DEF IInv, SidecarOK, Fresh
  <1>7. FirstOK' /\ BaseOK'
    BY <1>1, <1>2 DEF IInv, FirstOK, BaseOK, Fresh
  <1>8. QED
    BY <1>3, <1>4, <1>5, <1>6, <1>7 DEF IInv

\* The new file starts where the stream ends, and the log is told so (rotate).
LEMMA CreateOK == IInv /\ Create => IInv'
  <1> SUFFICES ASSUME IInv, Create PROVE IInv'
    OBVIOUS
  <1>1. /\ At("rotate") /\ call.todo # <<>> /\ log.stage = "renamed" /\ log.up
        /\ disk.live = None /\ log.fd = disk.rotated /\ log.fd # None /\ log.fd \in Inode
    BY SMTT(40) DEF Create, Rotating, At, IInv, TypeI, LogType, WriterOK, File
  <1>2. PICK i \in Inode : /\ i # disk.rotated
                           /\ disk' = Created(disk, i)
                           /\ log' = [log EXCEPT !.fd = i, !.base = End(log), !.written = 0,
                                                 !.ends = TRUE, !.stage = "created"]
    BY Zenon DEF Create, Free
  <1>3. i # None /\ Len(disk.stream) \in Nat /\ End(log) \in Nat /\ call' = call /\ used' = used
    BY SMTT(40), LogFilesAssumption DEF Create, IInv, TypeI, LogType, End
  <1>4. TypeI'
    <2>1. [from |-> Len(disk.stream), len |-> 0] \in [from : Nat, len : Nat]
      BY <1>3
    <2>2. disk' \in [stream : Seq(Byte), file : [Inode -> [from : Nat, len : Nat]],
                     live : File, rotated : File, base : [offset : Nat, inode : File]]
      BY Zenon, <1>2, <2>1 DEF Created, IInv, TypeI, File
    <2>3. LogType(log')
      BY Zenon, <1>2, <1>3 DEF IInv, TypeI, LogType, File
    <2>4. QED
      BY <1>3, <2>2, <2>3 DEF IInv, TypeI
  <1>5. /\ disk'.stream = disk.stream /\ disk'.base = disk.base
        /\ disk'.rotated = disk.rotated /\ disk'.live = i
        /\ disk'.file[i].from = Len(disk.stream) /\ disk'.file[i].len = 0
        /\ \A j \in Inode : j # i => disk'.file[j] = disk.file[j]
    BY <1>2 DEF Created, IInv, TypeI
  <1>6. /\ log'.up /\ log'.fd = i /\ log'.written = 0 /\ log'.base = End(log)
        /\ log'.stage = "created"
    BY <1>1, <1>2 DEF IInv, TypeI, LogType
  <1>7. EndOf(disk.rotated) = Len(disk.stream)
    BY <1>1 DEF IInv, FilesOK
  <1>8. FilesOK'
    BY <1>1, <1>2, <1>3, <1>5, <1>7 DEF FilesOK, EndOf
  <1>9. WriterOK'
    BY <1>1, <1>3, <1>5, <1>6 DEF IInv, WriterOK, At
  <1>10. SidecarOK'
    BY <1>1, <1>2, <1>3, <1>5, <1>6 DEF IInv, SidecarOK
  <1>11. FirstOK'
    BY Zenon, <1>6 DEF FirstOK
  <1>12. BaseOK'
    BY <1>1, <1>3, <1>5, <1>6, <1>7 DEF IInv, BaseOK, WriterOK, EndOf, End
  <1>13. QED
    BY <1>4, <1>8, <1>9, <1>10, <1>11, <1>12 DEF IInv

\* A rotation that stops leaves the log with the file it had (rotate).
LEMMA FailRotationOK == IInv /\ FailRotation => IInv'
  <1> SUFFICES ASSUME IInv, FailRotation PROVE IInv'
    OBVIOUS
  <1>1. /\ call.todo # <<>> /\ log.up /\ log.stage \in {"idle", "renamed"}
        /\ log.stage = "renamed" => disk.live = None
    BY DEF FailRotation, Rotating, At, IInv, WriterOK
  <1>2. disk' = disk /\ log' = [log EXCEPT !.stage = "idle"] /\ call' = Failed(call, log')
    BY DEF FailRotation
  <1>3. /\ used' \in [Resource -> Nat]
        /\ used'["records"] = used["records"] /\ used'["kills"] = used["kills"]
    <2>1. CASE UNCHANGED used
      BY <2>1 DEF IInv, TypeI
    <2>2. CASE Spend("faults")
      BY <2>2, SpendCounts DEF Resource
    <2>3. QED
      BY <2>1, <2>2 DEF FailRotation
  <1>4. LogType(log') /\ CallType(call)
    BY Zenon, <1>2 DEF IInv, TypeI, LogType
  <1>5. CallType(call')
    BY <1>2, <1>4, FailedType
  <1>6. /\ log'.up /\ log'.fd = log.fd /\ log'.written = log.written /\ log'.base = log.base
        /\ log'.stage = "idle"
    BY <1>1, <1>2 DEF IInv, TypeI, LogType
  <1>7. TypeI' /\ FilesOK'
    BY Zenon, <1>2, <1>3, <1>4, <1>5 DEF IInv, TypeI, FilesOK, EndOf
  <1>8. WriterOK'
    BY <1>1, <1>2, <1>6 DEF IInv, WriterOK
  <1>9. SidecarOK'
    BY <1>1, <1>2, <1>3, <1>6 DEF IInv, SidecarOK, Fresh
  <1>10. FirstOK' /\ BaseOK'
    BY <1>1, <1>2, <1>3, <1>6 DEF IInv, FirstOK, BaseOK
  <1>11. QED
    BY <1>7, <1>8, <1>9, <1>10 DEF IInv

\* The sidecar is written with the start of the live file (record_base).
LEMMA RecordBaseOK == IInv /\ RecordBase => IInv'
  <1> SUFFICES ASSUME IInv, RecordBase PROVE IInv'
    OBVIOUS
  <1>1. /\ call.todo # <<>> /\ log.up /\ disk.live # None /\ log.fd = disk.live
        /\ log.fd \in Inode /\ log.fd # None /\ log.base \in Nat
    BY StartRunType DEF RecordBase, Rotating, At, IInv, WriterOK, TypeI, LogType, File
  <1>2. /\ disk' = [disk EXCEPT !.base = [offset |-> log.base, inode |-> log.fd]]
        /\ log' = [log EXCEPT !.stage = "idle"] /\ used' = used
        /\ call' = IF log.stage = "placing" THEN Ready(call, log') ELSE Done(call, log')
    BY DEF RecordBase
  <1>3. LogType(log') /\ CallType(call)
    BY Zenon, <1>2 DEF IInv, TypeI, LogType
  <1>4. CallType(call')
    BY <1>1, <1>2, <1>3, ReadyType, DoneType
  <1>5. /\ log'.up /\ log'.fd = log.fd /\ log'.written = log.written /\ log'.base = log.base
        /\ log'.stage = "idle"
    BY <1>1, <1>2 DEF IInv, TypeI, LogType
  <1>6. /\ disk'.stream = disk.stream /\ disk'.file = disk.file /\ disk'.live = disk.live
        /\ disk'.rotated = disk.rotated /\ disk'.base.offset = log.base
        /\ disk'.base.inode = log.fd
    BY <1>2 DEF IInv, TypeI
  <1>7. TypeI'
    <2>1. [offset |-> log.base, inode |-> log.fd] \in [offset : Nat, inode : File]
      BY <1>1 DEF File
    <2>2. disk' \in [stream : Seq(Byte), file : [Inode -> [from : Nat, len : Nat]],
                     live : File, rotated : File, base : [offset : Nat, inode : File]]
      BY Zenon, <1>2, <2>1 DEF IInv, TypeI
    <2>3. QED
      BY Zenon, <1>2, <1>3, <1>4, <2>2 DEF IInv, TypeI
  <1>8. FilesOK'
    BY <1>6 DEF IInv, FilesOK, EndOf
  <1>9. WriterOK'
    BY <1>1, <1>5, <1>6 DEF IInv, WriterOK
  <1>10. SidecarOK'
    BY <1>1, <1>2, <1>5, <1>6 DEF IInv, SidecarOK, BaseOK, NoBase
  <1>11. FirstOK' /\ BaseOK'
    BY <1>1, <1>2, <1>5, <1>6 DEF IInv, FirstOK, BaseOK
  <1>12. QED
    BY <1>7, <1>8, <1>9, <1>10, <1>11 DEF IInv

\* A log that is not open is a log.
LEMMA DownType == LogType(Down) /\ CallType(NoCall)
  <1>1. <<>> \in Seq(Steps) /\ <<>> \in Seq(Byte)
    OBVIOUS
  <1>2. QED
    BY <1>1 DEF LogType, CallType, Down, NoCall, File

\* A sidecar that is not written costs what the invariant says of it (record_base).
LEMMA FailRecordOK == IInv /\ FailRecord => IInv'
  <1> SUFFICES ASSUME IInv, FailRecord PROVE IInv'
    OBVIOUS
  <1>1. disk' = disk /\ Spend("records") /\ LogType(log) /\ CallType(call)
    BY DEF FailRecord, IInv, TypeI
  <1>2. /\ used' \in [Resource -> Nat] /\ used["records"] \in Nat
        /\ used'["records"] = used["records"] + 1 /\ used'["kills"] = used["kills"]
    BY SMTT(40), <1>1, SpendCounts DEF Resource
  <1>3. SidecarOK' /\ FilesOK'
    BY <1>1, <1>2 DEF IInv, SidecarOK, FilesOK, EndOf
  <1>4. CASE log.stage = "placing" /\ log' = Down /\ call' = NoCall
    <2>1. TypeI'
      BY Zenon, <1>1, <1>2, <1>4, DownType DEF IInv, TypeI
    <2>2. WriterOK' /\ BaseOK'
      BY <1>4 DEF WriterOK, BaseOK, Down, NoCall
    <2>3. FirstOK'
      BY <1>1, <1>2, <1>4 DEF IInv, FirstOK, Fresh
    <2>4. QED
      BY Zenon, <1>3, <2>1, <2>2, <2>3 DEF IInv
  <1>5. CASE /\ Rotating("created") /\ log' = [log EXCEPT !.stage = "idle"]
             /\ call' = Failed(call, log')
    <2>1. log.up
      BY <1>5 DEF Rotating, At, IInv, WriterOK
    <2>2. LogType(log')
      BY <1>1, <1>5 DEF LogType
    <2>3. CallType(call')
      BY <1>1, <1>5, <2>2, FailedType
    <2>4. /\ log'.up /\ log'.fd = log.fd /\ log'.written = log.written /\ log'.base = log.base
          /\ log'.stage = "idle"
      BY <1>1, <1>5, <2>1 DEF LogType
    <2>5. TypeI'
      BY <1>1, <1>2, <2>2, <2>3 DEF IInv, TypeI
    <2>6. WriterOK'
      BY <1>1, <2>1, <2>4 DEF IInv, WriterOK
    <2>7. FirstOK' /\ BaseOK'
      BY <1>1, <1>2, <2>1, <2>4 DEF IInv, FirstOK, BaseOK
    <2>8. QED
      BY <1>3, <2>5, <2>6, <2>7 DEF IInv
  <1>6. QED
    BY <1>4, <1>5 DEF FailRecord

\* Output changes nothing until it is written (append_held).
LEMMA OutputOK == IInv /\ Output => IInv'
  <1> SUFFICES ASSUME IInv, Output PROVE IInv'
    OBVIOUS
  <1>1. /\ log.up /\ call.todo = <<>> /\ UNCHANGED <<disk, log, used>>
        /\ CallType(call) /\ LogType(log)
    BY DEF Output, IInv, TypeI
  <1>2. log.stage = "idle"
    BY SMTT(40), <1>1, StartRunType DEF IInv, WriterOK, LogType, At
  <1>3. PICK bytes \in Chunk :
          call' = Ready([call EXCEPT !.at = End(log),
                                     !.todo = <<Step("append", bytes), Step("end", bytes),
                                                Step("hand", bytes)>>], log)
    BY Zenon DEF Output
  <1> DEFINE todo == <<Step("append", bytes), Step("end", bytes), Step("hand", bytes)>>
  <1>4. CallType(call')
    <2>1. bytes \in Seq(Byte)
      BY LogFilesAssumption DEF Byte
    <2>2. /\ Step("append", bytes) \in Steps /\ Step("end", bytes) \in Steps
          /\ Step("hand", bytes) \in Steps
      BY <2>1 DEF Step, Steps
    <2>3. todo \in Seq(Steps)
      BY <2>2
    <2>4. End(log) \in Nat
      BY <1>1 DEF LogType, End
    <2> HIDE DEF todo
    <2>5. CallType([call EXCEPT !.at = End(log), !.todo = todo])
      BY Zenon, <1>1, <2>3, <2>4 DEF CallType
    <2>6. call' = Ready([call EXCEPT !.at = End(log), !.todo = todo], log)
      BY <1>3 DEF todo
    <2>7. QED
      BY <1>1, <2>5, <2>6, ReadyType
  <1>5. TypeI'
    BY <1>1, <1>4 DEF IInv, TypeI
  <1>6. WriterOK'
    BY ZenonT(60), <1>1, <1>2 DEF IInv, WriterOK
  <1>7. FilesOK' /\ SidecarOK' /\ FirstOK' /\ BaseOK'
    BY <1>1 DEF IInv, FilesOK, EndOf, SidecarOK, Fresh, FirstOK, BaseOK
  <1>8. QED
    BY <1>5, <1>6, <1>7 DEF IInv

\* A kill leaves the files as they are.
LEMMA KillOK == IInv /\ Kill => IInv'
  <1> SUFFICES ASSUME IInv, Kill PROVE IInv'
    OBVIOUS
  <1>1. disk' = disk /\ log' = Down /\ call' = NoCall /\ Spend("kills")
    BY DEF Kill
  <1>2. /\ used' \in [Resource -> Nat] /\ used["kills"] \in Nat
        /\ used'["records"] = used["records"] /\ used'["kills"] = used["kills"] + 1
    BY <1>1, SpendCounts DEF Resource
  <1>3. TypeI'
    BY Zenon, <1>1, <1>2, DownType DEF IInv, TypeI
  <1>4. FilesOK' /\ WriterOK' /\ BaseOK'
    BY Zenon, <1>1 DEF IInv, FilesOK, EndOf, WriterOK, BaseOK, Down, NoCall
  <1>5. SidecarOK'
    BY <1>1, <1>2 DEF IInv, SidecarOK, Fresh, Down
  <1>6. FirstOK'
    BY <1>2 DEF FirstOK
  <1>7. QED
    BY <1>3, <1>4, <1>5, <1>6 DEF IInv

\* What placing the file at the live path comes to, with the sidecar right.
LEMMA PlacedRight ==
    ASSUME IInv, ~log.up, NEW i \in Inode, NEW d,
           \/ disk.live = i /\ d = disk
           \/ disk.live = None /\ i # disk.rotated /\ d = Created(disk, i)
    PROVE  /\ PlacedAtOpen(d).offset \in Nat
           /\ used["records"] = 0 \/ used["kills"] = 0 => PlacedAtOpen(d).offset = d.file[i].from
  <1>1. /\ i # None /\ Len(disk.stream) \in Nat
        /\ disk.file \in [Inode -> [from : Nat, len : Nat]]
        /\ disk.base.offset \in Nat /\ disk.rotated \in Inode \cup {None}
    BY SMTT(40), LogFilesAssumption DEF IInv, TypeI, File
  <1>2. /\ d.live = i /\ d.rotated = disk.rotated /\ d.base = disk.base
        /\ d.file \in [Inode -> [from : Nat, len : Nat]]
        /\ \A j \in Inode : j # i => d.file[j] = disk.file[j]
    <2>1. CASE disk.live = i /\ d = disk
      BY <1>1, <2>1
    <2>2. CASE disk.live = None /\ d = Created(disk, i)
      <3>1. [from |-> Len(disk.stream), len |-> 0] \in [from : Nat, len : Nat]
        BY <1>1
      <3>2. QED
        BY Zenon, <1>1, <2>2, <3>1 DEF Created, IInv, TypeI
    <2>3. QED
      BY <2>1, <2>2
  <1>3. d.file[i].from = IF disk.live = i THEN disk.file[i].from ELSE Len(disk.stream)
    <2>1. CASE disk.live = i /\ d = disk
      BY <2>1
    <2>2. CASE disk.live = None /\ d = Created(disk, i)
      <3>1. d.file = [disk.file EXCEPT ![i] = [from |-> Len(disk.stream), len |-> 0]]
        BY Zenon, <2>2 DEF Created, IInv, TypeI
      <3>2. QED
        BY <1>1, <2>2, <3>1
    <2>3. QED
      BY <2>1, <2>2
  <1>4. disk.rotated # None =>
          disk.rotated \in Inode /\ disk.rotated # i /\ d.file[disk.rotated] = disk.file[disk.rotated]
    BY Zenon, <1>1, <1>2 DEF IInv, FilesOK
  <1> DEFINE rlen == IF disk.rotated = None THEN 0 ELSE disk.file[disk.rotated].len
  <1>5. PlacedAtOpen(d).offset = IF disk.base = NoBase THEN rlen
                                 ELSE IF disk.base.inode = i THEN disk.base.offset
                                 ELSE IF disk.base.inode = disk.rotated THEN disk.base.offset + rlen
                                 ELSE disk.base.offset
    <2>1. Generation(d, d.live).inode = i
      BY <1>1, <1>2 DEF Generation
    <2>2. Generation(d, d.rotated).inode = disk.rotated /\ Generation(d, d.rotated).len = rlen
      BY <1>2, <1>4 DEF Generation, NoGeneration
    <2>3. QED
      BY <1>2, <2>1, <2>2 DEF PlacedAtOpen, Resolve
  <1>6. rlen \in Nat
    BY <1>1
  <1>7. PlacedAtOpen(d).offset \in Nat
    BY SMTT(40), <1>1, <1>5, <1>6
  <1>8. ASSUME Fresh PROVE PlacedAtOpen(d).offset = d.file[i].from
    BY <1>1, <1>3, <1>5, <1>8 DEF Fresh, IInv, FilesOK
  <1>9. ASSUME used["records"] = 0, disk.base # NoBase
        PROVE  PlacedAtOpen(d).offset = d.file[i].from
    <2>1. /\ disk.base.inode # None /\ disk.base.inode \in {disk.live, disk.rotated}
          /\ disk.base.offset = disk.file[disk.base.inode].from
      BY <1>9 DEF IInv, SidecarOK
    <2>2. CASE disk.base.inode = i
      <3>1. disk.live = i
        BY Zenon, <1>1, <2>1, <2>2
      <3>2. QED
        BY Zenon, <1>3, <1>5, <1>9, <2>1, <2>2, <3>1
    <2>3. CASE disk.base.inode # i
      <3>1. disk.base.inode = disk.rotated /\ disk.rotated # None
        BY Zenon, <1>1, <2>1, <2>3
      <3>2. PlacedAtOpen(d).offset = EndOf(disk.rotated)
        BY ZenonT(60), <1>5, <1>9, <2>1, <2>3, <3>1 DEF EndOf
      <3>3. EndOf(disk.rotated) = d.file[i].from
        BY <1>1, <1>3, <3>1 DEF IInv, FilesOK
      <3>4. QED
        BY Zenon, <3>2, <3>3
    <2>4. QED
      BY <2>2, <2>3
  <1>10. used["kills"] = 0 => Fresh
    BY DEF IInv, FirstOK
  <1>11. used["records"] = 0 /\ disk.base = NoBase => Fresh
    BY DEF IInv, SidecarOK
  <1>12. QED
    BY <1>7, <1>8, <1>9, <1>10, <1>11

\* The file opened at the live path is one.
LEMMA OpenedFile ==
    ASSUME IInv, NEW i \in IF disk.live = None THEN Free(OpenByReaders) ELSE {disk.live}
    PROVE  i \in Inode /\ i # None
  <1>1. disk.live \in File
    BY DEF IInv, TypeI
  <1>2. i \in Inode
    <2>1. CASE disk.live = None
      <3>1. i \in Free(OpenByReaders)
        BY Zenon, <2>1
      <3>2. QED
        BY Zenon, <3>1 DEF Free
    <2>2. CASE disk.live # None
      BY Zenon, <1>1, <2>2 DEF File
    <2>3. QED
      BY Zenon, <2>1, <2>2
  <1>3. QED
    BY Zenon, <1>2, LogFilesAssumption

\* The next holder finds where its live file starts (RotatingLog::open).
LEMMA OpenOK == IInv /\ Open => IInv'
  <1> SUFFICES ASSUME IInv, Open PROVE IInv'
    OBVIOUS
  <1>1. ~log.up /\ used' = used
    BY DEF Open
  <1>2. PICK i \in IF disk.live = None THEN Free(OpenByReaders) ELSE {disk.live} :
          /\ disk' = IF disk.live = None THEN Created(disk, i) ELSE disk
          /\ log' = [up |-> TRUE, fd |-> i, written |-> disk'.file[i].len,
                     base |-> PlacedAtOpen(disk').offset,
                     ends |-> EndsLine(disk', disk'.file[i].len),
                     stage |-> IF disk.base = [offset |-> PlacedAtOpen(disk').offset, inode |-> i]
                               THEN "idle" ELSE "placing"]
    BY Zenon DEF Open
  <1> DEFINE base == PlacedAtOpen(disk').offset
             c == [NoCall EXCEPT !.run = End(log'), !.at = End(log'), !.todo = StartRun]
  <1>3. call' = IF log'.stage = "placing" THEN c ELSE Ready(c, log')
    BY ZenonT(40) DEF Open
  <1>4. i \in Inode /\ i # None
    BY Zenon, <1>2, OpenedFile
  <1>5. \/ disk.live = i /\ disk' = disk
        \/ disk.live = None /\ i # disk.rotated /\ disk' = Created(disk, i)
    BY Zenon, <1>2 DEF Free
  <1>6. /\ base \in Nat
        /\ used["records"] = 0 \/ used["kills"] = 0 => base = disk'.file[i].from
    BY Zenon, <1>1, <1>4, <1>5, PlacedRight
  <1> HIDE DEF base
  <1>7. /\ disk' \in [stream : Seq(Byte), file : [Inode -> [from : Nat, len : Nat]],
                      live : File, rotated : File, base : [offset : Nat, inode : File]]
        /\ disk'.live = i /\ disk'.rotated = disk.rotated /\ disk'.base = disk.base
        /\ disk'.stream = disk.stream /\ Len(disk.stream) \in Nat
        /\ \A j \in Inode : j # i => disk'.file[j] = disk.file[j]
    <2>1. CASE disk.live = i /\ disk' = disk
      BY <2>1 DEF IInv, TypeI
    <2>2. CASE disk.live = None /\ disk' = Created(disk, i)
      <3>1. [from |-> Len(disk.stream), len |-> 0] \in [from : Nat, len : Nat]
        BY DEF IInv, TypeI
      <3>2. QED
        BY Zenon, <1>4, <2>2, <3>1 DEF Created, IInv, TypeI, File
    <2>3. QED
      BY ZenonT(60), <1>5, <2>1, <2>2
  <1>8. /\ log'.up /\ log'.fd = i /\ log'.written = disk'.file[i].len /\ log'.base = base
        /\ log'.stage = IF disk.base = [offset |-> base, inode |-> i] THEN "idle" ELSE "placing"
        /\ log'.ends \in BOOLEAN
    BY Zenon, <1>2 DEF base, EndsLine
  <1>9. LogType(log')
    <2>1. disk'.file[i].len \in Nat /\ EndsLine(disk', disk'.file[i].len) \in BOOLEAN
      BY <1>4, <1>7 DEF EndsLine
    <2>2. QED
      BY Zenon, <1>2, <1>4, <1>6, <2>1 DEF LogType, File, base
  <1>10. CallType(call')
    <2>1. End(log') \in Nat
      BY <1>9 DEF LogType, End
    <2>2. CallType(c)
      BY Zenon, <2>1, StartRunType, DownType DEF CallType
    <2>3. QED
      BY <1>3, <1>9, <2>2, ReadyType
  <1>11. log'.stage = "placing" => call'.todo = StartRun
    BY Zenon, <1>3 DEF NoCall
  <1>12. TypeI'
    BY <1>1, <1>7, <1>9, <1>10 DEF IInv, TypeI
  <1>13. FilesOK'
    <2>1. CASE disk.live = i /\ disk' = disk
      BY Zenon, <2>1 DEF IInv, FilesOK, EndOf
    <2>2. CASE disk.live = None /\ i # disk.rotated /\ disk' = Created(disk, i)
      <3>1. disk'.file[i].from = Len(disk.stream) /\ disk'.file[i].len = 0
        BY <1>4, <2>2 DEF Created, IInv, TypeI
      <3>2. disk.rotated # None => disk.rotated \in Inode /\ EndOf(disk.rotated) = Len(disk.stream)
        BY Zenon, <2>2 DEF IInv, FilesOK, TypeI, File
      <3>3. disk.rotated = None => Len(disk.stream) = 0
        BY ZenonT(60), <2>2 DEF IInv, FilesOK
      <3>4. QED
        BY <1>4, <1>7, <2>2, <3>1, <3>2, <3>3 DEF FilesOK, EndOf
    <2>3. QED
      BY Zenon, <1>5, <2>1, <2>2
  <1>14. WriterOK'
    BY <1>4, <1>7, <1>8, <1>11 DEF WriterOK
  <1>15. SidecarOK'
    <2>1. SUFFICES ASSUME used["records"] = 0 PROVE SidecarOK'
      BY Zenon, <1>1 DEF SidecarOK
    <2>2. CASE disk.base = NoBase
      <3>1. Fresh
        BY Zenon, <2>1, <2>2 DEF IInv, SidecarOK
      <3>2. disk.base # [offset |-> base, inode |-> i]
        BY <1>4, <2>2 DEF NoBase
      <3>3. QED
        BY Zenon, <1>7, <1>8, <2>2, <3>1, <3>2 DEF SidecarOK, Fresh
    <2>3. CASE disk.base # NoBase
      <3>1. /\ disk.base.inode # None /\ disk.base.inode \in {disk.live, disk.rotated}
            /\ disk.base.offset = disk.file[disk.base.inode].from
        BY <2>1, <2>3 DEF IInv, SidecarOK
      <3>2. disk.base.inode \in Inode
        BY Zenon, <3>1 DEF IInv, TypeI, File
      <3>3. disk'.file[disk.base.inode].from = disk.file[disk.base.inode].from
        BY Zenon, <1>5, <1>7, <3>1, <3>2
      <3>4. disk.base.inode \in {disk'.live, disk'.rotated}
        BY Zenon, <1>5, <1>7, <3>1
      <3>5. disk.base.inode # i => log'.stage = "placing"
        BY <1>8
      <3>6. QED
        BY ZenonT(60), <1>4, <1>7, <2>3, <3>1, <3>3, <3>4, <3>5 DEF SidecarOK
    <2>4. QED
      BY Zenon, <2>2, <2>3
  <1>16. FirstOK'
    BY Zenon, <1>1, <1>7 DEF IInv, FirstOK, Fresh
  <1>17. BaseOK'
    BY <1>1, <1>6, <1>8 DEF BaseOK
  <1>18. QED
    BY <1>12, <1>13, <1>14, <1>15, <1>16, <1>17 DEF IInv

-----------------------------------------------------------------------------

\* Every step of the holder keeps the invariant.
LEMMA HoldsOK == IInv /\ Holds => IInv'
  BY Zenon, OpenOK, OutputOK, WriteOK, FailWriteOK, RenameOK, CreateOK, FailRotationOK, RecordBaseOK,
     FailRecordOK, KillOK DEF Holds

\* A read or a follower counts itself at most.
LEMMA OthersOK == IInv /\ (Reads \/ Follows) => IInv'
  <1> SUFFICES ASSUME IInv, Reads \/ Follows PROVE IInv'
    OBVIOUS
  <1>1. UNCHANGED <<disk, log, call>>
    BY Zenon DEF Reads, Follows, OpenRotated, OpenLive, ReadBase, StillRotated, StillLive, Follow, Drain,
           Stat, OpenNew, InspectRotated, LiveStart, CatchUp
  <1>2. UNCHANGED used \/ Spend("reads") \/ Spend("follows")
    BY Zenon DEF Reads, Follows, OpenRotated, OpenLive, ReadBase, StillRotated, StillLive, Follow, Drain,
           Stat, OpenNew, InspectRotated, LiveStart, CatchUp
  <1>3. /\ used' \in [Resource -> Nat]
        /\ used'["records"] = used["records"] /\ used'["kills"] = used["kills"]
    <2>1. CASE UNCHANGED used
      BY <2>1 DEF IInv, TypeI
    <2>2. CASE Spend("reads")
      BY <2>2, SpendCounts DEF Resource
    <2>3. CASE Spend("follows")
      BY SMTT(40), <2>3, SpendCounts DEF Resource
    <2>4. QED
      BY <1>2, <2>1, <2>2, <2>3
  <1>4. QED
    BY <1>1, <1>3, OthersKeep

\* The file written starts where the log says and is as long as it says, and it
\* ends where the stream does.
LEMMA IInvPositions == IInv => PositionsContinue
  <1> SUFFICES ASSUME IInv, log.up, used["records"] = 0 \/ used["kills"] = 0
               PROVE  End(log) = Len(disk.stream)
    BY Zenon DEF PositionsContinue
  <1>1. /\ log.fd # None /\ log.written = disk.file[log.fd].len
        /\ log.fd = IF disk.live = None THEN disk.rotated ELSE disk.live
        /\ log.base = disk.file[log.fd].from
    BY Zenon DEF IInv, WriterOK, BaseOK
  <1>2. EndOf(log.fd) = Len(disk.stream)
    BY <1>1 DEF IInv, FilesOK
  <1>3. QED
    BY <1>1, <1>2 DEF End, EndOf

-----------------------------------------------------------------------------
(* Lines. *)

\* Place `at` of a stream is its start or just after a line feed.
OnLine(s, at) == at = 0 \/ (at \in 1..Len(s) /\ s[at] = "feed")
EndLine(s) == OnLine(s, Len(s))

Feed(bytes) == bytes # <<>> /\ bytes[Len(bytes)] = "feed"

NoStart(todo) == \A k \in DOMAIN todo : todo[k].op # "start"

\* A rotation that a call still has to make comes first, at the end of a line,
\* or right after the write that ends one.
TodoOK(todo, s) ==
    \A k \in DOMAIN todo :
        /\ todo[k].op = "write" => todo[k].bytes # <<>>
        /\ todo[k].op = "rotate" =>
              \/ k = 1 /\ EndLine(s)
              \/ k = 2 /\ todo[1].op = "write" /\ Feed(todo[1].bytes)

\* A step after which the log ends a line.
EndsIt(step) ==
    \/ step.op = "rotate"
    \/ step.op \in {"append", "write"} /\ step.bytes = EndOpenLine

\* So does the start of a run that a call still has to note.
PrepOK(todo, s) ==
    \A k \in DOMAIN todo :
        todo[k].op = "start" =>
            /\ \A j \in DOMAIN todo : todo[j].op # "end"
            /\ \/ k = 1 /\ EndLine(s)
               \/ k > 1 /\ EndsIt(todo[k - 1])

RunOK(c, s) == NoStart(c.todo) => OnLine(s, c.run)

Unfailed == used["faults"] = 0
Placed == Unfailed /\ (used["records"] = 0 \/ used["kills"] = 0)

\* The log knows when its file ends a line.
EndsOK == log.up /\ log.ends /\ log.written > 0 => EndLine(disk.stream)

\* The live name is free only at the end of a line, within a rotation.
GapOK ==
    disk.live = None /\ Unfailed => EndLine(disk.stream) /\ (log.up => log.stage = "renamed")

\* The files named start on lines.
StartsOK ==
    ~Halfway => \A i \in {disk.live, disk.rotated} \ {None} : OnLine(disk.stream, disk.file[i].from)

CallOK ==
    /\ TodoOK(call.todo, disk.stream)
    /\ Unfailed => PrepOK(call.todo, disk.stream)
    /\ Placed => RunOK(call, disk.stream)

LinesOK == EndsOK /\ GapOK /\ StartsOK /\ CallOK

\* A line stays one while the stream grows, ...
LEMMA LineGrows ==
    ASSUME NEW s \in Seq(Byte), NEW t \in Seq(Byte), NEW at, OnLine(s, at)
    PROVE  OnLine(s \o t, at)
  BY DEF OnLine

\* ... and what ends with a line feed ends it.
LEMMA LineWritten ==
    ASSUME NEW s \in Seq(Byte), NEW t \in Seq(Byte), Feed(t)
    PROVE  EndLine(s \o t)
  <1>1. Len(t) \in Nat \ {0} /\ Len(s) \in Nat /\ Len(s \o t) = Len(s) + Len(t)
    BY DEF Feed
  <1>2. (s \o t)[Len(s) + Len(t)] = t[Len(t)]
    BY <1>1
  <1>3. QED
    BY <1>1, <1>2 DEF EndLine, OnLine, Feed

\* Sequences with the same elements are the same.
LEMMA SameSeq ==
    ASSUME NEW S, NEW s \in Seq(S), NEW t \in Seq(S), Len(s) = Len(t),
           \A i \in 1..Len(s) : s[i] = t[i]
    PROVE  s = t
  OBVIOUS

\* Two and three steps.
LEMMA TwoSteps ==
    ASSUME NEW a \in Steps, NEW b \in Steps
    PROVE  <<a>> \o <<b>> = <<a, b>>
  <1> DEFINE s == <<a>> \o <<b>>
             t == <<a, b>>
  <1>1. s \in Seq(Steps) /\ Len(s) = 2 /\ s[1] = a /\ s[2] = b
    OBVIOUS
  <1>2. t \in Seq(Steps) /\ Len(t) = 2 /\ t[1] = a /\ t[2] = b
    OBVIOUS
  <1> HIDE DEF s, t
  <1>3. Len(s) = Len(t) /\ \A i \in 1..Len(s) : s[i] = t[i]
    BY <1>1, <1>2
  <1>4. s = t
    BY <1>1, <1>2, <1>3, SameSeq
  <1>5. QED
    BY <1>4 DEF s, t

\* Three steps put together.
LEMMA ThreeSteps ==
    ASSUME NEW a \in Steps, NEW b \in Steps, NEW c \in Steps
    PROVE  <<a, b>> \o <<c>> = <<a, b, c>>
  <1> DEFINE s == <<a, b>> \o <<c>>
             t == <<a, b, c>>
  <1>1. s \in Seq(Steps) /\ Len(s) = 3 /\ s[1] = a /\ s[2] = b /\ s[3] = c
    OBVIOUS
  <1>2. t \in Seq(Steps) /\ Len(t) = 3 /\ t[1] = a /\ t[2] = b /\ t[3] = c
    OBVIOUS
  <1> HIDE DEF s, t
  <1>3. Len(s) = Len(t) /\ \A i \in 1..Len(s) : s[i] = t[i]
    BY <1>1, <1>2
  <1>4. s = t
    BY <1>1, <1>2, <1>3, SameSeq
  <1>5. QED
    BY <1>4 DEF s, t

\* A write of bytes is a step.
LEMMA WriteType ==
    ASSUME NEW bytes \in Seq(Byte)
    PROVE  Step("write", bytes) \in Steps
  BY DEF Step, Steps

\* The steps after the first one.
LEMMA TailAt ==
    ASSUME NEW todo \in Seq(Steps), todo # <<>>
    PROVE  /\ Tail(todo) \in Seq(Steps) /\ Head(todo) = todo[1] /\ 1 \in DOMAIN todo
           /\ \A k \in DOMAIN Tail(todo) :
                 k \in Nat \ {0} /\ k + 1 \in DOMAIN todo /\ Tail(todo)[k] = todo[k + 1]
           /\ \A k \in DOMAIN todo : k # 1 => k > 1 /\ k - 1 \in DOMAIN Tail(todo)
           /\ DOMAIN todo \in SUBSET Nat
  OBVIOUS

\* What an append chooses to do: to write, at the end of a line to rotate first,
\* or to rotate at the first line feed of what it appends.
Appends(g, bytes, x) ==
    \/ x = WriteOf(bytes)
    \/ g.ends /\ g.written > 0 /\ x = <<Rotate>> \o WriteOf(bytes)
    \/ \E h \in Seq(Byte), t \in Seq(Byte) :
          Feed(h) /\ bytes = h \o t /\ x = <<Step("write", h), Rotate>> \o WriteOf(t)

\* append_bytes plans writes and rotations that append the bytes it was given.
LEMMA AppendShape ==
    ASSUME NEW g, LogType(g), NEW bytes \in Seq(Byte)
    PROVE  Appends(g, bytes, AppendBytes(g, bytes))
  <1> DEFINE head == IF g.ends THEN 0 ELSE First(Feeds(bytes))
             plain == \/ g.written = 0 \/ g.written + Len(bytes) <= Cap
                      \/ ~g.ends /\ Feeds(bytes) = {}
             h == SubSeq(bytes, 1, head)
             t == SubSeq(bytes, head + 1, Len(bytes))
  <1>1. CASE plain
    <2>1. AppendBytes(g, bytes) = WriteOf(bytes)
      BY <1>1 DEF AppendBytes
    <2>2. QED
      BY Zenon, <2>1 DEF Appends
  <1>2. CASE ~plain
    <2>1. AppendBytes(g, bytes) = WriteOf(h) \o <<Rotate>> \o WriteOf(t)
      BY <1>2 DEF AppendBytes
    <2>2. g.written > 0
      BY <1>2 DEF LogType
    <2>3. CASE g.ends
      <3>1. head = 0
        BY <2>3
      <3>2. h = <<>> /\ t = bytes
        BY <3>1
      <3>3. WriteOf(h) = <<>>
        BY <3>2 DEF WriteOf
      <3> HIDE DEF h, t, head
      <3>4. WriteOf(bytes) \in Seq(Steps) /\ <<Rotate>> \in Seq(Steps)
        BY WriteOfType, RotateType
      <3>5. <<>> \o <<Rotate>> = <<Rotate>>
        OBVIOUS
      <3>6. QED
        BY Zenon, <2>1, <2>2, <2>3, <3>2, <3>3, <3>5 DEF Appends
    <2>4. CASE ~g.ends
      <3>1. Feeds(bytes) \in SUBSET Nat /\ Feeds(bytes) # {}
        BY <1>2, <2>4 DEF Feeds
      <3>2. head \in Feeds(bytes)
        BY <2>4, <3>1, FirstIsIn
      <3> HIDE DEF head
      <3>3. head \in 1..Len(bytes) /\ bytes[head] = "feed"
        BY <3>2 DEF Feeds
      <3>4. /\ h \in Seq(Byte) /\ t \in Seq(Byte) /\ Len(h) = head /\ h[head] = "feed"
            /\ h # <<>>
        BY <3>3
      <3>5. bytes = h \o t
        <4>1. /\ Len(h \o t) = Len(bytes) /\ h \o t \in Seq(Byte)
              /\ \A k \in 1..Len(bytes) : (h \o t)[k] = bytes[k]
          BY <3>3, <3>4
        <4> DEFINE y == h \o t
        <4> HIDE DEF h, t
        <4>2. Len(y) = Len(bytes) /\ y \in Seq(Byte) /\ \A k \in 1..Len(y) : y[k] = bytes[k]
          BY Zenon, <4>1
        <4> HIDE DEF y
        <4>3. y = bytes
          BY <4>2, SameSeq
        <4>4. QED
          BY Zenon, <4>3 DEF y
      <3>6. WriteOf(h) = <<Step("write", h)>>
        BY Zenon, <3>4 DEF WriteOf
      <3>7. <<Step("write", h)>> \o <<Rotate>> = <<Step("write", h), Rotate>>
        BY Zenon, <3>4, WriteType, RotateType, TwoSteps
      <3>8. Feed(h)
        BY <3>4 DEF Feed
      <3> HIDE DEF h, t
      <3>9. QED
        BY Zenon, <2>1, <3>4, <3>5, <3>6, <3>7, <3>8 DEF Appends
    <2>5. QED
      BY Zenon, <2>3, <2>4
  <1>3. QED
    BY <1>1, <1>2

\* Its rotation is at the end of a line; a line feed by itself is written or
\* rotated after.
LEMMA AppendLines ==
    ASSUME NEW g, LogType(g), NEW bytes \in Seq(Byte), NEW s \in Seq(Byte),
           g.ends /\ g.written > 0 => EndLine(s)
    PROVE  /\ TodoOK(AppendBytes(g, bytes), s)
           /\ \A k \in DOMAIN AppendBytes(g, bytes) :
                 AppendBytes(g, bytes)[k].op \in {"write", "rotate"}
           /\ bytes = EndOpenLine =>
                 /\ Len(AppendBytes(g, bytes)) > 0
                 /\ EndsIt(AppendBytes(g, bytes)[Len(AppendBytes(g, bytes))])
  <1> DEFINE x == AppendBytes(g, bytes)
  <1>0. EndOpenLine # <<>> /\ Len(EndOpenLine) = 1
    BY Zenon DEF EndOpenLine
  <1>1. CASE x = WriteOf(bytes)
    <2>1. CASE bytes = <<>>
      <3>1. x = <<>>
        BY <1>1, <2>1 DEF WriteOf
      <3> HIDE DEF x
      <3>2. TodoOK(x, s) /\ \A k \in DOMAIN x : x[k].op \in {"write", "rotate"}
        BY SMTT(40), <3>1 DEF TodoOK
      <3>3. QED
        BY <1>0, <2>1, <3>2 DEF x
    <2>2. CASE bytes # <<>>
      <3>1. x = <<Step("write", bytes)>>
        BY Zenon, <1>1, <2>2 DEF WriteOf
      <3> HIDE DEF x
      <3>2. DOMAIN x = {1} /\ Len(x) = 1 /\ x[1].op = "write" /\ x[1].bytes = bytes
        BY <3>1 DEF Step
      <3>3. TodoOK(x, s)
        BY ZenonT(60), <2>2, <3>2 DEF TodoOK
      <3>4. QED
        BY <3>2, <3>3 DEF x, EndsIt
    <2>3. QED
      BY Zenon, <2>1, <2>2
  <1>2. CASE g.ends /\ g.written > 0 /\ x = <<Rotate>> \o WriteOf(bytes)
    <2>0. EndLine(s)
      BY ZenonT(60), <1>2
    <2>1. CASE bytes = <<>>
      <3>1. WriteOf(bytes) = <<>>
        BY <2>1 DEF WriteOf
      <3>2. x = <<Rotate>>
        BY <1>2, <3>1
      <3> HIDE DEF x
      <3>3. DOMAIN x = {1} /\ Len(x) = 1 /\ x[1].op = "rotate"
        BY <3>2 DEF Rotate, Step
      <3>4. TodoOK(x, s)
        BY Zenon, <2>0, <3>3 DEF TodoOK
      <3>5. QED
        BY <3>3, <3>4 DEF x, EndsIt
    <2>2. CASE bytes # <<>>
      <3>1. WriteOf(bytes) = <<Step("write", bytes)>>
        BY Zenon, <2>2 DEF WriteOf
      <3>2. x = <<Rotate, Step("write", bytes)>>
        BY Zenon, <1>2, <3>1, WriteType, RotateType, TwoSteps
      <3> HIDE DEF x
      <3>3. /\ DOMAIN x = {1, 2} /\ Len(x) = 2 /\ x[1].op = "rotate"
            /\ x[2].op = "write" /\ x[2].bytes = bytes
        BY SMTT(40), <3>2 DEF Rotate, Step
      <3>4. TodoOK(x, s)
        BY Zenon, <2>0, <2>2, <3>3 DEF TodoOK
      <3>5. QED
        BY <3>3, <3>4 DEF x, EndsIt
    <2>3. QED
      BY <2>1, <2>2
  <1>3. ASSUME NEW h \in Seq(Byte), NEW t \in Seq(Byte), Feed(h), bytes = h \o t,
               x = <<Step("write", h), Rotate>> \o WriteOf(t)
        PROVE  /\ TodoOK(x, s)
               /\ \A k \in DOMAIN x : x[k].op \in {"write", "rotate"}
               /\ bytes = EndOpenLine => Len(x) > 0 /\ EndsIt(x[Len(x)])
    <2>1. CASE t = <<>>
      <3>1. WriteOf(t) = <<>>
        BY <2>1 DEF WriteOf
      <3>2. x = <<Step("write", h), Rotate>>
        BY <1>3, <3>1
      <3> HIDE DEF x
      <3>3. /\ DOMAIN x = {1, 2} /\ Len(x) = 2 /\ x[1].op = "write" /\ x[1].bytes = h
            /\ x[2].op = "rotate"
        BY <3>2 DEF Rotate, Step
      <3>4. h # <<>>
        BY Zenon, <1>3 DEF Feed
      <3>5. TodoOK(x, s)
        BY Zenon, <1>3, <3>3, <3>4 DEF TodoOK
      <3>6. QED
        BY <3>3, <3>5 DEF EndsIt
    <2>2. CASE t # <<>>
      <3>1. WriteOf(t) = <<Step("write", t)>>
        BY Zenon, <2>2 DEF WriteOf
      <3>2. x = <<Step("write", h), Rotate, Step("write", t)>>
        <4>1. Step("write", h) \in Steps /\ Step("write", t) \in Steps
          BY Zenon, <1>3, WriteType
        <4>2. <<Step("write", h), Rotate>> \o <<Step("write", t)>>
                = <<Step("write", h), Rotate, Step("write", t)>>
          BY Zenon, <4>1, RotateType, ThreeSteps
        <4>3. QED
          BY Zenon, <1>3, <3>1, <4>2
      <3>3. bytes # EndOpenLine
        <4>1. Len(h) > 0 /\ Len(t) > 0
          BY <1>3, <2>2 DEF Feed
        <4>2. Len(bytes) = Len(h) + Len(t)
          BY <1>3
        <4>3. QED
          BY <1>0, <4>1, <4>2
      <3> HIDE DEF x
      <3>4. /\ DOMAIN x = {1, 2, 3} /\ x[1].op = "write" /\ x[1].bytes = h
            /\ x[2].op = "rotate" /\ x[3].op = "write" /\ x[3].bytes = t
        BY <3>2 DEF Rotate, Step
      <3>5. h # <<>>
        BY Zenon, <1>3 DEF Feed
      <3>6. TodoOK(x, s)
        BY Zenon, <1>3, <2>2, <3>4, <3>5 DEF TodoOK
      <3>7. QED
        BY <3>3, <3>4, <3>6
    <2>3. QED
      BY ZenonT(60), <2>1, <2>2
  <1>4. Appends(g, bytes, x)
    BY Zenon, AppendShape
  <1> HIDE DEF x
  <1>5. /\ TodoOK(x, s)
        /\ \A k \in DOMAIN x : x[k].op \in {"write", "rotate"}
        /\ bytes = EndOpenLine => Len(x) > 0 /\ EndsIt(x[Len(x)])
    <2>1. CASE \E h \in Seq(Byte), t \in Seq(Byte) :
                  Feed(h) /\ bytes = h \o t /\ x = <<Step("write", h), Rotate>> \o WriteOf(t)
      BY Zenon, <1>3, <2>1
    <2>2. QED
      BY Zenon, <1>1, <1>2, <1>4, <2>1 DEF Appends, x
  <1>6. QED
    BY Zenon, <1>5 DEF x

\* Once its first step is taken, what remains of a call is in order.
LEMMA RestTodo ==
    ASSUME NEW todo \in Seq(Steps), todo # <<>>, NEW s, NEW t, TodoOK(todo, s),
           Head(todo).op = "write" /\ Feed(Head(todo).bytes) => EndLine(t)
    PROVE  TodoOK(Tail(todo), t)
  <1> SUFFICES ASSUME NEW k \in DOMAIN Tail(todo)
               PROVE  /\ Tail(todo)[k].op = "write" => Tail(todo)[k].bytes # <<>>
                      /\ Tail(todo)[k].op = "rotate" => k = 1 /\ EndLine(t)
    BY DEF TodoOK
  <1> DEFINE r == Tail(todo)
  <1>1. /\ k \in Nat \ {0} /\ k + 1 \in DOMAIN todo /\ r[k] = todo[k + 1] /\ Head(todo) = todo[1]
    BY TailAt
  <1> HIDE DEF r
  <1>2. /\ todo[k + 1].op = "write" => todo[k + 1].bytes # <<>>
        /\ todo[k + 1].op = "rotate" =>
              \/ k + 1 = 1 /\ EndLine(s)
              \/ k + 1 = 2 /\ todo[1].op = "write" /\ Feed(todo[1].bytes)
    BY Zenon, <1>1 DEF TodoOK
  <1>3. QED
    BY <1>1, <1>2 DEF r

\* A run still starts on a line once the first step of the call has been taken.
LEMMA RestPrep ==
    ASSUME NEW todo \in Seq(Steps), todo # <<>>, NEW s, NEW t, PrepOK(todo, s),
           Head(todo).op # "append", EndsIt(Head(todo)) => EndLine(t)
    PROVE  PrepOK(Tail(todo), t)
  <1> DEFINE r == Tail(todo)
  <1> SUFFICES ASSUME NEW k \in DOMAIN r, r[k].op = "start"
               PROVE  /\ \A j \in DOMAIN r : r[j].op # "end"
                      /\ \/ k = 1 /\ EndLine(t)
                         \/ k > 1 /\ EndsIt(r[k - 1])
    BY Zenon DEF PrepOK
  <1>1. /\ Head(todo) = todo[1]
        /\ \A j \in DOMAIN r : j \in Nat \ {0} /\ j + 1 \in DOMAIN todo /\ r[j] = todo[j + 1]
        /\ \A j \in DOMAIN todo : j # 1 => j > 1 /\ j - 1 \in DOMAIN r
    BY Zenon, TailAt
  <1> HIDE DEF r
  <1> DEFINE n == k + 1
  <1>2. /\ k + 1 \in DOMAIN todo /\ todo[k + 1].op = "start" /\ k \in Nat \ {0}
        /\ n \in DOMAIN todo /\ todo[n].op = "start" /\ n # 1 /\ n - 1 = k
    BY <1>1
  <1> HIDE DEF n
  <1>3. /\ \A j \in DOMAIN todo : todo[j].op # "end"
        /\ n = 1 \/ EndsIt(todo[n - 1])
    BY Zenon, <1>2 DEF PrepOK
  <1>4. EndsIt(todo[k])
    BY Zenon, <1>2, <1>3
  <1>5. CASE k = 1
    BY Zenon, <1>1, <1>3, <1>4, <1>5
  <1>6. CASE k # 1
    <2>1. k > 1 /\ k - 1 \in Nat \ {0}
      BY <1>2, <1>6
    <2>2. k \in DOMAIN todo
      BY <1>2, <2>1
    <2>3. k - 1 \in DOMAIN r /\ r[k - 1] = todo[k - 1 + 1]
      BY Zenon, <1>1, <1>6, <2>2
    <2>4. r[k - 1] = todo[k]
      BY <1>2, <2>3
    <2>5. QED
      BY ZenonT(60), <1>1, <1>3, <1>4, <2>1, <2>4
  <1>7. QED
    BY <1>5, <1>6

\* A start that comes neither first nor later does not come.
LEMMA RestStart ==
    ASSUME NEW todo \in Seq(Steps), todo # <<>>, NoStart(Tail(todo)), Head(todo).op # "start"
    PROVE  NoStart(todo)
  <1> DEFINE r == Tail(todo)
  <1>1. /\ Head(todo) = todo[1]
        /\ \A j \in DOMAIN r : j \in Nat /\ j + 1 \in DOMAIN todo /\ r[j] = todo[j + 1]
        /\ \A j \in DOMAIN todo : j # 1 => j > 1 /\ j - 1 \in DOMAIN r
        /\ DOMAIN todo \in SUBSET Nat
    BY TailAt
  <1>2. \A j \in DOMAIN r : r[j].op # "start"
    BY DEF NoStart
  <1> HIDE DEF r
  <1>3. ASSUME NEW j \in DOMAIN todo PROVE todo[j].op # "start"
    <2>1. CASE j = 1
      BY <1>1, <2>1
    <2>2. CASE j # 1
      <3>1. j \in Nat /\ j - 1 \in DOMAIN r /\ r[j - 1] = todo[j - 1 + 1]
        BY <1>1, <2>2
      <3>2. r[j - 1] = todo[j]
        BY <3>1
      <3>3. QED
        BY Zenon, <1>2, <3>1, <3>2
    <2>3. QED
      BY <2>1, <2>2
  <1>4. QED
    BY Zenon, <1>3 DEF NoStart

\* An append in place of which its writes are put leaves the call in order.
LEMMA JoinTodo ==
    ASSUME NEW todo \in Seq(Steps), todo # <<>>, Head(todo).op = "append",
           NEW s, TodoOK(todo, s), NEW x \in Seq(Steps), TodoOK(x, s)
    PROVE  TodoOK(x \o Tail(todo), s)
  <1> DEFINE r == Tail(todo)
             y == x \o r
  <1>1. /\ r \in Seq(Steps) /\ Head(todo) = todo[1]
        /\ \A k \in DOMAIN r : k \in Nat \ {0} /\ k + 1 \in DOMAIN todo /\ r[k] = todo[k + 1]
    BY TailAt
  <1>2. ASSUME NEW k \in DOMAIN r
        PROVE  (r[k].op = "write" => r[k].bytes # <<>>) /\ r[k].op # "rotate"
    <2>1. /\ todo[k + 1].op = "write" => todo[k + 1].bytes # <<>>
          /\ todo[k + 1].op = "rotate" =>
                \/ k + 1 = 1 /\ EndLine(s)
                \/ k + 1 = 2 /\ todo[1].op = "write" /\ Feed(todo[1].bytes)
      BY Zenon, <1>1, <1>2 DEF TodoOK
    <2> HIDE DEF r
    <2>2. QED
      BY <1>1, <1>2, <2>1
  <1> HIDE DEF r
  <1>3. /\ \A k \in DOMAIN y : \/ k \in DOMAIN x /\ y[k] = x[k]
                               \/ k - Len(x) \in DOMAIN r /\ y[k] = r[k - Len(x)]
        /\ \A k \in DOMAIN x : y[k] = x[k] /\ k \in Nat \ {0} /\ (k = 2 => 1 \in DOMAIN x)
    BY <1>1
  <1> HIDE DEF y
  <1> SUFFICES ASSUME NEW k \in DOMAIN y
               PROVE  /\ y[k].op = "write" => y[k].bytes # <<>>
                      /\ y[k].op = "rotate" =>
                            \/ k = 1 /\ EndLine(s)
                            \/ k = 2 /\ y[1].op = "write" /\ Feed(y[1].bytes)
    BY Zenon DEF TodoOK, y, r
  <1>4. CASE k \in DOMAIN x /\ y[k] = x[k]
    <2>1. /\ x[k].op = "write" => x[k].bytes # <<>>
          /\ x[k].op = "rotate" =>
                \/ k = 1 /\ EndLine(s)
                \/ k = 2 /\ x[1].op = "write" /\ Feed(x[1].bytes)
      BY Zenon, <1>4 DEF TodoOK
    <2>2. k = 2 => y[1] = x[1]
      BY <1>3, <1>4
    <2>3. QED
      BY Zenon, <1>4, <2>1, <2>2
  <1>5. CASE k - Len(x) \in DOMAIN r /\ y[k] = r[k - Len(x)]
    BY Zenon, <1>2, <1>5
  <1>6. QED
    BY Zenon, <1>3, <1>4, <1>5

\* A run still starts on a line when an append is planned as writes and rotations.
LEMMA JoinPrep ==
    ASSUME NEW todo \in Seq(Steps), todo # <<>>, Head(todo).op = "append",
           NEW s, PrepOK(todo, s), NEW x \in Seq(Steps),
           \A k \in DOMAIN x : x[k].op \in {"write", "rotate"},
           Head(todo).bytes = EndOpenLine => Len(x) > 0 /\ EndsIt(x[Len(x)])
    PROVE  PrepOK(x \o Tail(todo), s)
  <1> DEFINE r == Tail(todo)
             y == x \o r
  <1>1. /\ r \in Seq(Steps) /\ Head(todo) = todo[1] /\ 1 \in DOMAIN todo
        /\ \A k \in DOMAIN r : k \in Nat \ {0} /\ k + 1 \in DOMAIN todo /\ r[k] = todo[k + 1]
        /\ \A k \in DOMAIN todo : k # 1 => k > 1 /\ k - 1 \in DOMAIN r
    BY TailAt
  <1> HIDE DEF r
  <1>2. (Len(x) > 0 => Len(x) \in DOMAIN x) /\ Len(x) \in Nat
    OBVIOUS
  <1>3. /\ \A k \in DOMAIN y : \/ k \in DOMAIN x /\ y[k] = x[k]
                               \/ k - Len(x) \in DOMAIN r /\ y[k] = r[k - Len(x)]
        /\ \A k \in DOMAIN x : y[k] = x[k]
        /\ \A k \in DOMAIN r : y[Len(x) + k] = r[k]
        /\ DOMAIN y \in SUBSET Nat
    <2>1. \A k \in DOMAIN y : \/ k \in DOMAIN x /\ y[k] = x[k]
                              \/ k - Len(x) \in DOMAIN r /\ y[k] = r[k - Len(x)]
      BY <1>1
    <2>2. \A k \in DOMAIN x : y[k] = x[k]
      BY <1>1
    <2>3. \A k \in DOMAIN r : y[Len(x) + k] = r[k]
      BY <1>1
    <2>4. DOMAIN y \in SUBSET Nat
      BY <1>1
    <2>5. QED
      BY Zenon, <2>1, <2>2, <2>3, <2>4
  <1> HIDE DEF y
  <1> SUFFICES ASSUME NEW k \in DOMAIN y, y[k].op = "start"
               PROVE  /\ \A j \in DOMAIN y : y[j].op # "end"
                      /\ k > 1 /\ EndsIt(y[k - 1])
    BY Zenon DEF PrepOK, y, r
  <1> DEFINE m == k - Len(x)
  <1>4. m \in DOMAIN r /\ y[k] = r[m] /\ k \in Nat
    <2>1. ~(k \in DOMAIN x /\ y[k] = x[k])
      <3>1. ASSUME k \in DOMAIN x /\ y[k] = x[k] PROVE FALSE
        <4>1. x[k].op \in {"write", "rotate"} /\ x[k].op = "start"
          BY Zenon, <3>1
        <4>2. QED
          BY <4>1
      <3>2. QED
        BY <3>1
    <2>2. k \in Nat
      BY <1>3
    <2>3. QED
      BY Zenon, <1>3, <2>1, <2>2
  <1>5. m \in Nat \ {0} /\ m + 1 \in DOMAIN todo /\ todo[m + 1].op = "start"
    <2> HIDE DEF m
    <2>1. r[m].op = "start"
      BY Zenon, <1>4
    <2>2. QED
      BY Zenon, <1>1, <1>4, <2>1
  <1>6. /\ \A j \in DOMAIN todo : todo[j].op # "end"
        /\ EndsIt(todo[m])
    <2> HIDE DEF m
    <2> DEFINE n == m + 1
    <2>1. n \in DOMAIN todo /\ todo[n].op = "start" /\ n # 1 /\ n - 1 = m
      BY <1>5
    <2> HIDE DEF n
    <2>2. /\ \A j \in DOMAIN todo : todo[j].op # "end"
          /\ n = 1 \/ EndsIt(todo[n - 1])
      BY Zenon, <2>1 DEF PrepOK
    <2>3. QED
      BY Zenon, <2>1, <2>2
  <1>8. ASSUME NEW j \in DOMAIN y PROVE y[j].op # "end"
    <2>1. CASE j \in DOMAIN x /\ y[j] = x[j]
      <3>1. y[j].op \in {"write", "rotate"}
        BY Zenon, <2>1
      <3>2. QED
        BY <3>1
    <2>2. CASE j - Len(x) \in DOMAIN r /\ y[j] = r[j - Len(x)]
      <3>1. j - Len(x) + 1 \in DOMAIN todo /\ y[j] = todo[j - Len(x) + 1]
        BY Zenon, <1>1, <2>2
      <3>2. QED
        BY Zenon, <1>6, <3>1
    <2>3. QED
      BY Zenon, <1>3, <2>1, <2>2
  <1>9. k > 1 /\ EndsIt(y[k - 1])
    <2>1. CASE m = 1
      <3>1. Head(todo).bytes = EndOpenLine
        BY <1>1, <1>6, <2>1 DEF EndsIt
      <3>2. Len(x) > 0 /\ EndsIt(x[Len(x)]) /\ Len(x) \in DOMAIN x
        BY Zenon, <1>2, <3>1
      <3>3. k - 1 = Len(x) /\ k > 1
        BY <1>2, <1>4, <2>1, <3>2
      <3>4. y[Len(x)] = x[Len(x)]
        BY Zenon, <1>3, <3>2
      <3>5. QED
        BY Zenon, <3>2, <3>3, <3>4
    <2>2. CASE m # 1
      <3>1. m \in DOMAIN todo
        BY <1>5
      <3>2. m > 1 /\ m - 1 \in DOMAIN r
        <4> HIDE DEF m
        <4>1. QED
          BY Zenon, <1>1, <2>2, <3>1
      <3>3. r[m - 1] = todo[m - 1 + 1]
        <4> HIDE DEF m
        <4>1. QED
          BY Zenon, <1>1, <3>2
      <3>4. m - 1 + 1 = m /\ Len(x) + (m - 1) = k - 1 /\ k > 1
        <4>1. k \in Nat /\ Len(x) \in Nat /\ m \in Nat /\ m > 1
          BY <1>2, <1>4, <1>5, <3>2
        <4>2. \A i, l, j \in Nat : j = i - l /\ j > 1 => j - 1 + 1 = j /\ l + (j - 1) = i - 1 /\ i > 1
          OBVIOUS
        <4>3. m = k - Len(x)
          OBVIOUS
        <4> HIDE DEF m
        <4>4. QED
          BY ZenonT(40), <4>1, <4>2, <4>3
      <3>5. y[Len(x) + (m - 1)] = r[m - 1]
        <4> HIDE DEF m
        <4>1. QED
          BY Zenon, <1>3, <3>2
      <3>6. y[k - 1] = todo[m]
        <4> HIDE DEF m
        <4>1. QED
          BY Zenon, <3>3, <3>4, <3>5
      <3>7. QED
        BY Zenon, <1>6, <3>4, <3>6
    <2>3. QED
      BY <2>1, <2>2
  <1>10. QED
    BY Zenon, <1>8, <1>9

\* What a decision leaves of a call to do, and where it says the run began.
LEMMA DecideIs ==
    ASSUME NEW c, CallType(c), NEW g, LogType(g), c.todo # <<>>
    PROVE  LET op == Head(c.todo).op
               d == Decide(c, g)
           IN  /\ op = "append" => /\ d.todo = AppendBytes(g, Head(c.todo).bytes) \o Tail(c.todo)
                                   /\ d.run = c.run
               /\ op = "end" =>
                     /\ d.run = c.run
                     /\ \/ d.todo = Tail(c.todo)
                        \/ d.todo = <<Step("write", EndOpenLine), Rotate,
                                      Step("hand", Head(c.todo).bytes \o EndOpenLine)>>
               /\ op = "start" => d.todo = Tail(c.todo) /\ d.run = End(g)
               /\ op = "hand" => d.todo = Tail(c.todo) /\ d.run = c.run
               /\ op \in {"write", "rotate"} => d = c
               /\ op \in {"append", "write", "rotate", "end", "start", "hand"}
  <1> DEFINE op == Head(c.todo).op
             x == AppendBytes(g, Head(c.todo).bytes) \o Tail(c.todo)
             e == <<Step("write", EndOpenLine), Rotate,
                    Step("hand", Head(c.todo).bytes \o EndOpenLine)>>
             n == End(g)
             h == [at |-> c.at,
                   bytes |-> SubSeq(Head(c.todo).bytes, 1,
                                    Least(Less(End(g), c.at), Len(Head(c.todo).bytes)))]
             r == Tail(c.todo)
  <1>1. c \in [todo : Seq(Steps), run : Nat, at : Nat, handed : [at : Nat, bytes : Seq(Byte)]]
    BY DEF CallType
  <1>2. op \in {"append", "write", "rotate", "end", "start", "hand"}
    <2>1. Head(c.todo) \in Steps
      BY SMTT(40), <1>1
    <2>2. QED
      BY <2>1 DEF Steps
  <1>3. /\ op = "append" => Decide(c, g) = [c EXCEPT !.todo = x]
        /\ op = "end" => Decide(c, g) = [c EXCEPT !.todo = r] \/ Decide(c, g) = [c EXCEPT !.todo = e]
        /\ op = "start" => Decide(c, g) = [c EXCEPT !.run = n, !.todo = r]
        /\ op = "hand" => Decide(c, g) = [c EXCEPT !.todo = r, !.handed = h]
        /\ op \in {"write", "rotate"} => Decide(c, g) = c
    BY Zenon DEF Decide
  <1> HIDE DEF op, x, e, n, h, r
  <1>4. /\ op = "append" => Decide(c, g).todo = x /\ Decide(c, g).run = c.run
        /\ op = "end" => Decide(c, g).run = c.run /\ (Decide(c, g).todo = r \/ Decide(c, g).todo = e)
        /\ op = "start" => Decide(c, g).todo = r /\ Decide(c, g).run = n
        /\ op = "hand" => Decide(c, g).todo = r /\ Decide(c, g).run = c.run
    BY Zenon, <1>1, <1>3
  <1>5. QED
    BY Zenon, <1>2, <1>3, <1>4 DEF op, x, e, n, r

\* A decision keeps what a call still has to do in order, and a run that it
\* begins on a line.
LEMMA DecideLines ==
    ASSUME NEW c, CallType(c), NEW g, LogType(g), NEW s \in Seq(Byte),
           g.ends /\ g.written > 0 => EndLine(s), TodoOK(c.todo, s)
    PROVE  /\ TodoOK(Decide(c, g).todo, s)
           /\ PrepOK(c.todo, s) => PrepOK(Decide(c, g).todo, s)
           /\ PrepOK(c.todo, s) /\ RunOK(c, s) /\ End(g) = Len(s) => RunOK(Decide(c, g), s)
  <1> DEFINE d == Decide(c, g)
             todo == c.todo
             r == Tail(c.todo)
             bytes == Head(c.todo).bytes
             op == Head(c.todo).op
             Good == /\ TodoOK(d.todo, s)
                     /\ PrepOK(todo, s) => PrepOK(d.todo, s)
                     /\ PrepOK(todo, s) /\ RunOK(c, s) /\ End(g) = Len(s) => RunOK(d, s)
  <1>1. CASE c.todo = <<>>
    <2>1. d = c
      BY <1>1 DEF Decide
    <2> HIDE DEF d
    <2>2. Good
      BY Zenon, <2>1
    <2>3. QED
      BY Zenon, <2>2 DEF d
  <1>2. CASE c.todo # <<>>
    <2>1. todo \in Seq(Steps) /\ Head(todo) \in Steps /\ bytes \in Seq(Byte) /\ r \in Seq(Steps)
      <3>1. todo \in Seq(Steps)
        BY DEF CallType
      <3>2. Head(todo) \in Steps /\ r \in Seq(Steps)
        BY <1>2, <3>1
      <3>3. bytes \in Seq(Byte)
        BY SMTT(40), <3>2 DEF Steps
      <3>4. QED
        BY <3>1, <3>2, <3>3
    <2>2. /\ op = "append" => d.todo = AppendBytes(g, bytes) \o r /\ d.run = c.run
          /\ op = "end" =>
                /\ d.run = c.run
                /\ \/ d.todo = r
                   \/ d.todo = <<Step("write", EndOpenLine), Rotate,
                                 Step("hand", bytes \o EndOpenLine)>>
          /\ op = "start" => d.todo = r /\ d.run = End(g)
          /\ op = "hand" => d.todo = r /\ d.run = c.run
          /\ op \in {"write", "rotate"} => d = c
          /\ op \in {"append", "write", "rotate", "end", "start", "hand"}
      BY Zenon, <1>2, DecideIs
    <2>3. TodoOK(todo, s) /\ todo # <<>>
      BY <1>2
    <2>4. op \in {"end", "start", "hand"} => TodoOK(r, s)
      BY Zenon, <2>1, <2>3, RestTodo
    <2>5. op \in {"end", "start", "hand"} /\ PrepOK(todo, s) => PrepOK(r, s)
      <3>1. op \in {"end", "start", "hand"} => ~EndsIt(Head(todo)) /\ op # "append"
        BY DEF EndsIt
      <3>2. QED
        BY Zenon, <2>1, <2>3, <3>1, RestPrep
    <2>6. NoStart(r) /\ op # "start" => NoStart(todo)
      BY Zenon, <2>1, <2>3, RestStart
    <2>7. 1 \in DOMAIN todo /\ Head(todo) = todo[1]
      BY <2>1, <2>3, TailAt
    <2> DEFINE x == AppendBytes(g, bytes)
    <2>8. /\ x \in Seq(Steps) /\ TodoOK(x, s) /\ \A k \in DOMAIN x : x[k].op \in {"write", "rotate"}
          /\ bytes = EndOpenLine => Len(x) > 0 /\ EndsIt(x[Len(x)])
      <3>1. x \in Seq(Steps)
        BY <2>1, AppendType DEF LogType
      <3>2. QED
        BY Zenon, <2>1, <3>1, AppendLines
    <2> HIDE DEF d, x
    <2>9. CASE op = "append"
      <3>1. d.todo = x \o r /\ d.run = c.run
        BY Zenon, <2>2, <2>9 DEF x
      <3>2. TodoOK(d.todo, s)
        BY ZenonT(60), <2>1, <2>3, <2>8, <2>9, <3>1, JoinTodo
      <3>3. PrepOK(todo, s) => PrepOK(d.todo, s)
        BY ZenonT(60), <2>1, <2>3, <2>8, <2>9, <3>1, JoinPrep
      <3>4. NoStart(d.todo) => NoStart(r)
        <4> DEFINE q == Tail(c.todo)
        <4>1. q \in Seq(Steps) /\ d.todo = x \o q
          BY ZenonT(60), <2>1, <3>1
        <4> HIDE DEF q
        <4>2. \A k \in DOMAIN q : Len(x) + k \in DOMAIN d.todo /\ d.todo[Len(x) + k] = q[k]
          BY <2>8, <4>1
        <4>3. NoStart(d.todo) => NoStart(q)
          BY Zenon, <4>2 DEF NoStart
        <4>4. QED
          BY Zenon, <4>3 DEF q
      <3>5. op # "start"
        BY <2>9
      <3>6. RunOK(c, s) => RunOK(d, s)
        BY Zenon, <2>6, <3>1, <3>4, <3>5 DEF RunOK
      <3>7. QED
        BY Zenon, <3>2, <3>3, <3>6 DEF d
    <2>10. CASE op = "end" /\ d.todo # r
      <3> DEFINE e == <<Step("write", EndOpenLine), Rotate, Step("hand", bytes \o EndOpenLine)>>
      <3>1. d.todo = e /\ d.run = c.run
        BY ZenonT(60), <2>2, <2>10
      <3>2. /\ DOMAIN e = {1, 2, 3} /\ e[1].op = "write" /\ e[1].bytes = EndOpenLine
            /\ e[2].op = "rotate" /\ e[3].op = "hand"
        BY DEF Step, Rotate
      <3>3. EndOpenLine # <<>> /\ Feed(EndOpenLine)
        BY Zenon DEF EndOpenLine, Feed
      <3> HIDE DEF e
      <3>4. TodoOK(e, s)
        BY Zenon, <3>2, <3>3 DEF TodoOK
      <3>5. PrepOK(e, s)
        BY <3>2 DEF PrepOK
      <3>6. PrepOK(todo, s) => NoStart(todo)
        BY Zenon, <2>7, <2>10 DEF PrepOK, NoStart
      <3>7. PrepOK(todo, s) /\ RunOK(c, s) => RunOK(d, s)
        BY Zenon, <3>1, <3>6 DEF RunOK
      <3>8. QED
        BY Zenon, <3>1, <3>4, <3>5, <3>7 DEF d
    <2>11. CASE op = "hand" \/ (op = "end" /\ d.todo = r)
      <3>1. op # "start" /\ op \in {"end", "start", "hand"}
        BY <2>11
      <3>2. d.todo = r /\ d.run = c.run
        BY Zenon, <2>2, <2>11
      <3>3. RunOK(c, s) => RunOK(d, s)
        BY Zenon, <2>6, <3>1, <3>2 DEF RunOK
      <3>4. QED
        BY ZenonT(60), <2>4, <2>5, <3>1, <3>2, <3>3 DEF d
    <2>12. CASE op = "start"
      <3>1. d.todo = r /\ d.run = End(g) /\ op \in {"end", "start", "hand"}
        BY Zenon, <2>2, <2>12
      <3>2. PrepOK(todo, s) => EndLine(s)
        <4>1. ~(1 > 1)
          OBVIOUS
        <4>2. todo[1].op = "start"
          BY Zenon, <2>7, <2>12
        <4>3. QED
          BY ZenonT(60), <2>7, <4>1, <4>2 DEF PrepOK
      <3>3. PrepOK(todo, s) /\ End(g) = Len(s) => RunOK(d, s)
        BY Zenon, <3>1, <3>2 DEF RunOK, EndLine
      <3>4. QED
        BY Zenon, <2>4, <2>5, <3>1, <3>3 DEF d
    <2>13. CASE op \in {"write", "rotate"}
      <3>1. d = c
        BY Zenon, <2>2, <2>13
      <3>2. Good
        BY ZenonT(60), <3>1
      <3>3. QED
        BY Zenon, <3>2 DEF d
    <2>14. op \in {"append", "start", "hand", "end"} \/ op \in {"write", "rotate"}
      BY <2>2
    <2> HIDE DEF op
    <2>15. QED
      BY Zenon, <2>9, <2>10, <2>11, <2>12, <2>13, <2>14
  <1>3. QED
    BY Zenon, <1>1, <1>2

\* So do as many as a call can take in a row.
LEMMA ReadyLines ==
    ASSUME NEW c, CallType(c), NEW g, LogType(g), NEW s \in Seq(Byte),
           g.ends /\ g.written > 0 => EndLine(s), TodoOK(c.todo, s)
    PROVE  /\ TodoOK(Ready(c, g).todo, s)
           /\ PrepOK(c.todo, s) => PrepOK(Ready(c, g).todo, s)
           /\ PrepOK(c.todo, s) /\ RunOK(c, s) /\ End(g) = Len(s) => RunOK(Ready(c, g), s)
  <1> DEFINE d == Decide(c, g)
             e == Decide(d, g)
             f == Decide(e, g)
  <1>1. CallType(d) /\ CallType(e)
    BY Zenon, DecideType
  <1>2. /\ TodoOK(d.todo, s)
        /\ PrepOK(c.todo, s) => PrepOK(d.todo, s)
        /\ PrepOK(c.todo, s) /\ RunOK(c, s) /\ End(g) = Len(s) => RunOK(d, s)
    BY Zenon, DecideLines
  <1> HIDE DEF d
  <1>3. /\ TodoOK(e.todo, s)
        /\ PrepOK(d.todo, s) => PrepOK(e.todo, s)
        /\ PrepOK(d.todo, s) /\ RunOK(d, s) /\ End(g) = Len(s) => RunOK(e, s)
    BY Zenon, <1>1, <1>2, DecideLines
  <1> HIDE DEF e
  <1>4. /\ TodoOK(f.todo, s)
        /\ PrepOK(e.todo, s) => PrepOK(f.todo, s)
        /\ PrepOK(e.todo, s) /\ RunOK(e, s) /\ End(g) = Len(s) => RunOK(f, s)
    BY Zenon, <1>1, <1>3, DecideLines
  <1>5. Ready(c, g) = f
    BY Zenon DEF Ready, d, e
  <1> HIDE DEF f
  <1>6. QED
    BY Zenon, <1>2, <1>3, <1>4, <1>5

\* A step done leaves the rest of its call in order.
LEMMA DoneLines ==
    ASSUME NEW c, CallType(c), c.todo # <<>>, NEW g, LogType(g), NEW s \in Seq(Byte),
           NEW t \in Seq(Byte), g.ends /\ g.written > 0 => EndLine(t), TodoOK(c.todo, s),
           Head(c.todo).op \in {"write", "rotate"},
           Head(c.todo).op = "rotate" => EndLine(t),
           Feed(Head(c.todo).bytes) => EndLine(t)
    PROVE  /\ TodoOK(Done(c, g).todo, t)
           /\ PrepOK(c.todo, s) => PrepOK(Done(c, g).todo, t)
           /\ PrepOK(c.todo, s) /\ RunOK(c, t) /\ End(g) = Len(t) => RunOK(Done(c, g), t)
  <1> DEFINE d == [c EXCEPT !.todo = Tail(@)]
             r == Tail(c.todo)
  <1>1. r \in Seq(Steps) /\ c.todo \in Seq(Steps)
    BY DEF CallType
  <1>2. CallType(d) /\ d.todo = r /\ d.run = c.run
    <2> HIDE DEF r
    <2>1. d = [c EXCEPT !.todo = r]
      BY DEF r
    <2> HIDE DEF d
    <2>2. QED
      BY Zenon, <1>1, <2>1 DEF CallType
  <1>3. TodoOK(r, t)
    BY Zenon, <1>1, RestTodo
  <1>4. EndsIt(Head(c.todo)) => EndLine(t)
    <2>1. Feed(EndOpenLine)
      BY DEF Feed, EndOpenLine
    <2>2. QED
      BY Zenon, <2>1 DEF EndsIt
  <1>5. PrepOK(c.todo, s) => PrepOK(r, t)
    <2>1. Head(c.todo).op # "append"
      OBVIOUS
    <2>2. QED
      BY Zenon, <1>1, <1>4, <2>1, RestPrep
  <1>6. NoStart(r) => NoStart(c.todo)
    <2>1. Head(c.todo).op # "start"
      OBVIOUS
    <2>2. QED
      BY Zenon, <1>1, <2>1, RestStart
  <1>7. Done(c, g) = Ready(d, g)
    BY DEF Done
  <1> HIDE DEF d, r
  <1>8. /\ TodoOK(Ready(d, g).todo, t)
        /\ PrepOK(d.todo, t) => PrepOK(Ready(d, g).todo, t)
        /\ PrepOK(d.todo, t) /\ RunOK(d, t) /\ End(g) = Len(t) => RunOK(Ready(d, g), t)
    BY Zenon, <1>2, <1>3, ReadyLines
  <1>9. RunOK(c, t) => RunOK(d, t)
    BY Zenon, <1>2, <1>6 DEF RunOK
  <1>10. QED
    BY Zenon, <1>2, <1>5, <1>7, <1>8, <1>9

\* The steps from one on.
LEMMA PartAt ==
    ASSUME NEW todo \in Seq(Steps), NEW m \in 1..Len(todo)
    PROVE  LET z == SubSeq(todo, m, Len(todo))
           IN  /\ z \in Seq(Steps)
               /\ \A k \in DOMAIN z :
                     /\ k \in Nat \ {0} /\ k + m - 1 \in DOMAIN todo /\ z[k] = todo[k + m - 1]
                     /\ k # 1 => /\ k > 1 /\ k - 1 \in DOMAIN z
                                /\ (k - 1) + m - 1 = (k + m - 1) - 1
               /\ \A j \in DOMAIN todo :
                     m <= j => j - m + 1 \in DOMAIN z /\ (j - m + 1) + m - 1 = j
  <1> DEFINE n == Len(todo)
             z == SubSeq(todo, m, n)
  <1>1. n \in Nat /\ m \in Nat /\ 1 <= m /\ m <= n /\ DOMAIN todo = 1..n
    OBVIOUS
  <1>2. z \in Seq(Steps) /\ Len(z) = n - m + 1
    BY <1>1
  <1>3. DOMAIN z = 1..(n - m + 1)
    BY <1>2
  <1>4. \A k \in 1..(n - m + 1) : z[k] = todo[k + m - 1]
    BY <1>1
  <1> HIDE DEF z, n
  <1>5. \A k \in 1..(n - m + 1) :
          /\ k \in Nat \ {0} /\ k + m - 1 \in 1..n
          /\ k # 1 => k > 1 /\ k - 1 \in 1..(n - m + 1) /\ (k - 1) + m - 1 = (k + m - 1) - 1
    BY <1>1
  <1>6. \A j \in 1..n : m <= j => j - m + 1 \in 1..(n - m + 1) /\ (j - m + 1) + m - 1 = j
    BY <1>1
  <1>7. QED
    BY Zenon, <1>1, <1>2, <1>3, <1>4, <1>5, <1>6 DEF z, n

\* So does one that failed, with the log at the end of a line.
LEMMA FailedLines ==
    ASSUME NEW c, CallType(c), NEW g, LogType(g), NEW s \in Seq(Byte),
           NEW t \in Seq(Byte), g.ends /\ g.written > 0 => EndLine(t), TodoOK(c.todo, s)
    PROVE  /\ TodoOK(Failed(c, g).todo, t)
           /\ PrepOK(c.todo, s) /\ EndLine(t) => PrepOK(Failed(c, g).todo, t)
           /\ PrepOK(c.todo, s) /\ EndLine(t) /\ RunOK(c, t) /\ End(g) = Len(t) =>
                 RunOK(Failed(c, g), t)
  <1> DEFINE on == {i \in DOMAIN c.todo : c.todo[i].op \in {"start", "hand"}}
             n == Len(c.todo)
  <1>0. c.todo \in Seq(Steps) /\ n \in Nat /\ DOMAIN c.todo = 1..n
    BY DEF CallType
  <1>1. CASE on = {}
    <2>1. Failed(c, g) = [c EXCEPT !.todo = <<>>]
      BY <1>1 DEF Failed
    <2>2. Failed(c, g).todo = <<>> /\ Failed(c, g).run = c.run
      BY Zenon, <2>1 DEF CallType
    <2>3. NoStart(c.todo)
      BY Zenon, <1>1 DEF NoStart
    <2>4. TodoOK(<<>>, t) /\ PrepOK(<<>>, t)
      BY DEF TodoOK, PrepOK
    <2> HIDE DEF on
    <2>5. QED
      BY Zenon, <2>2, <2>3, <2>4 DEF RunOK
  <1>2. CASE on # {}
    <2> DEFINE m == First(on)
               z == SubSeq(c.todo, m, n)
               d == [c EXCEPT !.todo = SubSeq(@, m, Len(@))]
    <2>1. m \in on /\ \A y \in on : m <= y
      <3>1. on \in SUBSET Nat
        BY Zenon, <1>0, Positions
      <3> HIDE DEF on
      <3>2. QED
        BY Zenon, <1>2, <3>1, FirstIsIn
    <2>2. m \in 1..n /\ c.todo[m].op \in {"start", "hand"}
      BY Zenon, <1>0, <2>1
    <2>3. \A k \in 1..n : c.todo[k].op = "start" => m <= k
      BY Zenon, <1>0, <2>1
    <2>4. Failed(c, g) = Ready(d, g)
      BY <1>2 DEF Failed
    <2>5. d = [c EXCEPT !.todo = z]
      OBVIOUS
    <2> HIDE DEF on, m, d
    <2>6. /\ z \in Seq(Steps)
          /\ \A k \in DOMAIN z :
                /\ k \in Nat \ {0} /\ k + m - 1 \in DOMAIN c.todo /\ z[k] = c.todo[k + m - 1]
                /\ k # 1 => k > 1 /\ k - 1 \in DOMAIN z /\ (k - 1) + m - 1 = (k + m - 1) - 1
          /\ \A j \in DOMAIN c.todo :
                m <= j => j - m + 1 \in DOMAIN z /\ (j - m + 1) + m - 1 = j
      BY ZenonT(60), <1>0, <2>2, PartAt
    <2> HIDE DEF z
    <2>7. CallType(d) /\ d.todo = z /\ d.run = c.run
      BY Zenon, <2>5, <2>6 DEF CallType
    <2> HIDE DEF n
    <2>8. TodoOK(z, t)
      <3> SUFFICES ASSUME NEW k \in DOMAIN z
                   PROVE  (z[k].op = "write" => z[k].bytes # <<>>) /\ z[k].op # "rotate"
        BY Zenon DEF TodoOK
      <3> DEFINE j == k + m - 1
      <3>1. j \in DOMAIN c.todo /\ z[k] = c.todo[j] /\ k \in Nat \ {0}
        BY Zenon, <2>6
      <3>2. k = 1 => j = m
        BY <2>2
      <3>3. k # 1 => j > m /\ j # 1 /\ (j = 2 => m = 1)
        <4>1. \A a \in Nat \ {0}, b \in Nat \ {0} : a # 1 =>
                 a + b - 1 > b /\ a + b - 1 # 1 /\ (a + b - 1 = 2 => b = 1)
          OBVIOUS
        <4>2. m \in Nat \ {0}
          BY <1>0, <2>2
        <4>3. QED
          BY ZenonT(60), <3>1, <4>1, <4>2
      <3> HIDE DEF j
      <3>4. /\ c.todo[j].op = "write" => c.todo[j].bytes # <<>>
            /\ c.todo[j].op = "rotate" => \/ j = 1
                                          \/ j = 2 /\ c.todo[1].op = "write"
        BY Zenon, <3>1 DEF TodoOK
      <3>5. c.todo[m].op # "rotate" /\ c.todo[m].op # "write"
        BY <2>2
      <3>6. c.todo[j].op # "rotate"
        BY ZenonT(60), <3>2, <3>3, <3>4, <3>5
      <3>7. QED
        BY Zenon, <3>1, <3>4, <3>6
    <2>9. PrepOK(c.todo, s) /\ EndLine(t) => PrepOK(z, t)
      <3> SUFFICES ASSUME PrepOK(c.todo, s), EndLine(t), NEW k \in DOMAIN z, z[k].op = "start"
                   PROVE  /\ \A i \in DOMAIN z : z[i].op # "end"
                          /\ \/ k = 1 /\ EndLine(t)
                             \/ k > 1 /\ EndsIt(z[k - 1])
        BY Zenon DEF PrepOK
      <3> DEFINE j == k + m - 1
      <3>1. /\ j \in DOMAIN c.todo /\ z[k] = c.todo[j]
            /\ k # 1 => k > 1 /\ k - 1 \in DOMAIN z /\ (k - 1) + m - 1 = j - 1
        BY Zenon, <2>6
      <3>2. k # 1 => j # 1
        <4>1. \A a \in Nat \ {0}, b \in Nat \ {0} : a # 1 => a + b - 1 # 1
          BY SMTT(40)
        <4>2. m \in Nat \ {0} /\ k \in Nat \ {0}
          BY <1>0, <2>2, <2>6
        <4>3. QED
          BY Zenon, <4>1, <4>2
      <3> HIDE DEF j
      <3>3. /\ \A i \in DOMAIN c.todo : c.todo[i].op # "end"
            /\ j = 1 \/ EndsIt(c.todo[j - 1])
        BY Zenon, <3>1 DEF PrepOK
      <3>4. \A i \in DOMAIN z : z[i].op # "end"
        BY Zenon, <2>6, <3>3
      <3>5. CASE k = 1
        BY Zenon, <3>4, <3>5
      <3>6. CASE k # 1
        <4>1. z[k - 1] = c.todo[(k - 1) + m - 1]
          BY Zenon, <2>6, <3>1, <3>6
        <4>2. z[k - 1] = c.todo[j - 1]
          BY Zenon, <3>1, <3>6, <4>1
        <4>3. QED
          BY ZenonT(60), <3>1, <3>2, <3>3, <3>4, <3>6, <4>2
      <3>7. QED
        BY <3>5, <3>6
    <2>10. NoStart(z) => NoStart(c.todo)
      <3> SUFFICES ASSUME NoStart(z), NEW k \in DOMAIN c.todo, c.todo[k].op = "start" PROVE FALSE
        BY Zenon DEF NoStart
      <3>1. m <= k
        BY Zenon, <1>0, <2>3
      <3>2. k - m + 1 \in DOMAIN z /\ (k - m + 1) + m - 1 = k
        BY Zenon, <2>6, <3>1
      <3>3. z[k - m + 1] = c.todo[(k - m + 1) + m - 1]
        BY Zenon, <2>6, <3>2
      <3>4. z[k - m + 1] = c.todo[k]
        BY Zenon, <3>2, <3>3
      <3>5. QED
        BY Zenon, <3>2, <3>4 DEF NoStart
    <2>11. /\ TodoOK(Ready(d, g).todo, t)
           /\ PrepOK(d.todo, t) => PrepOK(Ready(d, g).todo, t)
           /\ PrepOK(d.todo, t) /\ RunOK(d, t) /\ End(g) = Len(t) => RunOK(Ready(d, g), t)
      BY Zenon, <2>7, <2>8, ReadyLines
    <2>12. RunOK(c, t) => RunOK(d, t)
      BY Zenon, <2>7, <2>10 DEF RunOK
    <2>13. QED
      BY Zenon, <2>4, <2>7, <2>9, <2>11, <2>12
  <1>3. QED
    BY Zenon, <1>1, <1>2

\* The files that had a name start on lines in a longer stream too.
LEMMA RunGrows ==
    ASSUME NEW c, NEW s \in Seq(Byte), NEW t \in Seq(Byte), RunOK(c, s)
    PROVE  RunOK(c, s \o t)
  BY Zenon, LineGrows DEF RunOK

-----------------------------------------------------------------------------
(* The steps of the holder keep the lines. *)

\* Nothing that counts is ever counted back.
LEMMA UsedGrows ==
    ASSUME IInv, used' = used \/ \E k \in Resource : Spend(k)
    PROVE  /\ Unfailed' => Unfailed
           /\ Placed' => Placed
           /\ Halfway => Halfway'
           /\ Spend("faults") => ~Unfailed'
           /\ used["kills"] \in Nat /\ used["faults"] \in Nat
  <1>1. /\ used["faults"] \in Nat /\ used["kills"] \in Nat /\ used["records"] \in Nat
        /\ DOMAIN used = Resource
    BY DEF IInv, TypeI, Resource
  <1>2. CASE used' = used
    <2>1. Spend("faults") => FALSE
      BY <1>1, <1>2 DEF Spend, Resource
    <2>2. QED
      BY Zenon, <1>1, <1>2, <2>1 DEF Unfailed, Placed, Halfway
  <1>3. CASE \E k \in Resource : Spend(k)
    <2>1. PICK k \in Resource : Spend(k)
      BY <1>3
    <2>2. /\ used'["faults"] = used["faults"] + (IF k = "faults" THEN 1 ELSE 0)
          /\ used'["kills"] = used["kills"] + (IF k = "kills" THEN 1 ELSE 0)
          /\ used'["records"] = used["records"] + (IF k = "records" THEN 1 ELSE 0)
      BY SMTT(40), <1>1, <2>1 DEF Spend, Resource
    <2>3. Spend("faults") => used'["faults"] = used["faults"] + 1
      BY SMTT(40), <1>1 DEF Spend, Resource
    <2>4. QED
      BY <1>1, <2>2, <2>3 DEF Unfailed, Placed, Halfway
  <1>4. QED
    BY <1>2, <1>3

\* The inductive invariant has the positions continue.
LEMMA NextPositions == IInv' => PositionsContinue'
  BY IInvPositions, PTL

\* A rotation is made at the end of a line.
LEMMA RotatingLine == IInv /\ LinesOK /\ At("rotate") => EndLine(disk.stream)
  <1> SUFFICES ASSUME IInv, LinesOK, At("rotate") PROVE EndLine(disk.stream)
    OBVIOUS
  <1>1. call.todo \in Seq(Steps) /\ call.todo # <<>> /\ Head(call.todo).op = "rotate"
    BY DEF IInv, TypeI, CallType, At
  <1>2. 1 \in DOMAIN call.todo /\ call.todo[1].op = "rotate"
    BY <1>1
  <1>3. 1 # 2
    OBVIOUS
  <1>4. QED
    BY Zenon, <1>2, <1>3 DEF LinesOK, CallOK, TodoOK

\* The call goes on from a step done, ...
LEMMA CallDone ==
    ASSUME IInv, IInv', LinesOK, EndsOK', log'.up, At("write") \/ At("rotate"),
           call' = Done(call, log'), NEW bytes \in Seq(Byte),
           disk'.stream = disk.stream \o bytes, Unfailed' => Unfailed, Placed' => Placed,
           At("rotate") => EndLine(disk'.stream),
           Feed(Head(call.todo).bytes) => EndLine(disk'.stream)
    PROVE  CallOK'
  <1> DEFINE s == disk.stream
             t == disk'.stream
  <1>1. s \in Seq(Byte) /\ t \in Seq(Byte) /\ CallType(call) /\ LogType(log')
    BY DEF IInv, TypeI
  <1>2. TodoOK(call.todo, s) /\ (Unfailed => PrepOK(call.todo, s)) /\ (Placed => RunOK(call, s))
    BY Zenon DEF LinesOK, CallOK
  <1>3. RunOK(call, s) => RunOK(call, t)
    BY Zenon, <1>1, RunGrows
  <1>4. log'.ends /\ log'.written > 0 => EndLine(t)
    BY Zenon DEF EndsOK
  <1>5. Placed' => Unfailed' /\ End(log') = Len(t)
    BY Zenon, NextPositions DEF Placed, Unfailed, PositionsContinue
  <1>6. /\ call.todo # <<>> /\ Head(call.todo).op \in {"write", "rotate"}
        /\ Head(call.todo).op = "rotate" => EndLine(t)
    BY DEF At
  <1> HIDE DEF s, t
  <1>7. Feed(Head(call.todo).bytes) => EndLine(t)
    BY Zenon DEF t
  <1>8. /\ TodoOK(call'.todo, t)
        /\ PrepOK(call.todo, s) => PrepOK(call'.todo, t)
        /\ PrepOK(call.todo, s) /\ RunOK(call, t) /\ End(log') = Len(t) => RunOK(call', t)
    BY ZenonT(60), <1>1, <1>2, <1>4, <1>6, <1>7, DoneLines
  <1>9. QED
    BY ZenonT(60), <1>2, <1>3, <1>5, <1>8 DEF CallOK, t

\* ... and from one that failed.
LEMMA CallFailed ==
    ASSUME IInv, IInv', LinesOK, EndsOK', log'.up,
           call' = Failed(call, log'), NEW bytes \in Seq(Byte),
           disk'.stream = disk.stream \o bytes, Unfailed' => Unfailed, Placed' => Placed,
           Unfailed' => EndLine(disk'.stream)
    PROVE  CallOK'
  <1> DEFINE s == disk.stream
             t == disk'.stream
  <1>1. s \in Seq(Byte) /\ t \in Seq(Byte) /\ CallType(call) /\ LogType(log')
    BY DEF IInv, TypeI
  <1>2. TodoOK(call.todo, s) /\ (Unfailed => PrepOK(call.todo, s)) /\ (Placed => RunOK(call, s))
    BY Zenon DEF LinesOK, CallOK
  <1>3. RunOK(call, s) => RunOK(call, t)
    BY Zenon, <1>1, RunGrows
  <1>4. log'.ends /\ log'.written > 0 => EndLine(t)
    BY Zenon DEF EndsOK
  <1>5. Placed' => Unfailed' /\ End(log') = Len(t)
    BY Zenon, NextPositions DEF Placed, Unfailed, PositionsContinue
  <1> HIDE DEF s, t
  <1>6. Unfailed' => EndLine(t)
    BY Zenon DEF t
  <1>7. /\ TodoOK(call'.todo, t)
        /\ PrepOK(call.todo, s) /\ EndLine(t) => PrepOK(call'.todo, t)
        /\ PrepOK(call.todo, s) /\ EndLine(t) /\ RunOK(call, t) /\ End(log') = Len(t) =>
              RunOK(call', t)
    BY ZenonT(60), <1>1, <1>2, <1>4, FailedLines
  <1>8. QED
    BY ZenonT(60), <1>2, <1>3, <1>5, <1>6, <1>7 DEF CallOK, t

\* The stream with nothing more is itself.
LEMMA NothingMore ==
    ASSUME IInv, disk'.stream = disk.stream
    PROVE  <<>> \in Seq(Byte) /\ disk'.stream = disk.stream \o <<>>
  BY DEF IInv, TypeI

\* What is written ends no file that had a name, and leaves none without.
LEMMA WrittenLines ==
    ASSUME IInv, LinesOK, At("write"), NEW bytes \in Seq(Byte),
           disk' = Written(disk, log.fd, bytes), Unfailed' => Unfailed, Halfway => Halfway'
    PROVE  /\ disk'.stream = disk.stream \o bytes
           /\ disk'.live = disk.live /\ disk'.rotated = disk.rotated
           /\ GapOK' /\ StartsOK'
  <1>1. log.stage = "idle" /\ log.up /\ log.fd \in Inode
    BY WritingIsIdle DEF IInv, TypeI, LogType, WriterOK, File
  <1>2. /\ disk'.stream = disk.stream \o bytes /\ disk.stream \in Seq(Byte)
        /\ disk'.live = disk.live /\ disk'.rotated = disk.rotated
        /\ disk'.file = [disk.file EXCEPT ![log.fd].len = @ + Len(bytes)]
    BY DEF Written, IInv, TypeI
  <1>3. \A i \in Inode : disk'.file[i].from = disk.file[i].from
    BY <1>1, <1>2 DEF IInv, TypeI
  <1>4. GapOK'
    BY <1>1, <1>2 DEF LinesOK, GapOK
  <1>5. {disk.live, disk.rotated} \ {None} \subseteq Inode
    BY DEF IInv, TypeI, File
  <1>6. ~Halfway' => \A i \in {disk.live, disk.rotated} \ {None} :
                       OnLine(disk.stream, disk.file[i].from)
    BY Zenon DEF LinesOK, StartsOK
  <1>7. StartsOK'
    <2> SUFFICES ASSUME ~Halfway', NEW i \in {disk'.live, disk'.rotated} \ {None}
                 PROVE  OnLine(disk'.stream, disk'.file[i].from)
      BY Zenon DEF StartsOK
    <2>1. i \in {disk.live, disk.rotated} \ {None}
      BY <1>2
    <2>2. i \in Inode /\ OnLine(disk.stream, disk.file[i].from)
      BY ZenonT(60), <1>5, <1>6, <2>1
    <2>3. OnLine(disk.stream \o bytes, disk.file[i].from)
      BY <1>2, <2>2, LineGrows
    <2>4. QED
      BY Zenon, <1>2, <1>3, <2>2, <2>3
  <1>8. QED
    BY ZenonT(60), <1>2, <1>4, <1>7

\* A write says whether it ended a line (RotatingLog::write).
LEMMA WriteLines == IInv /\ IInv' /\ LinesOK /\ Write => LinesOK'
  <1> SUFFICES ASSUME IInv, IInv', LinesOK, Write PROVE LinesOK'
    OBVIOUS
  <1> DEFINE bytes == Head(call.todo).bytes
  <1>1. At("write") /\ call.todo # <<>> /\ used' = used /\ call' = Done(call, log')
    BY ZenonT(60) DEF Write, At
  <1>2. bytes \in Seq(Byte) /\ CallType(call) /\ LogType(log)
    BY <1>1, HeadType DEF IInv, TypeI
  <1>3. disk' = Written(disk, log.fd, bytes)
    BY DEF Write
  <1>4. log'.up /\ log'.ends = (bytes[Len(bytes)] = "feed")
    <2>1. log.up
      BY <1>1, WritingIsIdle
    <2>2. log' = [log EXCEPT !.written = @ + Len(bytes), !.ends = bytes[Len(bytes)] = "feed"]
      BY DEF Write
    <2> HIDE DEF bytes
    <2>3. QED
      BY <1>2, <2>1, <2>2 DEF LogType
  <1>5. bytes # <<>>
    <2>1. 1 \in DOMAIN call.todo /\ Head(call.todo) = call.todo[1] /\ call.todo[1].op = "write"
      BY <1>1, <1>2 DEF CallType, At
    <2>2. call.todo[1].bytes # <<>>
      BY Zenon, <2>1 DEF LinesOK, CallOK, TodoOK
    <2>3. QED
      BY Zenon, <2>1, <2>2
  <1>6. (Unfailed' => Unfailed) /\ (Placed' => Placed) /\ (Halfway => Halfway')
    BY Zenon, <1>1, UsedGrows
  <1>7. ~At("rotate")
    BY <1>1 DEF At
  <1> HIDE DEF bytes
  <1>8. disk'.stream = disk.stream \o bytes /\ GapOK' /\ StartsOK'
    BY Zenon, <1>1, <1>2, <1>3, <1>6, WrittenLines
  <1>9. Feed(bytes) => EndLine(disk'.stream)
    <2>1. disk.stream \in Seq(Byte)
      BY DEF IInv, TypeI
    <2>2. QED
      BY ZenonT(60), <1>2, <1>8, <2>1, LineWritten
  <1>10. EndsOK'
    BY Zenon, <1>4, <1>5, <1>9 DEF EndsOK, Feed
  <1>11. CallOK'
    <2>1. Feed(Head(call.todo).bytes) => EndLine(disk'.stream)
      BY Zenon, <1>9 DEF bytes
    <2>2. QED
      BY ZenonT(60), <1>1, <1>2, <1>4, <1>6, <1>7, <1>8, <1>10, <2>1, CallDone
  <1>12. QED
    BY Zenon, <1>8, <1>10, <1>11 DEF LinesOK

\* After one that failed the log looks whether its file ends a line (resync).
LEMMA FailWriteLines == IInv /\ IInv' /\ LinesOK /\ FailWrite => LinesOK'
  <1> SUFFICES ASSUME IInv, IInv', LinesOK, FailWrite PROVE LinesOK'
    BY SMTT(40)
  <1> DEFINE all == Head(call.todo).bytes
  <1>1. At("write") /\ call.todo # <<>> /\ Spend("faults") /\ call' = Failed(call, log')
    BY Zenon DEF FailWrite, At
  <1>2. all \in Seq(Byte) /\ CallType(call) /\ LogType(log) /\ Len(all) \in Nat
    <2>1. all \in Seq(Byte) /\ CallType(call) /\ LogType(log)
      BY Zenon, <1>1, HeadType DEF IInv, TypeI
    <2> HIDE DEF all
    <2>2. Len(all) \in Nat
      BY <2>1
    <2>3. QED
      BY Zenon, <2>1, <2>2
  <1> HIDE DEF all
  <1>3. PICK k \in 0..(Len(all) - 1) :
          /\ disk' = Written(disk, log.fd, SubSeq(all, 1, k))
          /\ log' = [log EXCEPT !.written = disk'.file[log.fd].len,
                                !.ends = EndsLine(disk', disk'.file[log.fd].len)]
    BY ZenonT(40) DEF FailWrite, all
  <1> DEFINE bytes == SubSeq(all, 1, k)
             len == disk'.file[log.fd].len
             ends == EndsLine(disk', len)
  <1>4. bytes \in Seq(Byte)
    <2>1. k \in 0..Len(all) /\ 1 \in 1..(Len(all) + 1)
      BY <1>2
    <2>2. QED
      BY <1>2, <2>1, PartType
  <1>5. disk' = Written(disk, log.fd, bytes)
    BY <1>3
  <1>6. log' = [log EXCEPT !.written = len, !.ends = ends]
    BY <1>3
  <1> HIDE DEF bytes, len, ends
  <1>7. log.up /\ log'.up /\ log'.written = len /\ log'.ends = ends /\ log'.fd = log.fd
    <2>1. log.up
      BY <1>1, WritingIsIdle
    <2>2. QED
      BY Zenon, <1>2, <1>6, <2>1 DEF LogType
  <1>8. (Unfailed' => Unfailed) /\ (Placed' => Placed) /\ (Halfway => Halfway') /\ ~Unfailed'
    <2>1. "faults" \in Resource
      BY DEF Resource
    <2>2. QED
      BY Zenon, <1>1, <2>1, UsedGrows
  <1>9. disk'.stream = disk.stream \o bytes /\ GapOK' /\ StartsOK'
    BY ZenonT(60), <1>1, <1>4, <1>5, <1>8, WrittenLines
  <1>10. EndsOK'
    <2> SUFFICES ASSUME ends, len > 0 PROVE EndLine(disk'.stream)
      BY Zenon, <1>7 DEF EndsOK
    <2>1. disk'.live # None /\ disk'.stream[disk'.file[disk'.live].from + len] = "feed"
      BY Zenon, ZeroIsLeast DEF ends, EndsLine
    <2>2. log.fd = disk'.live
      BY Zenon, <1>7, <2>1 DEF IInv, WriterOK
    <2>3. EndOf(disk.live)' = Len(disk'.stream)
      BY Zenon, <2>1 DEF IInv, FilesOK
    <2>4. disk'.file[disk'.live].from + len = Len(disk'.stream)
      BY Zenon, <2>2, <2>3 DEF EndOf, len
    <2>5. Len(disk'.stream) \in Nat
      BY DEF IInv, TypeI
    <2>6. disk'.stream[Len(disk'.stream)] = "feed"
      BY Zenon, <2>1, <2>4
    <2>7. QED
      BY <2>5, <2>6 DEF EndLine, OnLine
  <1>11. CallOK'
    BY ZenonT(60), <1>1, <1>4, <1>7, <1>8, <1>9, <1>10, CallFailed
  <1>12. QED
    BY <1>9, <1>10, <1>11 DEF LinesOK

\* The live name is given up at the end of a line (rotate).
LEMMA RenameLines == IInv /\ IInv' /\ LinesOK /\ Rename => LinesOK'
  <1> SUFFICES ASSUME IInv, IInv', LinesOK, Rename PROVE LinesOK'
    OBVIOUS
  <1>1. At("rotate") /\ disk.live # None
    BY DEF Rename, Rotating
  <1>2. /\ disk'.stream = disk.stream /\ disk'.file = disk.file
        /\ disk'.rotated = disk.live /\ disk'.live = None
        /\ log'.up = log.up /\ log'.ends = log.ends /\ log'.written = log.written
        /\ log'.stage = "renamed" /\ call' = call /\ used' = used
    BY DEF Rename, IInv, TypeI, LogType
  <1>3. EndLine(disk.stream)
    BY Zenon, <1>1, RotatingLine
  <1>4. EndsOK' /\ GapOK'
    BY ZenonT(60), <1>2, <1>3 DEF EndsOK, GapOK
  <1>5. StartsOK'
    BY <1>2 DEF LinesOK, StartsOK, Halfway
  <1>6. CallOK'
    BY Zenon, <1>2 DEF LinesOK, CallOK, Unfailed, Placed
  <1>7. QED
    BY <1>4, <1>5, <1>6 DEF LinesOK

\* So the file created starts one (rotate).
LEMMA CreateLines == IInv /\ IInv' /\ LinesOK /\ Create => LinesOK'
  <1> SUFFICES ASSUME IInv, IInv', LinesOK, Create PROVE LinesOK'
    OBVIOUS
  <1>1. At("rotate") /\ call' = call /\ used' = used
    BY DEF Create, Rotating
  <1>2. PICK i \in Inode : /\ i # disk.rotated
                           /\ disk' = Created(disk, i)
                           /\ log' = [log EXCEPT !.fd = i, !.base = End(log), !.written = 0,
                                                 !.ends = TRUE, !.stage = "created"]
    BY Zenon DEF Create, Free
  <1>3. /\ disk'.stream = disk.stream /\ disk'.live = i /\ i # None /\ log'.written = 0
        /\ disk'.rotated = disk.rotated /\ disk'.file[i].from = Len(disk.stream)
        /\ \A j \in Inode : j # i => disk'.file[j] = disk.file[j]
    BY <1>2, LogFilesAssumption DEF Created, IInv, TypeI, LogType
  <1>4. EndLine(disk.stream)
    BY Zenon, <1>1, RotatingLine
  <1>5. EndsOK' /\ GapOK'
    BY <1>3 DEF EndsOK, GapOK
  <1>6. StartsOK'
    <2>1. disk.rotated # None => disk.rotated \in Inode
      BY DEF IInv, TypeI, File
    <2>2. QED
      BY SMTT(40), <1>1, <1>2, <1>3, <1>4, <2>1 DEF LinesOK, StartsOK, Halfway, EndLine
  <1>7. CallOK'
    BY Zenon, <1>1, <1>3 DEF LinesOK, CallOK, Unfailed, Placed
  <1>8. QED
    BY <1>5, <1>6, <1>7 DEF LinesOK

\* A rotation that stops has failed before, or fails here (rotate).
LEMMA FailRotationLines == IInv /\ IInv' /\ LinesOK /\ FailRotation => LinesOK'
  <1> SUFFICES ASSUME IInv, IInv', LinesOK, FailRotation PROVE LinesOK'
    OBVIOUS
  <1>1. /\ At("rotate") /\ disk' = disk /\ log' = [log EXCEPT !.stage = "idle"]
        /\ call' = Failed(call, log') /\ (used' = used \/ Spend("faults"))
        /\ Spend("faults") \/ (log.stage = "idle" /\ disk.live = None)
    BY DEF FailRotation, Rotating
  <1>2. log'.up /\ log.up /\ log'.ends = log.ends /\ log'.written = log.written
    BY <1>1 DEF IInv, TypeI, LogType, WriterOK, At
  <1>3. (Unfailed' => Unfailed) /\ (Placed' => Placed) /\ (Halfway => Halfway')
          /\ (Spend("faults") => ~Unfailed')
    <2>1. "faults" \in Resource
      BY DEF Resource
    <2>2. QED
      BY Zenon, <1>1, <2>1, UsedGrows
  <1>4. ~Unfailed'
    <2>1. CASE Spend("faults")
      BY Zenon, <1>3, <2>1
    <2>2. CASE log.stage = "idle" /\ disk.live = None
      <3>1. log.stage # "renamed"
        BY <2>2
      <3>2. ~Unfailed
        BY Zenon, <1>2, <2>2, <3>1 DEF LinesOK, GapOK
      <3>3. QED
        BY Zenon, <1>3, <3>2
    <2>3. QED
      BY Zenon, <1>1, <2>1, <2>2
  <1>5. EndsOK' /\ GapOK'
    BY Zenon, <1>1, <1>2, <1>4 DEF LinesOK, EndsOK, GapOK
  <1>6. StartsOK'
    BY Zenon, <1>1, <1>3 DEF LinesOK, StartsOK
  <1>7. <<>> \in Seq(Byte) /\ disk'.stream = disk.stream \o <<>>
    BY <1>1, NothingMore
  <1>8. CallOK'
    BY ZenonT(60), <1>1, <1>2, <1>3, <1>4, <1>5, <1>7, CallFailed
  <1>9. QED
    BY Zenon, <1>5, <1>6, <1>8 DEF LinesOK

\* The sidecar written, the call goes on (record_base).
LEMMA RecordBaseLines == IInv /\ IInv' /\ LinesOK /\ RecordBase => LinesOK'
  <1> SUFFICES ASSUME IInv, IInv', LinesOK, RecordBase PROVE LinesOK'
    OBVIOUS
  <1>1. /\ disk' = [disk EXCEPT !.base = [offset |-> log.base, inode |-> log.fd]]
        /\ log' = [log EXCEPT !.stage = "idle"] /\ used' = used
        /\ call' = IF log.stage = "placing" THEN Ready(call, log') ELSE Done(call, log')
        /\ Rotating("created") \/ log.stage = "placing"
    BY DEF RecordBase
  <1>2. /\ log.up /\ log'.up /\ log'.ends = log.ends /\ log'.written = log.written
        /\ disk.live # None
    BY Zenon, <1>1, StartRunType DEF IInv, TypeI, LogType, WriterOK, Rotating, At
  <1>3. /\ disk'.stream = disk.stream /\ disk'.file = disk.file /\ disk'.live = disk.live
        /\ disk'.rotated = disk.rotated
    BY <1>1 DEF IInv, TypeI
  <1>4. EndsOK' /\ GapOK'
    BY Zenon, <1>2, <1>3 DEF LinesOK, EndsOK, GapOK
  <1>5. StartsOK'
    BY Zenon, <1>1, <1>3 DEF LinesOK, StartsOK, Halfway
  <1>6. (Unfailed' => Unfailed) /\ (Placed' => Placed)
    BY Zenon, <1>1 DEF Unfailed, Placed
  <1>7. CallOK'
    <2>1. CASE log.stage = "placing"
      <3>1. call' = Ready(call, log')
        BY Zenon, <1>1, <2>1
      <3>2. /\ CallType(call) /\ LogType(log') /\ disk.stream \in Seq(Byte)
        BY DEF IInv, TypeI
      <3>3. log'.ends /\ log'.written > 0 => EndLine(disk.stream)
        BY Zenon, <1>2, <1>3, <1>4 DEF EndsOK
      <3>4. Placed' => End(log') = Len(disk.stream)
        BY Zenon, <1>2, <1>3, NextPositions DEF Placed, PositionsContinue
      <3>5. TodoOK(call.todo, disk.stream)
        BY DEF LinesOK, CallOK
      <3>6. /\ TodoOK(call'.todo, disk.stream)
            /\ PrepOK(call.todo, disk.stream) => PrepOK(call'.todo, disk.stream)
            /\ PrepOK(call.todo, disk.stream) /\ RunOK(call, disk.stream)
                  /\ End(log') = Len(disk.stream) => RunOK(call', disk.stream)
        BY ZenonT(60), <3>1, <3>2, <3>3, <3>5, ReadyLines
      <3>7. Placed' => Unfailed
        BY Zenon, <1>6 DEF Placed
      <3>8. QED
        BY Zenon, <1>3, <1>6, <3>4, <3>6, <3>7 DEF LinesOK, CallOK
    <2>2. CASE log.stage # "placing"
      <3>1. call' = Done(call, log') /\ At("rotate")
        BY <1>1, <2>2 DEF Rotating
      <3>2. EndLine(disk'.stream)
        BY Zenon, <1>3, <3>1, RotatingLine
      <3>3. <<>> \in Seq(Byte) /\ disk'.stream = disk.stream \o <<>>
        BY Zenon, <1>3, NothingMore
      <3>4. QED
        BY Zenon, <1>2, <1>4, <1>6, <3>1, <3>2, <3>3, CallDone
    <2>3. QED
      BY <2>1, <2>2
  <1>8. QED
    BY Zenon, <1>4, <1>5, <1>7 DEF LinesOK

\* A log that is not open has no call.
LEMMA DownLines ==
    ASSUME IInv, LinesOK, disk' = disk, log' = Down, call' = NoCall,
           Unfailed' => Unfailed, Halfway => Halfway'
    PROVE  LinesOK'
  <1>1. ~log'.up /\ call'.todo = <<>> /\ call'.run = 0
    BY DEF Down, NoCall
  <1>2. EndsOK' /\ GapOK'
    BY Zenon, <1>1 DEF LinesOK, EndsOK, GapOK
  <1>3. StartsOK'
    BY Zenon DEF LinesOK, StartsOK
  <1>4. TodoOK(<<>>, disk'.stream) /\ PrepOK(<<>>, disk'.stream)
    BY DEF TodoOK, PrepOK
  <1>5. RunOK(call', disk'.stream)
    BY Zenon, <1>1 DEF RunOK, OnLine
  <1>6. CallOK'
    BY Zenon, <1>1, <1>4, <1>5 DEF CallOK
  <1>7. QED
    BY ZenonT(60), <1>2, <1>3, <1>6 DEF LinesOK

\* Without the sidecar it does not start, or goes on at the end of a line
\* (record_base).
LEMMA FailRecordLines == IInv /\ IInv' /\ LinesOK /\ FailRecord => LinesOK'
  <1> SUFFICES ASSUME IInv, IInv', LinesOK, FailRecord PROVE LinesOK'
    OBVIOUS
  <1>1. disk' = disk /\ Spend("records")
    BY DEF FailRecord
  <1>2. (Unfailed' => Unfailed) /\ (Placed' => Placed) /\ (Halfway => Halfway')
    <2>1. "records" \in Resource
      BY DEF Resource
    <2>2. QED
      BY Zenon, <1>1, <2>1, UsedGrows
  <1>3. CASE log' = Down /\ call' = NoCall
    BY Zenon, <1>1, <1>2, <1>3, DownLines
  <1>4. CASE /\ Rotating("created") /\ log' = [log EXCEPT !.stage = "idle"]
             /\ call' = Failed(call, log')
    <2>1. At("rotate") /\ log.stage = "created"
      BY <1>4 DEF Rotating
    <2>2. /\ log.up /\ log'.up /\ log'.ends = log.ends /\ log'.written = log.written
          /\ disk.live # None
      BY <1>4, <2>1 DEF IInv, TypeI, LogType, WriterOK
    <2>3. EndLine(disk'.stream)
      BY Zenon, <1>1, <2>1, RotatingLine
    <2>4. EndsOK' /\ GapOK'
      BY Zenon, <1>1, <2>2, <2>3 DEF EndsOK, GapOK
    <2>5. StartsOK'
      BY Zenon, <1>1, <1>2 DEF LinesOK, StartsOK
    <2>6. <<>> \in Seq(Byte) /\ disk'.stream = disk.stream \o <<>>
      BY Zenon, <1>1, NothingMore
    <2>7. CallOK'
      BY ZenonT(60), <1>2, <1>4, <2>2, <2>3, <2>4, <2>6, CallFailed
    <2>8. QED
      BY <2>4, <2>5, <2>7 DEF LinesOK
  <1>5. QED
    BY Zenon, <1>3, <1>4 DEF FailRecord

\* A kill leaves the lines of the file whole.
LEMMA KillLines == IInv /\ LinesOK /\ Kill => LinesOK'
  <1> SUFFICES ASSUME IInv, LinesOK, Kill PROVE LinesOK'
    OBVIOUS
  <1>1. disk' = disk /\ log' = Down /\ call' = NoCall /\ Spend("kills")
    BY DEF Kill
  <1>2. "kills" \in Resource
    BY DEF Resource
  <1>3. QED
    BY Zenon, <1>1, <1>2, UsedGrows, DownLines

\* Output is to be appended (append_held).
LEMMA OutputLines == IInv /\ LinesOK /\ Output => LinesOK'
  <1> SUFFICES ASSUME IInv, LinesOK, Output PROVE LinesOK'
    OBVIOUS
  <1>1. /\ log.up /\ call.todo = <<>> /\ UNCHANGED <<disk, log, used>>
        /\ CallType(call) /\ LogType(log) /\ disk.stream \in Seq(Byte)
    BY DEF Output, IInv, TypeI
  <1>2. PICK bytes \in Chunk :
          call' = Ready([call EXCEPT !.at = End(log),
                                     !.todo = <<Step("append", bytes), Step("end", bytes),
                                                Step("hand", bytes)>>], log)
    BY Zenon DEF Output
  <1> DEFINE todo == <<Step("append", bytes), Step("end", bytes), Step("hand", bytes)>>
             c == [call EXCEPT !.at = End(log), !.todo = todo]
             s == disk.stream
  <1>3. todo \in Seq(Steps) /\ TodoOK(todo, s) /\ PrepOK(todo, s)
    <2>1. bytes \in Seq(Byte)
      BY ZenonT(60), LogFilesAssumption DEF Byte
    <2>2. /\ Step("append", bytes) \in Steps /\ Step("end", bytes) \in Steps
          /\ Step("hand", bytes) \in Steps
      BY <2>1 DEF Step, Steps
    <2>3. todo \in Seq(Steps)
      BY <2>2
    <2>4. /\ DOMAIN todo = {1, 2, 3} /\ todo[1].op = "append" /\ todo[2].op = "end"
          /\ todo[3].op = "hand"
      BY DEF Step
    <2> HIDE DEF todo
    <2>5. \A k \in DOMAIN todo : todo[k].op \in {"append", "end", "hand"}
      BY <2>4
    <2>6. \A k \in DOMAIN todo : todo[k].op # "write" /\ todo[k].op # "rotate" /\ todo[k].op # "start"
      BY <2>5
    <2>7. QED
      BY Zenon, <2>3, <2>6 DEF TodoOK, PrepOK
  <1>4. CallType(c) /\ c.todo = todo /\ c.run = call.run
    <2>1. End(log) \in Nat
      BY <1>1 DEF LogType, End
    <2> HIDE DEF todo
    <2>2. QED
      BY ZenonT(60), <1>1, <1>3, <2>1 DEF CallType
  <1>5. RunOK(call, s) => RunOK(c, s)
    <2>1. NoStart(<<>>)
      BY DEF NoStart
    <2> HIDE DEF c, todo
    <2>2. QED
      BY Zenon, <1>1, <1>4, <2>1 DEF RunOK
  <1>6. call' = Ready(c, log)
    BY <1>2
  <1>7. log.ends /\ log.written > 0 => EndLine(s)
    BY Zenon, <1>1 DEF LinesOK, EndsOK
  <1>8. Placed => End(log) = Len(s)
    BY Zenon, <1>1, IInvPositions DEF Placed, PositionsContinue
  <1> HIDE DEF c, todo, s
  <1>9. /\ TodoOK(call'.todo, s)
        /\ PrepOK(call'.todo, s)
        /\ RunOK(c, s) /\ End(log) = Len(s) => RunOK(call', s)
    <2>1. s \in Seq(Byte)
      BY Zenon, <1>1 DEF s
    <2>2. QED
      BY ZenonT(60), <1>1, <1>3, <1>4, <1>6, <1>7, <2>1, ReadyLines
  <1>10. CallOK'
    <2>1. Placed' => Placed
      BY Zenon, <1>1 DEF Placed, Unfailed
    <2>2. Placed => RunOK(call, s)
      BY Zenon DEF LinesOK, CallOK, s
    <2>3. disk'.stream = s
      BY Zenon, <1>1 DEF s
    <2>4. QED
      BY ZenonT(60), <1>5, <1>8, <1>9, <2>1, <2>2, <2>3 DEF CallOK
  <1>11. EndsOK' /\ GapOK' /\ StartsOK'
    BY Zenon, <1>1 DEF LinesOK, EndsOK, GapOK, StartsOK, Unfailed, Halfway
  <1>12. QED
    BY <1>10, <1>11 DEF LinesOK

\* A file created for the next holder starts a line, and the log finds whether
\* the one it writes to ends one (RotatingLog::open).
LEMMA OpenLines == IInv /\ IInv' /\ LinesOK /\ Open => LinesOK'
  <1> SUFFICES ASSUME IInv, IInv', LinesOK, Open PROVE LinesOK'
    OBVIOUS
  <1>1. ~log.up /\ used' = used
    BY DEF Open
  <1>2. PICK i \in IF disk.live = None THEN Free(OpenByReaders) ELSE {disk.live} :
          /\ disk' = IF disk.live = None THEN Created(disk, i) ELSE disk
          /\ log' = [up |-> TRUE, fd |-> i, written |-> disk'.file[i].len,
                     base |-> PlacedAtOpen(disk').offset,
                     ends |-> EndsLine(disk', disk'.file[i].len),
                     stage |-> IF disk.base = [offset |-> PlacedAtOpen(disk').offset, inode |-> i]
                               THEN "idle" ELSE "placing"]
    BY Zenon DEF Open
  <1> DEFINE c == [NoCall EXCEPT !.run = End(log'), !.at = End(log'), !.todo = StartRun]
             s == disk.stream
  <1>3. call' = IF log'.stage = "placing" THEN c ELSE Ready(c, log')
    BY ZenonT(40) DEF Open
  <1>4. i \in Inode /\ i # None
    BY Zenon, <1>2, OpenedFile
  <1>5. \/ disk.live = i /\ disk' = disk
        \/ disk.live = None /\ i # disk.rotated /\ disk' = Created(disk, i)
    BY Zenon, <1>2 DEF Free
  <1>6. /\ disk'.live = i /\ disk'.rotated = disk.rotated /\ disk'.stream = s
        /\ \A j \in Inode : j # i => disk'.file[j] = disk.file[j]
        /\ disk.live = None => disk'.file[i].from = Len(s)
        /\ disk.live # None => disk.live = i /\ disk'.file = disk.file
    <2>1. CASE disk.live = i /\ disk' = disk
      BY Zenon, <1>4, <2>1
    <2>2. CASE disk.live = None /\ disk' = Created(disk, i)
      BY Zenon, <1>4, <2>2 DEF Created, IInv, TypeI
    <2>3. QED
      BY Zenon, <1>5, <2>1, <2>2
  <1>7. log'.up /\ log'.written = disk'.file[i].len /\ log'.ends = EndsLine(disk', disk'.file[i].len)
    BY Zenon, <1>2
  <1>8. s \in Seq(Byte) /\ Len(s) \in Nat /\ LogType(log') /\ used["kills"] \in Nat /\ used["faults"] \in Nat
    <2>1. s \in Seq(Byte) /\ LogType(log') /\ used["kills"] \in Nat /\ used["faults"] \in Nat
      BY Zenon DEF IInv, TypeI, Resource
    <2> HIDE DEF s, c
    <2>2. Len(s) \in Nat
      BY <2>1
    <2>3. QED
      BY ZenonT(60), <2>1, <2>2
  <1>9. EndsOK'
    <2> SUFFICES ASSUME EndsLine(disk', disk'.file[i].len), disk'.file[i].len > 0
                 PROVE  EndLine(disk'.stream)
      BY Zenon, <1>7 DEF EndsOK
    <2>1. disk'.stream[disk'.file[i].from + disk'.file[i].len] = "feed"
      BY Zenon, <1>6, ZeroIsLeast DEF EndsLine
    <2>2. EndOf(disk.live)' = Len(disk'.stream)
      BY ZenonT(60), <1>4, <1>6 DEF IInv, FilesOK
    <2>3. disk'.file[i].from + disk'.file[i].len = Len(disk'.stream)
      BY <1>6, <2>2 DEF EndOf
    <2>4. disk'.stream[Len(disk'.stream)] = "feed"
      BY Zenon, <2>1, <2>3
    <2>5. QED
      BY <1>6, <1>8, <2>4 DEF EndLine, OnLine
  <1>10. GapOK'
    BY Zenon, <1>4, <1>6 DEF GapOK
  <1>11. disk.live = None /\ ~Halfway => EndLine(s)
    <2>1. CASE Unfailed
      BY Zenon, <2>1 DEF LinesOK, GapOK
    <2>2. CASE ~Unfailed
      <3>1. ~Halfway => used["kills"] = 0
        BY <1>8, <2>2 DEF Unfailed, Halfway
      <3>2. ~Halfway => Len(s) = 0
        BY Zenon, <1>1, <3>1 DEF IInv, FirstOK, Fresh
      <3>3. QED
        BY Zenon, <3>2 DEF EndLine, OnLine
    <2>3. QED
      BY <2>1, <2>2
  <1>12. StartsOK'
    <2>1. Halfway' = Halfway
      BY Zenon, <1>1 DEF Halfway
    <2>2. disk.rotated # None => disk.rotated \in Inode
      BY DEF IInv, TypeI, File
    <2> SUFFICES ASSUME ~Halfway, NEW j \in {i, disk.rotated} \ {None}
                 PROVE  OnLine(s, disk'.file[j].from)
      BY Zenon, <1>6, <2>1 DEF StartsOK
    <2>3. CASE disk.live # None
      <3>1. j \in {disk.live, disk.rotated} \ {None} /\ disk'.file[j] = disk.file[j]
        BY <1>6, <2>3
      <3>2. QED
        BY Zenon, <3>1 DEF LinesOK, StartsOK
    <2>4. CASE disk.live = None /\ j = i
      BY Zenon, <1>6, <1>11, <2>4 DEF EndLine
    <2>5. CASE disk.live = None /\ j # i
      <3>1. j = disk.rotated /\ j \in Inode /\ disk'.file[j] = disk.file[j]
        BY ZenonT(60), <1>6, <2>2, <2>5
      <3>2. j \in {disk.live, disk.rotated} \ {None}
        BY <3>1
      <3>3. QED
        BY Zenon, <3>1, <3>2 DEF LinesOK, StartsOK
    <2>6. QED
      BY Zenon, <2>3, <2>4, <2>5
  <1>13. /\ CallType(c) /\ c.todo = StartRun
    <2>1. End(log') \in Nat
      BY <1>8 DEF LogType, End
    <2>2. QED
      BY Zenon, <2>1, StartRunType, DownType DEF CallType, NoCall
  <1> HIDE DEF c
  <1>14. TodoOK(StartRun, s) /\ PrepOK(StartRun, s) /\ ~NoStart(StartRun)
    <2> DEFINE y == StartRun
    <2>1. /\ DOMAIN y = {1, 2, 3} /\ y[1].op = "append" /\ y[1].bytes = EndOpenLine
          /\ y[2].op = "start" /\ y[3].op = "append"
      BY DEF StartRun, Step
    <2> HIDE DEF y
    <2>2. TodoOK(y, s)
      BY ZenonT(60), <2>1 DEF TodoOK
    <2>3. EndsIt(y[1]) /\ 2 - 1 = 1 /\ 2 > 1
      BY <2>1 DEF EndsIt
    <2>4. \A k \in DOMAIN y : y[k].op # "end" /\ (y[k].op = "start" => k = 2)
      BY <2>1
    <2>5. PrepOK(y, s)
      BY ZenonT(60), <2>3, <2>4 DEF PrepOK
    <2>6. ~NoStart(y)
      BY <2>1 DEF NoStart
    <2>7. QED
      BY ZenonT(60), <2>2, <2>5, <2>6 DEF y
  <1>15. RunOK(c, s)
    BY Zenon, <1>13, <1>14 DEF RunOK
  <1>16. CallOK'
    <2>1. CASE call' = c
      BY ZenonT(60), <1>6, <1>13, <1>14, <1>15, <2>1 DEF CallOK
    <2>2. CASE call' = Ready(c, log')
      <3>1. log'.ends /\ log'.written > 0 => EndLine(s)
        BY Zenon, <1>6, <1>7, <1>9 DEF EndsOK
      <3>2. Placed' => End(log') = Len(s)
        BY Zenon, <1>6, <1>7, NextPositions DEF Placed, PositionsContinue
      <3> HIDE DEF s
      <3>3. /\ TodoOK(call'.todo, s) /\ PrepOK(call'.todo, s)
            /\ End(log') = Len(s) => RunOK(call', s)
        BY ZenonT(60), <1>8, <1>13, <1>14, <1>15, <2>2, <3>1, ReadyLines
      <3>4. QED
        BY Zenon, <1>6, <3>2, <3>3 DEF CallOK
    <2>3. QED
      BY Zenon, <1>3, <2>1, <2>2
  <1>17. QED
    BY ZenonT(60), <1>9, <1>10, <1>12, <1>16 DEF LinesOK

\* Readers and followers leave the lines alone.
LEMMA OthersLines ==
    ASSUME IInv, LinesOK, UNCHANGED <<disk, log, call>>, used' = used \/ \E k \in Resource : Spend(k)
    PROVE  LinesOK'
  <1>1. (Unfailed' => Unfailed) /\ (Placed' => Placed) /\ (Halfway => Halfway')
    BY Zenon, UsedGrows
  <1>2. EndsOK' /\ GapOK' /\ StartsOK' /\ CallOK'
    BY Zenon, <1>1 DEF LinesOK, EndsOK, GapOK, StartsOK, CallOK
  <1>3. QED
    BY <1>2 DEF LinesOK

\* At the start there is no line to be in the middle of.
LEMMA InitLines == Init => LinesOK
  <1> SUFFICES ASSUME Init PROVE LinesOK
    BY Zenon
  <1>1. /\ disk.stream = <<>> /\ disk.live = None /\ disk.rotated = None /\ ~log.up
        /\ call.todo = <<>> /\ call.run = 0
    BY Zenon DEF Init, Down, NoCall
  <1>2. EndLine(<<>>) /\ TodoOK(<<>>, <<>>) /\ PrepOK(<<>>, <<>>) /\ OnLine(<<>>, 0)
    BY DEF EndLine, OnLine, TodoOK, PrepOK
  <1>3. StartsOK
    BY <1>1 DEF StartsOK
  <1>4. QED
    BY Zenon, <1>1, <1>2, <1>3 DEF LinesOK, EndsOK, GapOK, CallOK, RunOK

\* Every step keeps the invariant.
LEMMA NextOK == IInv /\ [Next]_vars => IInv'
  <1> SUFFICES ASSUME IInv, [Next]_vars PROVE IInv'
    OBVIOUS
  <1>1. CASE Next
    BY Zenon, <1>1, HoldsOK, OthersOK DEF Next
  <1>2. CASE UNCHANGED vars
    <2>1. UNCHANGED <<disk, log, call>> /\ used' = used
      BY Zenon, <1>2 DEF vars
    <2>2. used' \in [Resource -> Nat]
      BY Zenon, <2>1 DEF IInv, TypeI
    <2>3. QED
      BY Zenon, <2>1, <2>2, OthersKeep
  <1>3. QED
    BY Zenon, <1>1, <1>2

\* ... and the lines.
LEMMA NextLines == IInv /\ IInv' /\ LinesOK /\ [Next]_vars => LinesOK'
  <1> SUFFICES ASSUME IInv, IInv', LinesOK, [Next]_vars PROVE LinesOK'
    OBVIOUS
  <1>1. CASE Holds
    BY ZenonT(60), <1>1, OpenLines, OutputLines, WriteLines, FailWriteLines, RenameLines, CreateLines,
       FailRotationLines, RecordBaseLines, FailRecordLines, KillLines DEF Holds
  <1>2. CASE Reads \/ Follows
    <2>1. UNCHANGED <<disk, log, call>>
      BY Zenon, <1>2 DEF Reads, Follows, OpenRotated, OpenLive, ReadBase, StillRotated, StillLive,
             Follow, Drain, Stat, OpenNew, InspectRotated, LiveStart, CatchUp
    <2>2. used' = used \/ Spend("reads") \/ Spend("follows")
      BY Zenon, <1>2 DEF Reads, Follows, OpenRotated, OpenLive, ReadBase, StillRotated, StillLive,
             Follow, Drain, Stat, OpenNew, InspectRotated, LiveStart, CatchUp
    <2>3. "reads" \in Resource /\ "follows" \in Resource
      BY DEF Resource
    <2>4. QED
      BY Zenon, <2>1, <2>2, <2>3, OthersLines
  <1>3. CASE UNCHANGED vars
    BY <1>3, OthersLines DEF vars
  <1>4. QED
    BY ZenonT(60), <1>1, <1>2, <1>3 DEF Next

\* What the invariants say of the lines.
LEMMA LinesGenerations == LinesOK => GenerationsStartLines
  <1> SUFFICES ASSUME LinesOK PROVE GenerationsStartLines
    OBVIOUS
  <1>1. \A at : OnLine(disk.stream, at) => StartsLine(at)
    BY Zenon DEF OnLine, StartsLine
  <1>2. QED
    BY Zenon, <1>1 DEF LinesOK, StartsOK, CallOK, RunOK, NoStart, Placed, Unfailed,
       GenerationsStartLines

-----------------------------------------------------------------------------

\* RotatingLog names every byte by its place in the output of all runs: whatever
\* the cap, the child's output, the writes and rotations that fail and the
\* holders killed between two steps, the position at which the log says it ends
\* is the number of bytes ever logged, unless the sidecar could not be written
\* and a holder was killed.
THEOREM PositionsHold == Spec => []PositionsContinue
  BY InitOK, NextOK, IInvPositions, PTL DEF Spec

\* RotatingLog rotates between lines only: whatever the cap, the output, the
\* failures and the kills, both files start on a line, as does the run of every
\* holder, with the exceptions GenerationsStartLines names.
THEOREM LinesStayWhole == Spec => []GenerationsStartLines
  <1>1. Init => IInv /\ LinesOK
    BY InitOK, InitLines
  <1>2. IInv /\ LinesOK /\ [Next]_vars => (IInv /\ LinesOK)'
    BY NextOK, NextLines
  <1>3. QED
    BY <1>1, <1>2, LinesGenerations, PTL DEF Spec

=============================================================================

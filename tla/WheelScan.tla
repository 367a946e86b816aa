------------------------------ MODULE WheelScan ------------------------------
(***************************************************************************)
(* _validate_wheel_metadata of release_guard.py: the raw zip directory and *)
(* the local headers are read first (_preflight_wheel_raw_names), then     *)
(* zipfile's view is bound to them, then the members are validated and     *)
(* every local header is checked against the directory and its member read.*)
(*                                                                         *)
(* Places in the file are counted in words.  A wheel is a record: its end  *)
(* of central directory records in the order they occur, each with the     *)
(* entries of the directory that lies right before it, and the local       *)
(* headers by their offset.                                                *)
(***************************************************************************)
EXTENDS ArchiveMembers

CONSTANTS
    EndSize,      \* words of an end record
    Full,         \* 0xFFFFFFFF, which says that a zip64 field holds the value
    WheelRules    \* root and metadata name of the wheel

ASSUME WheelAssumption ==
    /\ EndSize \in Nat \ {0} /\ Full \in Nat
    /\ WheelRules \in Rules /\ ~WheelRules.single

\* What is read of a directory entry.  form stands for the compression and the
\* time stamp, which are only compared; deferred for the flag that leaves crc and
\* sizes to a data descriptor.
Entries ==
    [sound : BOOLEAN, extra : {"plain", "zip64"}, name : Names, offset : Nat,
     version : Nat, form : STRING, deferred : BOOLEAN,
     mode : {"none", "file", "dir", "link"}, crc : Nat, csize : Nat, size : Nat]

EndRecords ==
    [at : Nat, comment : Nat, disks : Nat, entries : Nat, offset : Nat, dir : Seq(Entries)]

\* A local header, the descriptor after its payload, and what the payload inflates
\* to: how many bytes, and the checksum of those that are read.
Locals ==
    [sound : BOOLEAN, name : Names, version : Nat, form : STRING, deferred : BOOLEAN,
     crc : Nat, csize : Nat, size : Nat, extra : {"plain", "zip64", "broken"},
     zip64 : [csize : Nat, size : Nat], head : Nat,
     descriptor : [signed : BOOLEAN, crc : Nat, csize : Nat, size : Nat],
     data : [crc : Nat, size : Nat]]

IsWheel(w) ==
    /\ w.size \in Nat /\ w.approved \in BOOLEAN
    /\ w.ends \in Seq(EndRecords)
    /\ \A o \in DOMAIN w.local : w.local[o] \in Locals

VARIABLES
    wheel,     \* the file: its size, end records, local headers, metadata text
    wpc,       \* what _validate_wheel_metadata does next
    candidate, \* end record the search is at
    entry      \* directory entry the running loop is at

wheelVars == <<wheel, wpc, candidate, entry>>

WheelInit == wpc = "idle" /\ candidate = 0 /\ entry = 1

Goto(to) == wpc' = to

-----------------------------------------------------------------------------
(* _preflight_wheel_raw_names                                              *)

\* The record and its comment fill the file to its end.
ReachesEnd(end) == end.at + EndSize + end.comment = wheel.size

\* One disk, no zip64, and the directory lies right before the record.
EndSound(end) ==
    /\ end.disks = 1
    /\ end.entries <= MaxMembers
    /\ end.offset # Full
    /\ end.offset + Len(end.dir) = end.at

End == wheel.ends[candidate]
Dir == End.dir           \* the central directory of the raw scan
DirAt == End.offset

\* Mutated form of Before: the search finds the same record again.
BeforeItsEnd(c) == c

\* search_end = offset: the search goes on with what precedes the record.
Before(c) == c - 1

\* _wheel_end_record looks from the end of the file for a record that reaches it.
WheelSearch ==
    /\ wpc = "search"
    /\ \/ /\ wheel.size < EndSize \/ candidate = 0
          /\ Goto("rejected")
          /\ UNCHANGED candidate
       \/ /\ wheel.size >= EndSize /\ candidate > 0
          /\ IF ReachesEnd(End)
               THEN Goto(IF EndSound(End) THEN "central" ELSE "rejected") /\ UNCHANGED candidate
               ELSE candidate' = Before(candidate) /\ UNCHANGED wpc
    /\ entry' = 1
    /\ UNCHANGED <<wheel, members>>

\* A central entry: complete, without zip64 values or fields, safely named.
CentralSound(e) ==
    /\ e.sound /\ e.extra = "plain"
    /\ Full \notin {e.csize, e.size, e.offset}
    /\ Safe(e.name)

Offsets == {Dir[i].offset : i \in DOMAIN Dir}

\* Every entry has a local header of its own, before the directory.
OffsetsApart ==
    /\ Dir # <<>>
    /\ \A i, j \in DOMAIN Dir : i # j => Dir[i].offset # Dir[j].offset
    /\ \A o \in Offsets : o < DirAt

WheelCentral ==
    /\ wpc = "central"
    /\ IF entry <= End.entries
         THEN IF entry <= Len(Dir) /\ CentralSound(Dir[entry])
                THEN entry' = entry + 1 /\ UNCHANGED wpc
                ELSE Goto("rejected") /\ UNCHANGED entry
         ELSE /\ Goto(IF End.entries = Len(Dir) /\ OffsetsApart THEN "locals" ELSE "rejected")
              /\ entry' = 1
    /\ UNCHANGED <<wheel, candidate, members>>

\* What a reader finds at an offset.
HasLocal(o) == o \in DOMAIN wheel.local
Local(o) == wheel.local[o]

WheelLocal ==
    /\ wpc = "locals" /\ entry <= Len(Dir)
    /\ LET e == Dir[entry]
       IN  IF /\ HasLocal(e.offset) /\ Local(e.offset).sound
              /\ Safe(Local(e.offset).name) /\ Local(e.offset).name = e.name
             THEN entry' = entry + 1 /\ UNCHANGED wpc
             ELSE Goto("rejected") /\ UNCHANGED entry
    /\ UNCHANGED <<wheel, candidate, members>>

-----------------------------------------------------------------------------
(* zipfile's view of the same file: code outside of the repository.        *)

Last == wheel.ends[Len(wheel.ends)]

\* zipfile takes the record that ends the file without a comment, otherwise the
\* last one, whatever its comment says.
ZipEnd ==
    LET exact == {i \in DOMAIN wheel.ends :
                    wheel.ends[i].at + EndSize = wheel.size /\ wheel.ends[i].comment = 0}
    IN  IF exact # {} THEN wheel.ends[CHOOSE i \in exact : TRUE] ELSE Last

\* It then moves every offset by what the directory is away from its own.
Shift == ZipEnd.at - Len(ZipEnd.dir) - ZipEnd.offset

ZipOpens ==
    /\ ZipEnd.at + EndSize <= wheel.size
    /\ \A i \in DOMAIN ZipEnd.dir : ZipEnd.dir[i].sound

Infos == ZipEnd.dir

\* _bind_wheel_raw_names: the same names at the same offsets in the same order.
WheelBind ==
    /\ wpc = "locals" /\ entry > Len(Dir)
    /\ IF /\ ZipOpens
          /\ Len(Infos) = Len(Dir)
          /\ \A i \in DOMAIN Dir :
                Infos[i].name = Dir[i].name /\ Infos[i].offset + Shift = Dir[i].offset
         THEN Goto("members") /\ StartMembers
         ELSE Goto("rejected") /\ UNCHANGED members
    /\ UNCHANGED <<wheel, candidate, entry>>

-----------------------------------------------------------------------------
(* The members.                                                            *)

\* _wheel_member: a final slash and the mode bits say what a member is.
WheelInfo(e) ==
    [name |-> e.name, size |-> e.size, csize |-> e.csize,
     file |-> ~e.name.slash /\ e.mode \in {"none", "file"},
     dir |-> e.name.slash /\ e.mode \in {"none", "dir"}]

WheelList == [i \in DOMAIN Infos |-> WheelInfo(Infos[i])]

WheelMember ==
    /\ wpc = "members"
    /\ IF place <= Len(WheelList)
         THEN IF Admissible(WheelList[place], WheelRules)
                THEN Admit(WheelList[place], WheelRules) /\ UNCHANGED wpc
                ELSE Goto("rejected") /\ UNCHANGED members
         ELSE /\ Goto(IF Complete(WheelList, wheel.size, WheelRules)
                        THEN "contents" ELSE "rejected")
              /\ UNCHANGED members
    /\ entry' = 1
    /\ UNCHANGED <<wheel, candidate>>

\* Mutated form of RecordEnd: every record may reach up to the directory.
RecordEndAtDirectory(o) == {DirAt} \ {o}

\* Where the record at an offset ends: at the next one or at the directory; a set
\* of one (record_ends).
RecordEnd(o) ==
    {p \in Offsets \cup {DirAt} : p > o /\ \A q \in Offsets : q > o => p <= q}

Values(x) == [crc |-> x.crc, csize |-> x.csize, size |-> x.size]

PayloadAt(e) == e.offset + Local(e.offset).head

\* Words of a data descriptor, with or without its signature.
DescriptorLength(zip64, signed) == (IF zip64 THEN 5 ELSE 3) + (IF signed THEN 1 ELSE 0)

\* Mutated form of DescriptorAgrees: its checksum is not compared.
DescriptorSizesAgree(e, values, gap, zip64) ==
    LET d == Local(e.offset).descriptor
    IN  /\ gap = DescriptorLength(zip64, d.signed)
        /\ d.csize = values.csize /\ d.size = values.size

\* _validate_wheel_data_descriptor: it fills the rest of the record, and it says
\* what the directory says.
DescriptorAgrees(e, values, gap, zip64) ==
    LET d == Local(e.offset).descriptor
    IN  /\ gap = DescriptorLength(zip64, d.signed)
        /\ Values(d) = values

NoValues == [csize |-> 0, size |-> 0]
FullValues == [csize |-> Full, size |-> Full]

\* The sizes in the fields of a header, and those it states: zip64 goes first.
Fields(l) == [csize |-> l.csize, size |-> l.size]
Sizes(l) == IF l.extra = "zip64" THEN l.zip64 ELSE Fields(l)

\* A header that leaves its values to a descriptor has to be blank in the way its
\* extract version is known for.
BlankHeader(l) ==
    /\ l.crc = 0
    /\ IF l.extra = "zip64"
         THEN /\ \/ l.version = 20 /\ Fields(l) = NoValues
                 \/ l.version = 45 /\ Fields(l) = FullValues
              /\ l.zip64 = NoValues
         ELSE Sizes(l) = NoValues

\* _validate_wheel_local_header, for an entry e of the raw directory and what
\* zipfile says of it.
LocalAgrees(e, info) ==
    LET l == Local(e.offset)
        payloadEnd == PayloadAt(e) + info.csize
    IN  /\ l.version = e.version /\ l.form = e.form /\ l.deferred = e.deferred
        /\ l.extra # "broken"
        /\ IF l.extra = "zip64"
             THEN l.deferred \/ Fields(l) = FullValues
             ELSE Full \notin {l.csize, l.size}
        /\ \E end \in RecordEnd(e.offset) :
              /\ payloadEnd <= end
              /\ l.deferred => DescriptorAgrees(e, Values(info), end - payloadEnd,
                                                l.extra = "zip64")
        /\ IF l.deferred
             THEN BlankHeader(l)
             ELSE l.crc = info.crc /\ Sizes(l) = [csize |-> info.csize, size |-> info.size]

\* _read_regular_member on what zipfile inflates: the announced size and its crc.
Inflates(e, info) ==
    /\ Local(e.offset).data.size >= info.size
    /\ Local(e.offset).data.crc = info.crc

WheelContent ==
    /\ wpc = "contents"
    /\ IF entry <= Len(WheelList)
         THEN IF /\ LocalAgrees(Dir[entry], Infos[entry])
                 /\ WheelList[entry].file => Inflates(Dir[entry], Infos[entry])
                THEN entry' = entry + 1 /\ UNCHANGED wpc
                ELSE Goto("rejected") /\ UNCHANGED entry
         ELSE /\ Goto(IF wheel.approved THEN "accepted" ELSE "rejected")
              /\ UNCHANGED entry
    /\ UNCHANGED <<wheel, candidate, members>>

WheelStep ==
    \/ WheelSearch \/ WheelCentral \/ WheelLocal \/ WheelBind \/ WheelMember
    \/ WheelContent
=============================================================================

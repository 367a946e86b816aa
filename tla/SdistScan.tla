------------------------------ MODULE SdistScan ------------------------------
(***************************************************************************)
(* _validate_sdist_metadata of release_guard.py: the raw tar headers are   *)
(* read first (_preflight_sdist_raw_headers), then tarfile's view of the   *)
(* same bytes is compared with them, then the members are validated.       *)
(*                                                                         *)
(* A tar stream is a sequence of blocks.  What a block is as a header is   *)
(* in the block; whether it is read as one depends on where the reader     *)
(* stands.  A PAX header carries the path of the member that follows it.   *)
(***************************************************************************)
EXTENDS ArchiveMembers

CONSTANTS
    BlockSize,    \* bytes of a block: 512
    SdistRules    \* root and metadata name of the sdist

ASSUME SdistAssumption ==
    /\ BlockSize \in Nat \ {0}
    /\ SdistRules \in Rules /\ SdistRules.single

Zero == [kind |-> "zero"]
Data == [kind |-> "data"]      \* no header: the checksum or the magic is wrong
NoPath == [parts |-> <<>>, slash |-> FALSE]

\* A header has a valid checksum, magic and fields.  proper: there is no link
\* name and, on a PAX header, the name is the usual one.  path is what a PAX
\* header announces, NoPath when its payload is not exactly one path record.
\* cut: the name field is full and begins the path announced before it.
Headers ==
    [kind : {"header"}, type : {"old", "file", "dir", "pax", "other"}, name : Names,
     size : Nat, proper : BOOLEAN, path : Names, cut : BOOLEAN]

IsSdist(s) ==
    /\ s.size \in Nat /\ s.intact \in BOOLEAN /\ s.approved \in BOOLEAN
    /\ s.blocks \in Seq({Zero, Data} \cup Headers)

VARIABLES
    sdist,     \* the file: bytes on disk, gzip state, blocks, metadata text
    spc,       \* what _validate_sdist_metadata does next
    offset,    \* block the raw scan stands at
    pending,   \* pending_path
    raw,       \* members found so far: final name, header, whether it was announced
    rawKeys,   \* keys of the names in the headers themselves
    rawFiles,  \* those of regular files
    pathKeys,  \* keys of the final names
    pathFiles,
    rawTotal   \* total_size of the raw scan

scan == <<offset, pending, raw, rawKeys, rawFiles, pathKeys, pathFiles, rawTotal>>
sdistVars == <<sdist, spc, scan>>

SdistInit ==
    /\ spc = "idle" /\ offset = 1 /\ pending = NoPath /\ raw = <<>>
    /\ rawKeys = {} /\ rawFiles = {} /\ pathKeys = {} /\ pathFiles = {}
    /\ rawTotal = 0

Blocks == sdist.blocks

\* Mutated form of Padded: a size that fills its last block takes one more.
PaddedTwice(size) == size \div BlockSize + 1

\* Blocks the payload of a member takes.
Padded(size) == (size + BlockSize - 1) \div BlockSize

After(o, header) == o + 1 + Padded(header.size)

IsFile(type) == type \in {"old", "file"}

-----------------------------------------------------------------------------
(* _preflight_sdist_raw_headers                                            *)

\* The compressed file and the size of what it holds.
SdistOpen ==
    /\ spc = "open"
    /\ IF /\ sdist.size > 0 /\ sdist.intact
          /\ Len(Blocks) * BlockSize <= MaxTotal + (MaxMembers + 2) * BlockSize
          /\ Len(Blocks) >= 2
          /\ Len(Blocks) * BlockSize <= sdist.size * MaxRatio
         THEN spc' = "scan"
         ELSE spc' = "rejected"
    /\ offset' = 1 /\ pending' = NoPath /\ raw' = <<>>
    /\ rawKeys' = {} /\ rawFiles' = {} /\ pathKeys' = {} /\ pathFiles' = {}
    /\ rawTotal' = 0
    /\ UNCHANGED <<sdist, members>>

\* The two zero blocks that end the archive, and nothing but zeros after them.
EndsHere ==
    /\ offset < Len(Blocks)
    /\ \A o \in offset .. Len(Blocks) : Blocks[o] = Zero

\* What every header must satisfy before its type is looked at.
Readable(header) ==
    /\ Len(raw) < MaxMembers
    /\ header.kind = "header"
    /\ After(offset, header) <= Len(Blocks) + 1
    /\ header.size <= MaxMember

\* A PAX header, which must announce a safe path and must not follow another.
Announces(header) ==
    /\ pending = NoPath /\ header.proper
    /\ header.path # NoPath /\ Safe(header.path)

\* The name a member goes by: its own or the one announced for it.
FinalName(header) == IF pending = NoPath THEN header.name ELSE pending

\* What a header that is not a PAX header must satisfy.
Acceptable(header) ==
    LET name == FinalName(header)
    IN  /\ Safe(header.name) /\ Safe(name)
        /\ pending \notin {NoPath, header.name} => header.cut
        /\ header.type # "other" /\ header.proper
        /\ header.type = "dir" => header.size = 0
        /\ Key(name) \notin pathKeys
        /\ Key(header.name) \notin rawKeys
        /\ rawTotal + header.size <= MaxTotal

\* After the loop: the end was seen, nothing is pending, and no member lies
\* below a file, under its final name or under the one in its header.
Topology ==
    /\ pending = NoPath /\ raw # <<>>
    /\ ~BelowFile(pathKeys, pathFiles)
    /\ ~BelowFile(rawKeys, rawFiles)

SdistEnd ==
    /\ spc = "scan"
    /\ offset <= Len(Blocks) => Blocks[offset] = Zero
    /\ spc' = IF EndsHere /\ Topology THEN "bind" ELSE "rejected"
    /\ UNCHANGED <<sdist, scan, members>>

SdistPax ==
    /\ spc = "scan" /\ offset <= Len(Blocks)
    /\ LET header == Blocks[offset]
       IN  /\ header # Zero /\ Readable(header)
           /\ header.type = "pax"
           /\ IF Announces(header)
                THEN /\ pending' = header.path
                     /\ offset' = After(offset, header)
                     /\ UNCHANGED spc
                ELSE /\ spc' = "rejected"
                     /\ UNCHANGED <<pending, offset>>
    /\ UNCHANGED <<sdist, raw, rawKeys, rawFiles, pathKeys, pathFiles, rawTotal, members>>

SdistHeader ==
    /\ spc = "scan" /\ offset <= Len(Blocks)
    /\ LET header == Blocks[offset]
           name == FinalName(header)
       IN  /\ header # Zero /\ Readable(header)
           /\ header.type # "pax"
           /\ Acceptable(header)
           /\ raw' = Append(raw, [name |-> name, header |-> header,
                                  announced |-> pending # NoPath])
           /\ pathKeys' = pathKeys \cup {Key(name)}
           /\ rawKeys' = rawKeys \cup {Key(header.name)}
           /\ pathFiles' = pathFiles \cup (IF IsFile(header.type) THEN {Key(name)} ELSE {})
           /\ rawFiles' = rawFiles \cup
                            (IF IsFile(header.type) THEN {Key(header.name)} ELSE {})
           /\ rawTotal' = rawTotal + header.size
           /\ offset' = After(offset, header)
    /\ pending' = NoPath
    /\ UNCHANGED <<sdist, spc, members>>

SdistRefuse ==
    /\ spc = "scan" /\ offset <= Len(Blocks)
    /\ LET header == Blocks[offset]
       IN  /\ header # Zero
           /\ \/ ~Readable(header)
              \/ Readable(header) /\ header.type # "pax" /\ ~Acceptable(header)
    /\ spc' = "rejected"
    /\ UNCHANGED <<sdist, scan, members>>

-----------------------------------------------------------------------------
(* The rest of _validate_sdist_metadata                                    *)

\* What tarfile makes of a member: an old-style file whose header ends in a slash
\* is a directory, and neither a directory nor an announced name keeps its slash.
TarInfo(member) ==
    LET header == member.header
        dir == header.type = "dir" \/ (header.type = "old" /\ header.name.slash)
    IN  [name |-> IF dir \/ member.announced
                    THEN [member.name EXCEPT !.slash = FALSE] ELSE member.name,
         size |-> header.size, csize |-> NoSize, file |-> ~dir, dir |-> dir]

SdistList == [i \in DOMAIN raw |-> TarInfo(raw[i])]

\* Both views agree on every member: name, size and type.
SdistBind ==
    /\ spc = "bind"
    /\ IF \A i \in DOMAIN raw : SdistList[i].file = IsFile(raw[i].header.type)
         THEN spc' = "members" /\ StartMembers
         ELSE spc' = "rejected" /\ UNCHANGED members
    /\ UNCHANGED <<sdist, scan>>

SdistMember ==
    /\ spc = "members" /\ place <= Len(SdistList)
    /\ IF Admissible(SdistList[place], SdistRules)
         THEN Admit(SdistList[place], SdistRules) /\ UNCHANGED spc
         ELSE spc' = "rejected" /\ UNCHANGED members
    /\ UNCHANGED <<sdist, scan>>

\* The raw scan has seen the payload of every member in full, so all of them
\* can be read; what remains is what the metadata says.
SdistClose ==
    /\ spc = "members" /\ place > Len(SdistList)
    /\ spc' = IF Complete(SdistList, sdist.size, SdistRules) /\ sdist.approved
                THEN "accepted" ELSE "rejected"
    /\ UNCHANGED <<sdist, scan, members>>

SdistStep ==
    \/ SdistOpen \/ SdistEnd \/ SdistPax \/ SdistHeader \/ SdistRefuse
    \/ SdistBind \/ SdistMember \/ SdistClose
=============================================================================

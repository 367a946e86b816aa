---------------------------- MODULE ArchiveMembers ----------------------------
(***************************************************************************)
(* What release_guard.py demands of the members of a distribution, be it   *)
(* a wheel or an sdist: names that mean the same on every file system, no  *)
(* member below a file, bounded sizes and one metadata member              *)
(* (_canonical_archive_member_key, _validate_archive_members).             *)
(*                                                                         *)
(* A name is a sequence of components with or without a final slash.  Which*)
(* components are unsafe and which are the same after NFKC and case        *)
(* folding is given by constants.                                          *)
(***************************************************************************)
EXTENDS Integers, Sequences, FiniteSets

CONSTANTS
    Parts,        \* components of member names
    Unsafe,       \* those that are refused: "..", "aux", "a:b", "x." and the like
    Fold,         \* the portable form of a component
    DistInfo,     \* portable forms that end in ".dist-info"
    MaxMembers,   \* ARCHIVE_MAX_MEMBERS
    MaxMember,    \* ARCHIVE_MAX_MEMBER_SIZE
    MaxTotal,     \* ARCHIVE_MAX_TOTAL_SIZE
    MaxMetadata,  \* ARCHIVE_MAX_METADATA_SIZE
    MaxRatio      \* ARCHIVE_MAX_COMPRESSION_RATIO

ASSUME MembersAssumption ==
    /\ Unsafe \subseteq Parts
    /\ Fold \in [Parts -> Parts]
    /\ DistInfo \subseteq Parts
    /\ {MaxMembers, MaxMember, MaxTotal, MaxMetadata, MaxRatio} \subseteq Nat

Names == [parts : Seq(Parts), slash : BOOLEAN]
Keys == Seq(Parts)

Safe(name) ==
    /\ name.parts # <<>>
    /\ \A i \in DOMAIN name.parts : name.parts[i] \notin Unsafe

\* The portable comparison key of a safe name; a final slash does not count.
Key(name) == [i \in DOMAIN name.parts |-> Fold[name.parts[i]]]

Ancestors(key) == {SubSeq(key, 1, n) : n \in 1 .. Len(key) - 1}

\* Mutated form of BelowFile: only the direct parent is looked up.
BelowFileDirectly(keys, files) ==
    \E key \in keys : Len(key) > 1 /\ SubSeq(key, 1, Len(key) - 1) \in files

\* Some member would have to be created below a regular file.
BelowFile(keys, files) == \E key \in keys : Ancestors(key) \cap files # {}

-----------------------------------------------------------------------------
(* The loop over the members of an archive.                                *)

VARIABLES
    place,   \* number of the member the running loop is at
    keys,    \* the keys of member_types
    files,   \* those of regular files
    total,   \* total_size
    found    \* numbers of the members with the name of the metadata file

members == <<place, keys, files, total, found>>

NoSize == -1   \* the archive does not compress members one by one

\* What is asked of an archive: its root, the name of its metadata file, and
\* whether every member (an sdist) or only a .dist-info (a wheel) is bound to it.
Rules == [root : Parts, metadata : Parts, single : BOOLEAN]

Bound(member, rules) ==
    LET root == Head(member.name.parts)
    IN  (rules.single \/ Fold[root] \in DistInfo) => root = rules.root

\* Mutated form of WithinLimits: the total is compared before it is updated.
WithinLimitsBefore(member) ==
    /\ place <= MaxMembers
    /\ member.size <= MaxMember
    /\ member.csize # NoSize /\ member.size > 0 =>
          member.csize > 0 /\ member.size <= member.csize * MaxRatio
    /\ total <= MaxTotal

WithinLimits(member) ==
    /\ place <= MaxMembers
    /\ member.size <= MaxMember
    /\ member.csize # NoSize /\ member.size > 0 =>
          member.csize > 0 /\ member.size <= member.csize * MaxRatio
    /\ total + member.size <= MaxTotal

Admissible(member, rules) ==
    /\ Safe(member.name)
    /\ Key(member.name) \notin keys
    /\ member.file # member.dir
    /\ Bound(member, rules)
    /\ WithinLimits(member)

StartMembers ==
    /\ place' = 1 /\ keys' = {} /\ files' = {} /\ total' = 0 /\ found' = {}

Admit(member, rules) ==
    LET key == Key(member.name)
        parts == member.name.parts
    IN  /\ place' = place + 1
        /\ keys' = keys \cup {key}
        /\ files' = IF member.file THEN files \cup {key} ELSE files
        /\ total' = total + member.size
        /\ found' = IF parts[Len(parts)] = rules.metadata THEN found \cup {place} ELSE found

\* After the loop: the topology, the overall ratio and the metadata member.
Complete(list, size, rules) ==
    /\ ~BelowFile(keys, files)
    /\ list # <<>> /\ total <= size * MaxRatio
    /\ \E i \in DOMAIN list :
          /\ found = {i}
          /\ list[i].name = [parts |-> <<rules.root, rules.metadata>>, slash |-> FALSE]
          /\ list[i].file /\ list[i].size <= MaxMetadata
=============================================================================

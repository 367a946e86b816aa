---------------------------- MODULE MCDistribution ----------------------------
(***************************************************************************)
(* Distribution for model checking: wheels and sdists around every         *)
(* decision of the readers, each beside a good one of the other kind, and  *)
(* one good pair whose directory changes.                                  *)
(***************************************************************************)
EXTENDS Distribution, TLC

MCParts == {"info", "INFO", "pkg", "METADATA", "PKG-INFO", "a", "A", "b", "c", ".."}
MCFold == [p \in MCParts |-> CASE p = "INFO" -> "info" [] p = "A" -> "a" [] OTHER -> p]
MCWheelRules == [root |-> "info", metadata |-> "METADATA", single |-> FALSE]
MCSdistRules == [root |-> "pkg", metadata |-> "PKG-INFO", single |-> TRUE]

Named(parts) == [parts |-> parts, slash |-> FALSE]
Folder(parts) == [parts |-> parts, slash |-> TRUE]

-----------------------------------------------------------------------------
(* Sdists.  An item is a header with the blocks of its payload.            *)

Header(type, name, size) ==
    [kind |-> "header", type |-> type, name |-> name, size |-> size,
     proper |-> TRUE, path |-> NoPath, cut |-> FALSE]

Item(header) == <<header>> \o [i \in 1 .. (header.size + BlockSize - 1) \div BlockSize |-> Data]
File(name, size) == Item(Header("file", name, size))
Pax(path) == Item([Header("pax", Named(<<"b">>), 1) EXCEPT !.path = path])
Cut(type, name) == Item([Header(type, name, 1) EXCEPT !.cut = TRUE])

A == Named(<<"pkg", "a">>)
Items ==
    { File(A, 0), File(A, 2), File(A, 5), File(A, 6),
      File(Named(<<"pkg", "A">>), 1), File(Named(<<"pkg", "b">>), 4),
      File(Named(<<"pkg", "a", "b">>), 1), File(Named(<<"pkg", "a", "b", "c">>), 0),
      File(Folder(<<"pkg", "a">>), 0), File(Named(<<"pkg", "..">>), 0),
      File(Named(<<"a">>), 0), File(Named(<<"pkg", "a", "PKG-INFO">>), 1),
      Item(Header("old", A, 1)), Item(Header("old", Folder(<<"pkg", "a">>), 0)),
      Item(Header("dir", Folder(<<"pkg">>), 0)), Item(Header("dir", A, 0)),
      Item(Header("dir", A, 1)), Item(Header("other", A, 0)),
      Item([Header("file", A, 0) EXCEPT !.proper = FALSE]), <<Data>>,
      Pax(A), Pax(NoPath), Pax(Named(<<"..">>)),
      Pax(A) \o Cut("file", Named(<<"pkg", "b">>)),
      Pax(A) \o File(Named(<<"pkg", "b">>), 1),
      Pax(A) \o File(A, 0),
      Pax(Folder(<<"pkg", "a">>)) \o Cut("old", Folder(<<"pkg", "b">>)),
      Pax(Folder(<<"pkg", "a">>)) \o Cut("file", Named(<<"pkg", "b">>)) }

PkgInfos ==
    { File(Named(<<"pkg", "PKG-INFO">>), 2), File(Named(<<"pkg", "PKG-INFO">>), 4),
      File(Folder(<<"pkg", "PKG-INFO">>), 2),
      Pax(Folder(<<"pkg", "PKG-INFO">>)) \o Cut("file", Named(<<"pkg", "c">>)) }
PkgInfo == File(Named(<<"pkg", "PKG-INFO">>), 2)

Ending == <<Zero, Zero>>
Endings == {<<>>, <<Zero>>, Ending, <<Zero, Zero, Zero>>, <<Zero, Data>>, <<Zero, Zero, Data>>}
Tar(blocks) == [size |-> 20, intact |-> TRUE, blocks |-> blocks, approved |-> TRUE]

GoodSdist == Tar(PkgInfo \o Ending)

Sdists ==
    {Tar(PkgInfo \o i \o j \o Ending) : i, j \in Items}
    \cup {Tar(i \o j \o info \o Ending) : i, j \in Items, info \in {PkgInfo}}
    \cup {Tar(i \o info \o Ending) : i \in Items \cup {<<>>}, info \in PkgInfos}
    \cup {Tar(i \o PkgInfo \o ending) : i \in Items \cup {<<>>}, ending \in Endings}
    \cup {Tar([i \in 1 .. n |-> Header("dir", Folder([j \in 1 .. i |-> "pkg"]), 0)] \o Ending)
            : n \in {0, 4, 5}}
    \cup {Tar(Ending), Tar(PkgInfo \o Item(Header("file", A, 4)) \o Ending)}
    \cup {[GoodSdist EXCEPT !.size = size] : size \in {0, 3, 4, 5}}
    \cup {[GoodSdist EXCEPT !.intact = FALSE], [GoodSdist EXCEPT !.approved = FALSE]}
    \cup {Tar(PkgInfo \o [i \in 1 .. n |-> Zero]) : n \in 7 .. 9}

-----------------------------------------------------------------------------
(* Wheels.  A member is an entry of the directory with its local header.   *)

Entry(name, at, csize, size) ==
    [sound |-> TRUE, extra |-> "plain", name |-> name, offset |-> at, version |-> 20,
     form |-> "f", deferred |-> FALSE, mode |-> "none", crc |-> 7, csize |-> csize, size |-> size]

NoDescriptor == [signed |-> FALSE, crc |-> 0, csize |-> 0, size |-> 0]

\* The local header an entry calls for when its values are not left to a descriptor.
Plainly(e) ==
    [sound |-> TRUE, name |-> e.name, version |-> e.version, form |-> e.form,
     deferred |-> FALSE, crc |-> e.crc, csize |-> e.csize, size |-> e.size,
     extra |-> "plain", zip64 |-> NoValues, head |-> 2, descriptor |-> NoDescriptor,
     data |-> [crc |-> e.crc, size |-> e.size]]

Zip64(l) ==
    [l EXCEPT !.extra = "zip64", !.csize = Full, !.size = Full,
              !.zip64 = [csize |-> l.csize, size |-> l.size]]

Deferred(l, signed) ==
    [l EXCEPT !.deferred = TRUE, !.crc = 0, !.csize = 0, !.size = 0,
              !.descriptor = [signed |-> signed, crc |-> l.crc, csize |-> l.csize,
                              size |-> l.size]]

\* Pairs of an entry and its local header, for each form of header.
Forms(e) ==
    { [e |-> e, l |-> Plainly(e)], [e |-> e, l |-> Zip64(Plainly(e))] }
    \cup {[e |-> [e EXCEPT !.deferred = TRUE], l |-> Deferred(Plainly(e), s)] : s \in BOOLEAN}
    \cup {[e |-> [e EXCEPT !.deferred = TRUE],
           l |-> [Deferred(Plainly(e), TRUE) EXCEPT !.extra = "zip64"]]}
    \cup {[e |-> [e EXCEPT !.deferred = TRUE, !.version = 45],
           l |-> [Deferred(Plainly(e), TRUE) EXCEPT !.extra = "zip64", !.version = 45,
                                                     !.csize = Full, !.size = Full]]}

EntryEdits(e) ==
    {e, [e EXCEPT !.sound = FALSE], [e EXCEPT !.extra = "zip64"], [e EXCEPT !.size = Full],
     [e EXCEPT !.version = 10], [e EXCEPT !.form = "g"], [e EXCEPT !.deferred = ~@],
     [e EXCEPT !.crc = 8], [e EXCEPT !.csize = @ + 1], [e EXCEPT !.csize = 9],
     [e EXCEPT !.csize = 0], [e EXCEPT !.size = @ + 1], [e EXCEPT !.size = @ - 1],
     [e EXCEPT !.offset = 0], [e EXCEPT !.offset = 1], [e EXCEPT !.offset = 50]}
    \cup {[e EXCEPT !.mode = mode] : mode \in {"file", "dir", "link"}}

LocalEdits(l) ==
    {l, [l EXCEPT !.sound = FALSE], [l EXCEPT !.name = Named(<<"c">>)],
     [l EXCEPT !.version = 10], [l EXCEPT !.deferred = ~@], [l EXCEPT !.crc = 8],
     [l EXCEPT !.csize = @ + 1], [l EXCEPT !.size = Full], [l EXCEPT !.head = 3],
     [l EXCEPT !.extra = "broken"], [l EXCEPT !.extra = "plain"], [l EXCEPT !.zip64.size = 9],
     [l EXCEPT !.data.crc = 8], [l EXCEPT !.data.size = @ - 1], [l EXCEPT !.data.size = @ + 1]}
    \cup {[l EXCEPT !.descriptor.crc = 8], [l EXCEPT !.descriptor.size = 9],
          [l EXCEPT !.descriptor.signed = ~@]}

EndRecord(at, dir) ==
    [at |-> at, comment |-> 0, disks |-> 1, entries |-> Len(dir), offset |-> at - Len(dir),
     dir |-> dir]

EndEdits(end) ==
    {end, [end EXCEPT !.disks = 2], [end EXCEPT !.entries = @ + 1],
     [end EXCEPT !.entries = @ - 1], [end EXCEPT !.entries = 5], [end EXCEPT !.offset = Full],
     [end EXCEPT !.offset = @ - 1], [end EXCEPT !.comment = 1]}

Zip(ends, local) ==
    [size |-> 60, ends |-> ends, local |-> local, approved |-> TRUE]

Meta == Entry(Named(<<"info", "METADATA">>), 0, 1, 2)
MetaEnd == 3   \* the word after it
Room(m) ==
    m.l.head + m.e.csize +
      (IF m.l.deferred THEN DescriptorLength(m.l.extra = "zip64", m.l.descriptor.signed) ELSE 0)

\* METADATA and one more member; the end record is the last thing in the file.
Pair(m, e, l, order) ==
    LET at == MetaEnd + Room(m) + 2
        dir == IF order THEN <<Meta, e>> ELSE <<e, Meta>>
    IN  [Zip(<<EndRecord(at, dir)>>, (0 :> Plainly(Meta)) @@ (MetaEnd :> l))
           EXCEPT !.size = at + EndSize]

Member2 == Entry(Named(<<"a">>), MetaEnd, 2, 3)

\* Names and sizes for a second and a third member.
Alone(name, size) == Entry(name, 0, (size + 1) \div 2, size)
Others ==
    {Alone(Named(<<"a">>), 5), Alone(Named(<<"A">>), 1), Alone(Named(<<"a", "b">>), 0),
     Alone(Named(<<"a", "b", "c">>), 0), Alone(Folder(<<"a">>), 0), Alone(Named(<<"c">>), 3),
     Alone(Named(<<"b">>), 2), Alone(Named(<<"a", "METADATA">>), 1),
     Alone(Named(<<"INFO", "a">>), 1), Alone(Named(<<"info", "METADATA", "c">>), 1),
     Alone(Named(<<"..">>), 0), [Alone(Folder(<<"c">>), 0) EXCEPT !.mode = "dir"],
     Alone(Named(<<"b">>), 6)}

\* The third member begins at the end of the second one, or overlap words before.
Triple(a, b, overlap) ==
    LET e2 == [a EXCEPT !.offset = MetaEnd]
        e3 == [b EXCEPT !.offset = MetaEnd + 2 + a.csize - overlap]
        at == e3.offset + 2 + b.csize + 3
        local == (0 :> Plainly(Meta)) @@ (e2.offset :> Plainly(e2)) @@ (e3.offset :> Plainly(e3))
    IN  [Zip(<<EndRecord(at, <<e2, e3, Meta>>)>>, local) EXCEPT !.size = at + EndSize]

GoodPlain == [e |-> Member2, l |-> Plainly(Member2)]
GoodWheel == Pair(GoodPlain, Member2, Plainly(Member2), TRUE)
GoodEnd == GoodWheel.ends[1]

\* A second record in the comment of the first, or in what precedes the first.
TwoEnds(first, second, comment) ==
    [GoodWheel EXCEPT
       !.ends = <<[first EXCEPT !.comment = comment],
                  [second EXCEPT !.at = first.at + EndSize + 1]>>,
       !.size = first.at + 2 * EndSize + 1]

Wheels ==
    UNION {{Pair(m, e, l, order) : e \in EntryEdits(m.e), l \in LocalEdits(m.l),
                                   order \in BOOLEAN} : m \in Forms(Member2)}
    \cup {Triple(a, b, 0) : a, b \in Others}
    \cup {Triple(Alone(Named(<<"c">>), 3), b, overlap) : b \in Others, overlap \in 1 .. 3}
    \cup {[GoodWheel EXCEPT !.ends = <<end>>] : end \in EndEdits(GoodEnd)}
    \cup {[GoodWheel EXCEPT !.size = @ + 1], [GoodWheel EXCEPT !.size = 1],
          [GoodWheel EXCEPT !.ends = <<>>], [GoodWheel EXCEPT !.approved = FALSE],
          [GoodWheel EXCEPT !.ends = <<EndRecord(0, <<>>)>>]}
    \cup {TwoEnds(GoodEnd, second, comment) :
            comment \in {0, EndSize + 1},
            second \in UNION {EndEdits(end) : end \in {GoodEnd,
                           [GoodEnd EXCEPT !.dir = <<Meta>>], [GoodEnd EXCEPT !.dir = <<>>],
                           [GoodEnd EXCEPT !.offset = @ + 3]}}}

MCBuilds ==
    {[wheel |-> w, sdist |-> GoodSdist, changes |-> 0] : w \in Wheels}
    \cup {[wheel |-> GoodWheel, sdist |-> s, changes |-> 0] : s \in Sdists}
    \cup {[wheel |-> GoodWheel, sdist |-> GoodSdist, changes |-> 2]}
=============================================================================

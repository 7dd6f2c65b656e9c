------------------------------ MODULE RootFile ------------------------------
(***************************************************************************)
(* The rootfile crate: the builder of out.root (lib.rs), the layout and      *)
(* emission of the file image (file.rs), and the reader that re-parses it     *)
(* (reader.rs).                                                              *)
(*                                                                           *)
(* An object is [class, name, title, body], its body the labels of its axis   *)
(* and its members, of one byte each: only lengths matter to the layout.  The  *)
(* image is the sequence of records in the order they are emitted; what a     *)
(* record says of its own place (seek, nbytes) comes from the layout, where   *)
(* it really is from the lengths of the records before it.                    *)
(***************************************************************************)
EXTENDS Integers, Sequences, SequencesExt

CONSTANTS MaxKeyLen,  \* the largest TKey, 65535 in the code
          MaxFile     \* kStartBigFile

KeyFixed == 26
DirHeaderLen == 60
FBegin == 100

\* WBuf::pstring_len and keylen.
StringLen(s) == Len(s) + (IF Len(s) < 255 THEN 1 ELSE 5)
KeyLen(class, name, title) == KeyFixed + StringLen(class) + StringLen(name) + StringLen(title)

(***************************************************************************)
(* The builder: directories of objects and subdirectories, in order.        *)
(***************************************************************************)
BodyLen(b) == Len(b.labels) + Len(b.members)
NewDir(name) == [name |-> name, objs |-> <<>>, subs |-> <<>>]
Object(class, name, title, body) == [class |-> class, name |-> name, title |-> title, body |-> body]

Taken(d, name) == \/ \E i \in DOMAIN d.objs : d.objs[i].name = name
                  \/ \E i \in DOMAIN d.subs : d.subs[i].name = name

\* check_key and dir_mut in one walk: <<the new directory>>, or <<>> when the
\* object is rejected.  A subdirectory is made on demand.
RECURSIVE AddAt(_, _, _)
AddAt(d, path, obj) ==
    IF path = <<>>
    THEN IF obj.name = "" \/ Taken(d, obj.name) \/ KeyLen(obj.class, obj.name, obj.title) > MaxKeyLen
         THEN <<>> ELSE <<[d EXCEPT !.objs = Append(@, obj)]>>
    ELSE LET comp == Head(path)
             known == {i \in DOMAIN d.subs : d.subs[i].name = comp}
             sub == IF known = {} THEN NewDir(comp) ELSE d.subs[CHOOSE i \in known : TRUE]
             below == AddAt(sub, Tail(path), obj)
         IN  IF \/ comp = "" \/ KeyLen("TDirectory", comp, comp) > MaxKeyLen
                \/ \E i \in DOMAIN d.objs : d.objs[i].name = comp
                \/ below = <<>>
             THEN <<>>
             ELSE IF known = {} THEN <<[d EXCEPT !.subs = Append(@, below[1])]>>
             ELSE <<[d EXCEPT !.subs[CHOOSE i \in known : TRUE] = below[1]]>>

\* One `add' of write_root_file: the objects in order, all of them or none (the
\* builder is cloned before the call and put back when it fails).
AllOrNone(d, r) == IF r = <<>> THEN [ok |-> FALSE, dir |-> d] ELSE [ok |-> TRUE, dir |-> r[1]]
AddAll(d, path, objs) ==
    AllOrNone(d, FoldLeft(LAMBDA f, o : IF f = <<>> THEN <<>> ELSE AddAt(f[1], path, o), <<d>>, objs))

(***************************************************************************)
(* Layout: the offsets of a directory's objects, then of each subdirectory   *)
(* and what it holds.                                                        *)
(***************************************************************************)
Placed(o, loc, off, klen) == [off |-> off, klen |-> klen, class |-> o.class, name |-> o.name,
                              title |-> o.title, data |-> o.body, dir |-> loc]
PlaceNext(acc, o, loc, klen) == [recs |-> Append(acc.recs, Placed(o, loc, acc.off, klen)), off |-> acc.off + klen + BodyLen(o.body)]
PlaceObjects(objs, loc, start) ==
    FoldLeft(LAMBDA acc, o : PlaceNext(acc, o, loc, KeyLen(o.class, o.name, o.title)), [recs |-> <<>>, off |-> start], objs)

\* layout_dir.  A directory record knows its own objects and its children's places.
SubdirKey(name) == KeyLen("TDirectory", name, name)
RECURSIVE Layout(_, _, _, _)
Below(acc, r) == [objs |-> acc.objs \o r.objs, dirs |-> acc.dirs \o r.dirs, kids |-> Append(acc.kids, acc.off), off |-> r.off]
LayoutBelow(own, subs, loc) ==
    FoldLeft(LAMBDA acc, s : Below(acc, Layout(s, acc.off, loc, acc.off + SubdirKey(s.name) + DirHeaderLen)),
             [objs |-> own.recs, dirs |-> <<>>, kids |-> <<>>, off |-> own.off], subs)
DirRec(d, loc, parent, objs, kids) == [loc |-> loc, parent |-> parent, name |-> d.name, objs |-> objs, kids |-> kids,
                                       klen |-> IF loc = FBegin THEN 0 ELSE SubdirKey(d.name)]
LayoutDir(d, loc, parent, own, below) ==
    [objs |-> below.objs, dirs |-> <<DirRec(d, loc, parent, own.recs, below.kids)>> \o below.dirs, off |-> below.off]
LayoutOwn(d, loc, parent, own) == LayoutDir(d, loc, parent, own, LayoutBelow(own, d.subs, loc))
Layout(d, loc, parent, start) == LayoutOwn(d, loc, parent, PlaceObjects(d.objs, loc, start))

KeysName(dr, fileName) == IF dr.loc = FBegin THEN fileName ELSE dr.name
KeysKeyLen(dr, fileName) == IF dr.loc = FBegin THEN KeyLen("TFile", fileName, "")
                            ELSE KeyLen("TDirectory", dr.name, dr.name)
DirAt(dirs, loc) == dirs[CHOOSE i \in DOMAIN dirs : dirs[i].loc = loc]

\* Mutant: the keys of the subdirectories are not counted.
KeysDataShort(dr, dirs) == 4 + FoldLeft(LAMBDA n, o : n + o.klen, 0, dr.objs)

\* A keys list holds a count and its children's keys.
KeysDataLen(dr, dirs) ==
    4 + FoldLeft(LAMBDA n, o : n + o.klen, 0, dr.objs) + FoldLeft(LAMBDA n, l : n + DirAt(dirs, l).klen, 0, dr.kids)

PlaceKeyList(acc, dr, len) == [dirs |-> Append(acc.dirs, dr @@ [keysOff |-> acc.off, keysLen |-> len]), off |-> acc.off + len]
\* The keys lists follow the StreamerInfo record, one per directory.
PlaceKeys(dirs, fileName, start) ==
    FoldLeft(LAMBDA acc, dr :
               PlaceKeyList(acc, dr, KeysKeyLen(dr, fileName) + KeysDataLen(dr, dirs)),
             [dirs |-> <<>>, off |-> start], dirs)

(***************************************************************************)
(* Emission.  A record is its TKey (seek, nbytes, keylen, pdir, class, name, *)
(* title) and its data.                                                      *)
(***************************************************************************)
Rec(seek, klen, dlen, pdir, class, name, title, data) ==
    [seek |-> seek, nbytes |-> klen + dlen, klen |-> klen, pdir |-> pdir, class |-> class, name |-> name,
     title |-> title, data |-> data]

ObjRecord(o) == Rec(o.off, o.klen, BodyLen(o.data), o.dir, o.class, o.name, o.title, o.data)
SubdirRecord(dr) == Rec(dr.loc, dr.klen, DirHeaderLen, dr.parent, "TDirectory", dr.name, dr.name,
                        [keysLen |-> dr.keysLen, nameLen |-> dr.klen, dir |-> dr.loc, parent |-> dr.parent, keys |-> dr.keysOff])

\* Objects and subdirectories, interleaved by offset.
ByOffset(objs, dirs) ==
    SortSeq([i \in DOMAIN objs |-> ObjRecord(objs[i])] \o [i \in DOMAIN dirs |-> SubdirRecord(dirs[i])],
            LAMBDA a, b : a.seek < b.seek)

ChildKey(r) == [seek |-> r.seek, name |-> r.name, len |-> r.klen]
KeysRec(dr, fileName, kids, root) ==
    Rec(dr.keysOff, KeysKeyLen(dr, fileName), dr.keysLen - KeysKeyLen(dr, fileName),
        IF root THEN FBegin ELSE dr.parent, IF root THEN "TFile" ELSE "TDirectory",
        KeysName(dr, fileName), IF root THEN "" ELSE dr.name,
        [i \in DOMAIN kids |-> ChildKey(kids[i])])
KeysRecord(dr, dirs, fileName) ==
    KeysRec(dr, fileName, ByOffset(dr.objs, [i \in DOMAIN dr.kids |-> DirAt(dirs, dr.kids[i])]), dr.loc = FBegin)

\* streamerinfo_data: one more chunk per class the file holds.
StreamerLen(recs) == 21 + 14 + (IF \E i \in DOMAIN recs : recs[i].class = "TH2D" THEN 2 ELSE 0)
                             + (IF \E i \in DOMAIN recs : recs[i].data.labels # <<>> THEN 1 ELSE 0)

\* The file's own records: its name, the StreamerInfo and the list of free space.
NameKey(fileName) == KeyLen("TFile", fileName, "")
NameLen(fileName) == NameKey(fileName) + StringLen(fileName) + StringLen("")
InfoKey == KeyLen("TList", "StreamerInfo", "Doubly linked list")
FreeLen == 10
InfoLen(lay) == InfoKey + StreamerLen(lay.objs)

NameRecord(fileName, root) ==
    Rec(FBegin, NameKey(fileName), NameLen(fileName) - NameKey(fileName) + DirHeaderLen, 0, "TFile", fileName, "",
        [keysLen |-> root.keysLen, nameLen |-> NameLen(fileName), dir |-> FBegin, parent |-> 0, keys |-> root.keysOff])
InfoRecord(lay) == Rec(lay.off, InfoKey, StreamerLen(lay.objs), FBegin, "TList", "StreamerInfo", "Doubly linked list", <<>>)
FreeRecord(fileName, off, fend) == Rec(off, NameKey(fileName), FreeLen, FBegin, "TFile", fileName, "", <<fend, MaxFile>>)
Header(fileName, lay, off, fend) == [end |-> fend, free |-> off, freeLen |-> NameKey(fileName) + FreeLen, info |-> lay.off,
                                     infoLen |-> InfoLen(lay), nameLen |-> NameLen(fileName)]

\* build: the image, or <<>> when the small format cannot hold it.
Image(fileName, lay, dirs, off, fend) ==
    [header |-> Header(fileName, lay, off, fend),
     records |-> <<NameRecord(fileName, dirs[1])>> \o ByOffset(lay.objs, Tail(dirs)) \o <<InfoRecord(lay)>>
                 \o [i \in DOMAIN dirs |-> KeysRecord(dirs[i], dirs, fileName)] \o <<FreeRecord(fileName, off, fend)>>]
Fits(fileName, lay, dirs, off, fend) == IF fend >= MaxFile THEN <<>> ELSE <<Image(fileName, lay, dirs, off, fend)>>
Emit(fileName, lay, placed) == Fits(fileName, lay, placed.dirs, placed.off, placed.off + NameKey(fileName) + FreeLen)
EmitLayout(fileName, lay) == Emit(fileName, lay, PlaceKeys(lay.dirs, fileName, lay.off + InfoLen(lay)))
Build(fileName, root) == EmitLayout(fileName, Layout(root, FBegin, FBegin, FBegin + NameLen(fileName) + DirHeaderLen))

(***************************************************************************)
(* The reader.                                                              *)
(***************************************************************************)
\* What a record occupies: its key as written, and its data.
DataLen(r) == IF r.class \in {"TH1D", "TH2D", "TNamed"} THEN BodyLen(r.data) ELSE r.nbytes - r.klen
Occupies(r) == KeyLen(r.class, r.name, r.title) + DataLen(r)
Places(recs) == FoldLeft(LAMBDA ps, r : Append(ps, Last(ps) + Occupies(r)), <<FBegin>>, recs)

\* Pass 1: every key is where it says, and as long as it says.
KeySound(r, at, next) == r.seek = at /\ r.klen = KeyLen(r.class, r.name, r.title) /\ r.nbytes = next - at
KeysSoundAt(img, at) == /\ Last(at) = img.header.end
                        /\ \A i \in DOMAIN img.records : KeySound(img.records[i], at[i], at[i + 1])
KeysSound(img) == KeysSoundAt(img, Places(img.records))

RecordAt(img, off) == {i \in DOMAIN img.records : img.records[i].seek = off}

\* walk_dir: what a directory holds, and the records met.  A list is bad when it
\* points nowhere or into another directory, or is not as long as announced.
RECURSIVE Walk(_, _, _, _, _)
Bad(acc) == [acc EXCEPT !.ok = FALSE]
MeetObject(acc, i, r, path) ==
    [acc EXCEPT !.held = Append(@, <<path, Object(r.class, r.name, r.title, r.data)>>), !.met = @ \cup {i}]
MeetDir(acc, i, r, loc, sub) ==
    [ok |-> /\ r.data.dir = r.seek /\ r.data.parent = loc /\ r.data.nameLen = r.klen /\ sub.ok,
     held |-> acc.held \o sub.held, met |-> acc.met \cup {i} \cup sub.met]
Meet(img, acc, i, r, loc, path) ==
    IF r.pdir # loc THEN Bad(acc)
    ELSE IF r.class # "TDirectory" THEN MeetObject(acc, i, r, path)
    ELSE MeetDir(acc, i, r, loc, Walk(img, r.seek, r.data.keys, r.data.keysLen, Append(path, r.name)))
MeetAny(img, acc, is, loc, path) == IF is = {} THEN Bad(acc) ELSE Meet(img, acc, CHOOSE i \in is : TRUE, img.records[CHOOSE i \in is : TRUE], loc, path)
Visit(img, acc, k, loc, path) == IF acc.ok THEN MeetAny(img, acc, RecordAt(img, k.seek), loc, path) ELSE acc
WalkList(img, list, rec, loc, keysLen, path) ==
    IF rec.nbytes # keysLen \/ rec.nbytes - rec.klen # 4 + FoldLeft(LAMBDA n, k : n + k.len, 0, rec.data)
    THEN [ok |-> FALSE, held |-> <<>>, met |-> {}]
    ELSE FoldLeft(LAMBDA acc, k : Visit(img, acc, k, loc, path), [ok |-> TRUE, held |-> <<>>, met |-> list], rec.data)
WalkAt(img, list, loc, keysLen, path) ==
    IF list = {} THEN [ok |-> FALSE, held |-> <<>>, met |-> {}]
    ELSE WalkList(img, list, img.records[CHOOSE i \in list : TRUE], loc, keysLen, path)
Walk(img, loc, keys, keysLen, path) == WalkAt(img, RecordAt(img, keys), loc, keysLen, path)

\* parse: <<the objects with their paths>>, or <<>> when an invariant fails.
InfoSound(img, is) == is # {} /\ \A i \in is : img.records[i].class = "TList" /\ img.records[i].nbytes = img.header.infoLen
TopSound(hd, nameLen) == hd.dir = FBegin /\ hd.parent = 0 /\ hd.nameLen = nameLen
Reachable(img, met) == {1} \cup RecordAt(img, img.header.info) \cup RecordAt(img, img.header.free) \cup met = DOMAIN img.records
Reread(img, hd, walk) ==
    IF /\ KeysSound(img)
       /\ TopSound(hd, img.header.nameLen)
       /\ InfoSound(img, RecordAt(img, img.header.info)) /\ RecordAt(img, img.header.free) # {}
       /\ walk.ok /\ Reachable(img, walk.met)
    THEN <<walk.held>> ELSE <<>>
Parse(img) == Reread(img, img.records[1].data, Walk(img, FBegin, img.records[1].data.keys, img.records[1].data.keysLen, <<>>))

\* The objects of a builder with their paths, in the order of the file.
RECURSIVE AllObjects(_, _)
AllObjects(d, path) ==
    [i \in DOMAIN d.objs |-> <<path, d.objs[i]>>]
    \o FlattenSeq([i \in DOMAIN d.subs |-> AllObjects(d.subs[i], Append(path, d.subs[i].name))])
=============================================================================

---------------------------- MODULE FatDirectory ----------------------------
(***************************************************************************)
(* The directory helpers of labs/15-fat32/code: 8.3 names, which entries   *)
(* are free, how long file names are put together, and lookup.  A host     *)
(* (external) makes and removes files with and without a long name; the Pi *)
(* creates files with 8.3 names and lists the directory.  Characters are   *)
(* their codes.                                                            *)
(***************************************************************************)
EXTENDS Integers, Sequences, SequencesExt, FiniteSetsExt

CONSTANTS
  NDir,      \* entries of the directory
  HostFiles, \* [raw: 11 characters, lower: BOOLEAN, long: UTF-16 codes or <<>>]
  PiNames,   \* names the Pi is asked to create
  Parts      \* codes in the parts of a long name entry: <<5, 6, 2>>

VARIABLES
  dirs,      \* the directory: a sequence of entries
  files      \* history: the files there should be, first to 8.3 entry

dirvars == <<dirs, files>>

Space == 32
Dot == 46
E5 == 229
Bit(n, b) == (n \div 2^b) % 2 = 1
IsUpperOrDigit(c) == c \in 65 .. 90 \/ c \in 48 .. 57
Lowered(c) == IF c \in 65 .. 90 THEN c + 32 ELSE c
Spaces(n) == [i \in 1 .. n |-> Space]

\* An entry is an 8.3 one or part of a long name, told apart by attr.
Short(attr, name, lower) == [attr |-> attr, filename |-> name, lower |-> lower]
Unused == Short("none", <<0>> \o Spaces(10), FALSE)
is_lfn(d) == d.attr = "lfn"
-----------------------------------------------------------------------------
\* Rotate right and add, eight bits wide.
lfn_checksum(name) == FoldLeft(LAMBDA sum, c : ((sum % 2) * 128 + sum \div 2 + c) % 256, 0, name)

lfn_is_last(seqno) == Bit(seqno, 6)
lfn_is_first(seqno) == (IF Bit(seqno, 6) THEN seqno - 64 ELSE seqno) = 1
lfn_is_deleted(seqno) == \A b \in {0, 2, 5, 6, 7} : Bit(seqno, b)  \* & 0xe5

fat32_dirent_free(d) == IF is_lfn(d) THEN lfn_is_deleted(d.seqno) ELSE d.filename[1] \in {0, E5}

\* 8.3: the dot, if there is one, before the last three.
fat32_is_valid_name(name) ==
  LET n == Len(name)
  IN IF Dot \in Range(name)
     THEN /\ n \in 5 .. 12 /\ name[n - 3] = Dot
          /\ \A i \in 1 .. n : i # n - 3 => IsUpperOrDigit(name[i])
     ELSE n \in 1 .. 8 /\ \A i \in 1 .. n : IsUpperOrDigit(name[i])

fat32_dirent_set_name(name) ==
  LET n == Len(name)
      hasDot == Dot \in Range(name)
      base == SubSeq(name, 1, IF hasDot THEN n - 4 ELSE n)
  IN base \o Spaces(8 - Len(base)) \o (IF hasDot THEN SubSeq(name, n - 2, n) ELSE Spaces(3))

\* The base up to its last character that is no space; always a dot.
to_8dot3(p) ==
  LET used == {i \in 1 .. 8 : p[i] # Space}
  IN SubSeq(p, 1, Max(used)) \o <<Dot>> \o SubSeq(p, 9, 11)

fat32_dir_lookup(name, ds) ==
  LET found == {i \in DOMAIN ds : ~fat32_dirent_free(ds[i]) /\ ~is_lfn(ds[i]) /\ ds[i].filename = name}
  IN IF found = {} THEN -1 ELSE Min(found)
-----------------------------------------------------------------------------
\* UTF-8, by the table utf: how many bytes, and the bits of the first one.
codepoint_len(cp) ==
  IF cp = 0 THEN 0 ELSE IF cp <= 127 THEN 1 ELSE IF cp <= 2047 THEN 2 ELSE IF cp <= 65535 THEN 3 ELSE 4
lead == <<0, 192, 224, 240>>
bits_stored == <<7, 5, 4, 3>>

to_utf8(cp) ==
  LET n == codepoint_len(cp)
      sextet(i) == cp \div 64^(n - i)
  IN [i \in 1 .. n |-> IF i = 1 THEN lead[n] + (sextet(1) % 2^bits_stored[n]) ELSE 128 + (sextet(i) % 64)]

utf8_len(ch) == IF ch < 128 THEN 1 ELSE IF ch < 192 THEN 0 ELSE IF ch < 224 THEN 2 ELSE IF ch < 240 THEN 3 ELSE 4
to_cp(s) ==
  LET n == utf8_len(s[1])
  IN FoldLeft(LAMBDA cp, b : cp * 64 + (b % 64), s[1] % 2^bits_stored[n], SubSeq(s, 2, n))

\* Up to the terminator.
utf8_append(codes) ==
  LET ends == {i \in DOMAIN codes : codes[i] \in {0, 65535}}
      n == IF ends = {} THEN Len(codes) ELSE Min(ends) - 1
  IN FlattenSeq([i \in 1 .. n |-> to_utf8(codes[i])])

\* Fault: the parts of a name are read as they stand.
lfn_get_nameForward(s) == FlattenSeq([i \in DOMAIN s |-> FlattenSeq([j \in DOMAIN s[i].parts |-> utf8_append(s[i].parts[j])])])

\* The entries stand in the opposite order of the parts of the name.
lfn_get_name(s) ==
  LET r == Reverse(s)
  IN FlattenSeq([i \in DOMAIN r |-> FlattenSeq([j \in DOMAIN r[i].parts |-> utf8_append(r[i].parts[j])])])

\* What fat32_lfn_print asserts of the cnt entries s in front of an 8.3 name.
lfn_print_asserts(s, cksum) ==
  /\ Len(s) \in 1 .. 2
  /\ \A i \in DOMAIN s : ~lfn_is_deleted(s[i].seqno) /\ s[i].cksum = cksum
  /\ lfn_is_last(s[1].seqno) /\ lfn_is_first(s[Len(s)].seqno)

\* The name of the file that begins at entry i, and its 8.3 entry; together
\* with what fat32_lfn_print, which goes the same way, asserts besides.
fat32_dir_filename(ds, i) ==
  IF is_lfn(ds[i])
  THEN LET others == {k \in i + 1 .. Len(ds) : ~is_lfn(ds[k])}
           at == IF others = {} THEN 0 ELSE Min(others)
           s == SubSeq(ds, i, at - 1)
       IN IF at = 0 \/ ds[at].attr \notin {"dir", "archive"}
             \/ ~lfn_print_asserts(s, lfn_checksum(ds[at].filename))
          THEN [name |-> <<>>, at |-> 0]  \* an assertion fails
          ELSE [name |-> lfn_get_name(s), at |-> at]
  ELSE LET shown(c) == IF ds[i].lower THEN Lowered(c) ELSE c
           part(a, b) == [k \in 1 .. b - a + 1 |-> shown(ds[i].filename[a + k - 1])]
       IN [name |-> SelectSeq(part(1, 8), LAMBDA c : c # Space) \o <<Dot>> \o part(9, 11), at |-> i]

\* A listing: every entry that is not free, the parts of a name as one.
Listing(ds) ==
  LET from[i \in 1 .. Len(ds) + 1] ==
        IF i > Len(ds) THEN <<>>
        ELSE IF fat32_dirent_free(ds[i]) THEN from[i + 1]
        ELSE LET f == fat32_dir_filename(ds, i)
             IN IF f.at = 0 THEN << <<"panic">> >> ELSE << <<f.name, f.at>> >> \o from[f.at + 1]
  IN from[1]
-----------------------------------------------------------------------------
Init == dirs = [i \in 1 .. NDir |-> Unused] /\ files = {}

\* The codes of a long name in one entry, cut in parts: a terminator, then filler.
Cut(codes) ==
  LET whole == codes \o <<0>> \o [i \in 1 .. 13 |-> 65535]
      before(j) == FoldLeft(+, 0, SubSeq(Parts, 1, j - 1))
  IN [j \in DOMAIN Parts |-> SubSeq(whole, before(j) + 1, before(j) + Parts[j])]

\* The entries a host writes for a file: the last part of the name first.
Entries(f) ==
  LET per == FoldLeft(+, 0, Parts)
      cnt == (Len(f.long) + per - 1) \div per
      piece(k) == SubSeq(f.long, (k - 1) * per + 1, IF k = cnt THEN Len(f.long) ELSE k * per)
  IN [e \in 1 .. cnt |->
        LET k == cnt - e + 1
        IN [attr |-> "lfn", seqno |-> IF k = cnt THEN k + 64 ELSE k,
            cksum |-> lfn_checksum(f.raw), parts |-> Cut(piece(k))]]
     \o <<Short("archive", f.raw, f.lower)>>

\* A host wants consecutive free entries.
HostCreate ==
  \E f \in HostFiles, i \in 1 .. NDir :
    LET es == Entries(f)
        top == i + Len(es) - 1
    IN /\ \A g \in files : g.raw # f.raw
       /\ top <= NDir /\ \A k \in i .. top : fat32_dirent_free(dirs[k])
       /\ dirs' = [k \in DOMAIN dirs |-> IF k \in i .. top THEN es[k - i + 1] ELSE dirs[k]]
       /\ files' = files \cup {[raw |-> f.raw, lower |-> f.lower, long |-> f.long, first |-> i, at |-> top]}

\* It marks every entry of the file, in place.
HostDelete ==
  \E f \in files :
    /\ dirs' = [k \in DOMAIN dirs |->
                  IF k \notin f.first .. f.at THEN dirs[k]
                  ELSE IF k = f.at THEN [dirs[k] EXCEPT !.filename[1] = E5]
                  ELSE [dirs[k] EXCEPT !.seqno = E5]]
    /\ files' = files \ {f}

\* A client of the helpers on the Pi: a checked name no file has goes into the
\* first free entry.  fat32_create makes the check; the rest of it is left out
\* in the source.
PiCreate ==
  \E name \in PiNames :
    LET raw == fat32_dirent_set_name(name)
        free == {i \in DOMAIN dirs : fat32_dirent_free(dirs[i])}
    IN /\ fat32_is_valid_name(name) /\ fat32_dir_lookup(raw, dirs) = -1 /\ free # {}
       /\ dirs' = [dirs EXCEPT ![Min(free)] = Short("archive", raw, FALSE)]
       /\ files' = files \cup {[raw |-> raw, lower |-> FALSE, long |-> <<>>, first |-> Min(free), at |-> Min(free)]}

Next == HostCreate \/ HostDelete \/ PiCreate
-----------------------------------------------------------------------------
InOrder == SetToSortSeq(files, LAMBDA f, g : f.at < g.at)
Shown(f) == IF f.lower THEN [i \in 1 .. 11 |-> Lowered(f.raw[i])] ELSE f.raw
NameOf(f) ==
  IF f.long # <<>> THEN FlattenSeq([i \in DOMAIN f.long |-> to_utf8(f.long[i])])
  ELSE SelectSeq(SubSeq(Shown(f), 1, 8), LAMBDA c : c # Space) \o <<Dot>> \o SubSeq(Shown(f), 9, 11)

(* Whatever was created, removed and created again in the entries that      *)
(* became free, a listing shows the files there are, in order, each under   *)
(* its own name with no part of an older one, and no assertion of the       *)
(* helpers fails; lookup finds each of them and nothing else; names survive *)
(* the way to UTF-8 and the way to 8.3 and back (but for the dot and the    *)
(* spaces to_8dot3 adds to a name without extension).                       *)
DirectoryListed ==
  /\ Listing(dirs) = [k \in 1 .. Cardinality(files) |-> <<NameOf(InOrder[k]), InOrder[k].at>>]
  /\ \A f \in files : fat32_dir_lookup(f.raw, dirs) = f.at
  /\ \A f \in HostFiles : f.raw \notin {g.raw : g \in files} => fat32_dir_lookup(f.raw, dirs) = -1
  /\ \A f \in files : \A i \in DOMAIN f.long : to_cp(to_utf8(f.long[i])) = f.long[i]
  /\ \A name \in PiNames : fat32_is_valid_name(name) =>
       to_8dot3(fat32_dirent_set_name(name)) = IF Dot \in Range(name) THEN name ELSE name \o <<Dot>> \o Spaces(3)
=============================================================================

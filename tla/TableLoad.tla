------------------------------ MODULE TableLoad ------------------------------
(***************************************************************************)
(* The constructor of src/WIB1/AddressTable.cpp: LoadFile and ProcessLine   *)
(* of AddressTable_fileIO.cpp, AddEntry of AddressTable_item.cpp.  A table *)
(* is read line by line; a line that includes a file puts a prefix before  *)
(* the names and an offset on the addresses in it.                         *)
(*                                                                         *)
(* A name is the sequence of its parts between dots; "." is the empty one, *)
(* so the dots at the end of a name need no dropping.  A line is given by  *)
(* what its tokens say; a mask is the set of its bits.                     *)
(***************************************************************************)
EXTENDS Naturals, Sequences, FiniteSets, SequencesExt

CONSTANTS Size,          \* number of addresses, 2^16
          Bit,           \* the bits of a register
          Part, Upper,   \* the parts of names; boost::to_upper of each
          MaxFileLevel,  \* MAX_FILE_LEVEL, 10
          File, Top,     \* names of files; addressTableName
          Disks          \* the files there may be: from the names of those that are
                         \* found, directly or in WIBMOD_SHARE, to their lines

Address == 0..(Size - 1)
Item    == [address : Address, mask : SUBSET Bit, mode : SUBSET {"r", "w", "a"}]

\* A line without tokens; one with fewer than four, none of them a file; an item, with or
\* without a malformed user argument; an include.  long: it does not fit the buffer.
Line == [kind : {"blank", "short", "item", "include"}, name : Seq(Part), addr : Address,
         mask : SUBSET Bit, mode : SUBSET {"r", "w", "a"}, malformed : BOOLEAN,
         file : File, long : BOOLEAN]

VARIABLES disk,       \* the files
          stack,      \* the calls of LoadFile, the innermost last
          fileLevel,
          names,      \* nameItemMap
          status      \* "loading", "loaded", or the exception of the constructor

Exceptions == {"BAD_FILE", "INVALID_NAME", "BAD_TOKEN", "BAD_MODE", "NAME_COLLISION",
               "MAX_INCLUDE_FILE_DEPTH"}

vars == <<disk, stack, fileLevel, names, status>>

\* line is lineNumber, or 0 when the stream has failed without reaching its end.
Frame == [file : File, line : Nat, prefix : Seq(Part), offset : Address]

AsWritten(name)  == name
UpperCase(name)  == [k \in DOMAIN name |-> Upper[name[k]]]
ItemName(fr, l)  == UpperCase(fr.prefix \o l.name)
Offset(a, b)     == (a + b) % Size
ItemAddr(fr, l)  == Offset(fr.offset, l.addr)

Open(f, prefix, offset) == [file |-> f, line |-> 1, prefix |-> prefix, offset |-> offset]
SameLine(fr, l) == fr

\* After a line that does not fit its buffer nothing more can be read, and eof() is
\* never true.
NextLine(fr, l) == [fr EXCEPT !.line = IF l.long THEN 0 ELSE @ + 1]

Init == /\ disk \in Disks
        /\ fileLevel = 0
        /\ names = <<>>
        /\ IF Top \in DOMAIN disk
           THEN stack = <<Open(Top, <<>>, 0)>> /\ status = "loading"
           ELSE stack = <<>> /\ status = "BAD_FILE"
-----------------------------------------------------------------------------
top  == stack[Len(stack)]
Hung == status = "loading" /\ top.line = 0
Current == disk[top.file][top.line]

\* An exception leaves the constructor: there is no table.
Throw(e) == /\ status' = e
            /\ stack' = <<>>
            /\ names' = <<>>
            /\ UNCHANGED <<disk, fileLevel>>

Continue(l) == /\ stack' = [stack EXCEPT ![Len(stack)] = NextLine(top, l)]
               /\ UNCHANGED status

\* AddEntry: the address map is filled with the same items and not modelled.
AddEntry(name, item) ==
  IF {"w", "a"} \subseteq item.mode THEN Throw("BAD_MODE")
  ELSE IF name \in DOMAIN names THEN Throw("NAME_COLLISION")
  ELSE /\ names' = [n \in DOMAIN names \cup {name} |-> IF n = name THEN item ELSE names[n]]
       /\ Continue(Current)
       /\ UNCHANGED <<disk, fileLevel>>

Include(name, addr, f) ==
  IF fileLevel + 1 > MaxFileLevel THEN Throw("MAX_INCLUDE_FILE_DEPTH")
  ELSE IF f \notin DOMAIN disk THEN Throw("BAD_FILE")
  ELSE /\ fileLevel' = fileLevel + 1
       /\ stack' = [stack EXCEPT ![Len(stack)] = NextLine(top, Current)]
                     \o <<Open(f, name, addr)>>
       /\ UNCHANGED <<disk, names, status>>

ProcessLine ==
  /\ status = "loading"
  /\ top.line \in DOMAIN disk[top.file]
  /\ LET l    == Current
         name == ItemName(top, l)
         addr == ItemAddr(top, l)
     IN  \/ /\ l.kind # "blank"
            /\ name = <<>>
            /\ Throw("INVALID_NAME")
         \/ /\ l.kind = "blank" \/ (l.kind = "short" /\ name # <<>>)
            /\ Continue(l)
            /\ UNCHANGED <<disk, fileLevel, names>>
         \/ /\ l.kind = "include"
            /\ name # <<>>
            /\ Include(name, addr, l.file)
         \/ /\ l.kind = "item"
            /\ name # <<>>
            /\ IF l.malformed THEN Throw("BAD_TOKEN")
               ELSE AddEntry(name, [address |-> addr, mask |-> l.mask, mode |-> l.mode])

\* The end of a file; of an included one the line that includes it ends too.
NotCounted == fileLevel
Returned   == fileLevel - 1
EndOfFile ==
  /\ status = "loading"
  /\ top.line = Len(disk[top.file]) + 1
  /\ stack' = Front(stack)
  /\ IF Len(stack) = 1
     THEN status' = "loaded" /\ UNCHANGED fileLevel
     ELSE fileLevel' = Returned /\ UNCHANGED status
  /\ UNCHANGED <<disk, names>>

\* while (!inFile.eof()) with a stream that only fails.
Spin == Hung /\ UNCHANGED vars

Next == ProcessLine \/ EndOfFile \/ Spin
\* The constructor runs in the thread of its caller.
Spec == Init /\ [][Next]_vars /\ WF_vars(Next)
-----------------------------------------------------------------------------
TypeOK == /\ disk \in Disks
          /\ stack \in Seq(Frame)
          /\ fileLevel \in 0..MaxFileLevel
          /\ status = "loading" => fileLevel = Len(stack) - 1
          /\ DOMAIN names \subseteq Seq(Part)
          /\ \A n \in DOMAIN names : names[n] \in Item
          /\ status \in {"loading", "loaded"} \cup Exceptions
-----------------------------------------------------------------------------
(* What the files of d mean, without an order of reading them: a place is  *)
(* the way to a line, through the lines that include its file.             *)

Spots(d) == UNION {{<<f, k>> : k \in DOMAIN d[f]} : f \in DOMAIN d}
LineAt(d, s) == d[s[1]][s[2]]
Places(d) ==
  {p \in UNION {[1..n -> Spots(d)] : n \in 1..(MaxFileLevel + 1)} :
     /\ p[1][1] = Top
     /\ \A k \in 2..Len(p) : LET up == LineAt(d, p[k - 1])
                             IN  up.kind = "include" /\ up.file = p[k][1]}

\* What the lines on the way p add up to, line by line.
Along(d, p) ==
  LET w[k \in 0..Len(p)] ==
        IF k = 0 THEN [name |-> <<>>, addr |-> 0]
        ELSE [name |-> w[k - 1].name \o LineAt(d, p[k]).name,
              addr |-> w[k - 1].addr + LineAt(d, p[k]).addr]
  IN  w

Says(d, p)     == LineAt(d, p[Len(p)])
FullName(d, p) == LET n == Along(d, p)[Len(p)].name
                  IN  [k \in DOMAIN n |-> Upper[n[k]]]
FullAddr(d, p) == Along(d, p)[Len(p)].addr % Size
IsItem(d, p)   == Says(d, p).kind = "item"

FaultAt(d, p, e) ==
  LET l == Says(d, p)
  IN  \/ e = "INVALID_NAME" /\ l.kind # "blank" /\ FullName(d, p) = <<>>
      \/ /\ l.kind = "include"
         /\ \/ e = "MAX_INCLUDE_FILE_DEPTH" /\ Len(p) > MaxFileLevel
            \/ e = "BAD_FILE" /\ Len(p) <= MaxFileLevel /\ l.file \notin DOMAIN d
      \/ /\ l.kind = "item"
         /\ \/ e = "BAD_TOKEN" /\ l.malformed
            \/ e = "BAD_MODE" /\ {"w", "a"} \subseteq l.mode
            \/ /\ e = "NAME_COLLISION"
               /\ \E q \in Places(d) \ {p} : IsItem(d, q) /\ FullName(d, q) = FullName(d, p)

Faults(d) == {e \in Exceptions : \/ e = "BAD_FILE" /\ Top \notin DOMAIN d
                                 \/ \E p \in Places(d) : FaultAt(d, p, e)}

Meaning(d) == {<<FullName(d, p), [address |-> FullAddr(d, p), mask |-> Says(d, p).mask,
                                  mode |-> Says(d, p).mode]>> :
                 p \in {q \in Places(d) : IsItem(d, q)}}

FaultsOf  == [d \in Disks |-> Faults(d)]
MeaningOf == [d \in Disks |-> Meaning(d)]

\* A table loads if and only if nothing in its files is wrong, and then holds each item
\* of each of them, once for every way it is included; otherwise the constructor throws
\* what is wrong with one of them, and there is no table.
AsTheFilesSay ==
  /\ status = "loaded" => /\ FaultsOf[disk] = {}
                          /\ {<<n, names[n]>> : n \in DOMAIN names} = MeaningOf[disk]
  /\ status \notin {"loading", "loaded"} => status \in FaultsOf[disk] /\ names = <<>>

\* Reading ends, also if files include each other, unless a line is too long.
LoadEnds == status = "loading" ~> (status # "loading" \/ Hung)
=============================================================================

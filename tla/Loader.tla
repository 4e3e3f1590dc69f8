------------------------------- MODULE Loader -------------------------------
(***************************************************************************)
(* How a compiled program gets into memory: bin/coff2noff.c and            *)
(* bin/coff2flat.c convert the COFF file the linker made, the constructor  *)
(* of AddrSpace (userprog/addrspace.cc) copies a NOFF file into the file   *)
(* "virtual_memory", and load_program of bin/main.c and of bin/disasm.c    *)
(* read COFF files themselves.                                             *)
(*                                                                         *)
(* A COFF file is its section headers; byte j of a section of the n-th     *)
(* program is the value <<n, name, j>>, so a byte tells where it is from.  *)
(* Magic numbers and byte order are taken to be right.                     *)
(***************************************************************************)
EXTENDS Integers, Sequences, FiniteSets

CONSTANTS Layouts,        \* the section headers the linker may produce
          HeaderSize,     \* sizeof(NoffHeader)
          PageSize, UserStackSize, NumPhysPages,
          StackMargin,    \* the 16 bytes InitRegisters leaves above the stack
          MEMSIZE,        \* the memory of bin/main.c and bin/disasm.c
          FileLimit,      \* bound: no file or memory is longer
          MaxPrograms     \* bound: programs linked one after the other

VARIABLES coff,      \* the sections of the program last linked
          linked,    \* how many programs were linked
          noff,      \* the result of coff2noff
          flat,      \* the result of coff2flat
          loaded,    \* the memory of main.c, and of disasm.c
          vm,        \* the file "virtual_memory"
          space      \* the newest AddrSpace

loaderVars == <<coff, linked, noff, flat, loaded, vm, space>>

Zero == <<0, "", 0>>
Zeroes == [p \in 0 .. FileLimit |-> Zero]
Nothing == [outcome |-> "none"]
Refused == [outcome |-> "refused"]

Bss == {".bss", ".sbss"}

\* The raw data of section s; a bss section has none, and s_scnptr is 0.
DataByte(s, j) == <<linked, s.name, j>>

\* file with the data of section s from position p on.
Written(file, p, s) ==
    [q \in DOMAIN file |-> IF q \in p .. p + s.size - 1 THEN DataByte(s, q - p) ELSE file[q]]

\* The state after doing Do for every section in turn.
After(Do(_, _), state, sections) ==
    LET upTo[k \in 0 .. Len(sections)] ==
            IF k = 0 THEN state ELSE Do(upTo[k - 1], sections[k])
    IN  upTo[Len(sections)]

-----------------------------------------------------------------------------
(* coff2noff                                                                *)

NoSegment == [virtualAddr |-> 0, inFileAddr |-> 0, size |-> 0]
EmptyNoff == [outcome |-> "made", code |-> NoSegment, initData |-> NoSegment,
              uninitData |-> NoSegment, file |-> Zeroes, inNoffFile |-> HeaderSize]

\* Mutant: the next segment is said to be where this one is.
Copied_NoAdvance(n, s) ==
    [n EXCEPT !.file = Written(@, n.inNoffFile, s)]
Copied(n, s) ==
    [n EXCEPT !.file = Written(@, n.inNoffFile, s), !.inNoffFile = @ + s.size]

Placed(n, s) == [virtualAddr |-> s.paddr, inFileAddr |-> n.inNoffFile, size |-> s.size]

\* The test of .bss and .sbss refuses them when they are contiguous.
AddBss(n, s) ==
    IF n.uninitData.size = 0
    THEN [n EXCEPT !.uninitData = [@ EXCEPT !.virtualAddr = s.paddr, !.size = s.size]]
    ELSE IF s.paddr = n.uninitData.virtualAddr + n.uninitData.size THEN Refused
    ELSE [n EXCEPT !.uninitData.size = @ + s.size]

NoffSection(n, s) ==
    CASE n = Refused \/ s.size = 0 -> n
      [] n # Refused /\ s.size # 0 /\ s.name = ".text" ->
            [Copied(n, s) EXCEPT !.code = Placed(n, s)]
      [] n # Refused /\ s.size # 0 /\ s.name \in {".data", ".rdata"} ->
            IF n.initData.size # 0 THEN Refused
            ELSE [Copied(n, s) EXCEPT !.initData = Placed(n, s)]
      [] n # Refused /\ s.size # 0 /\ s.name \in Bss -> AddBss(n, s)
      [] OTHER -> Refused

Coff2noff ==
    /\ coff # <<>> /\ noff = Nothing
    /\ noff' = After(NoffSection, EmptyNoff, coff)
    /\ UNCHANGED <<coff, linked, flat, loaded, vm, space>>

-----------------------------------------------------------------------------
(* coff2flat: the sections one after the other, then a stack.               *)

FlatSection(f, s) ==
    [outcome |-> "made",
     top |-> IF s.paddr + s.size > f.top THEN s.paddr + s.size ELSE f.top,
     file |-> IF s.name \in Bss THEN f.file ELSE Written(f.file, f.length, s),
     length |-> IF s.name \in Bss THEN f.length ELSE f.length + s.size]

Coff2flat ==
    /\ coff # <<>> /\ flat = Nothing
    /\ LET f == After(FlatSection,
                      [outcome |-> "made", top |-> 0, file |-> Zeroes, length |-> 0], coff)
       IN  flat' = [f EXCEPT !.length = f.top + UserStackSize]
    /\ UNCHANGED <<coff, linked, noff, loaded, vm, space>>

-----------------------------------------------------------------------------
(* load_program: main.c looks at MEMSIZE after a section was copied,        *)
(* disasm.c before every byte.                                              *)

\* A section without raw data has no s_scnptr.
NoData(s) == s.name \in Bss \/ s.size = 0

LoadSection(m, s) ==
    CASE m = Refused \/ NoData(s)     -> m
      [] s.paddr + s.size >= MEMSIZE -> Refused
      [] OTHER -> [m EXCEPT !.mem = Written(@, s.paddr, s)]

\* disasm.c, before it stores a byte.
TooSmall(pc) == pc >= MEMSIZE

load_section(m, s) ==
    CASE m = Refused \/ NoData(s)          -> m
      [] TooSmall(s.paddr + s.size - 1)   -> Refused
      [] OTHER -> [m EXCEPT !.mem = Written(@, s.paddr, s)]

EmptyMemory == [outcome |-> "made", mem |-> Zeroes]
load_programMain == After(LoadSection, EmptyMemory, coff)
load_programDisasm == After(load_section, EmptyMemory, coff)

LoadProgram ==
    /\ coff # <<>> /\ loaded = Nothing
    /\ loaded' = [outcome |-> "loaded", main |-> load_programMain, disasm |-> load_programDisasm]
    /\ UNCHANGED <<coff, linked, noff, flat, vm, space>>

-----------------------------------------------------------------------------
(* AddrSpace::AddrSpace and InitRegisters.                                  *)

SpaceSize(n) == n.code.size + n.initData.size + n.uninitData.size + UserStackSize

numPages(n) == (SpaceSize(n) + PageSize - 1) \div PageSize

\* One byte after the other, from the NOFF file to "virtual_memory".
CopySegment(file, n, seg) ==
    [q \in DOMAIN file |-> IF q \in seg.virtualAddr .. seg.virtualAddr + seg.size - 1
                           THEN n.file[seg.inFileAddr + q - seg.virtualAddr] ELSE file[q]]

InitRegisters(pages) ==
    [PC |-> 0, NextPC |-> 4, Stack |-> pages * PageSize - StackMargin]

\* "virtual_memory" is created by the first program and then used by all.  A
\* program with too many pages fails an assertion.
AddrSpace ==
    /\ noff # Nothing /\ noff # Refused /\ space.program # linked
    /\ numPages(noff) <= NumPhysPages
    /\ vm' = CopySegment(CopySegment(vm, noff, noff.code), noff, noff.initData)
    /\ space' = [program |-> linked, size |-> numPages(noff) * PageSize,
                 registers |-> InitRegisters(numPages(noff))]
    /\ UNCHANGED <<coff, linked, noff, flat, loaded>>

-----------------------------------------------------------------------------

LoaderInit ==
    /\ coff = <<>> /\ linked = 0
    /\ noff = Nothing /\ flat = Nothing /\ loaded = Nothing
    /\ vm = Zeroes
    /\ space = [program |-> 0, size |-> 0]

\* The linker makes another program.
Link(layout) ==
    /\ linked < MaxPrograms
    /\ linked' = linked + 1
    /\ coff' = layout
    /\ noff' = Nothing /\ flat' = Nothing /\ loaded' = Nothing
    /\ UNCHANGED <<vm, space>>

LoaderNext ==
    \/ \E l \in Layouts : Link(l)
    \/ Coff2noff \/ Coff2flat \/ LoadProgram \/ AddrSpace

LoaderSpec == LoaderInit /\ [][LoaderNext]_loaderVars

-----------------------------------------------------------------------------
(* What a program relies on.                                                *)

Section(name) == CHOOSE s \in {coff[k] : k \in DOMAIN coff} : s.name = name
Sections == {coff[k] : k \in DOMAIN coff}
Holds(file, s) == \A j \in 0 .. s.size - 1 : file[s.paddr + j] = DataByte(s, j)

\* Uninitialized data in two pieces with something between them.
Apart ==
    /\ Section(".sbss").size > 0 /\ Section(".bss").size > 0
    /\ Section(".bss").paddr # Section(".sbss").paddr + Section(".sbss").size

\* When AddrSpace has loaded a program, every byte of its code and initialized
\* data is at its address in virtual_memory, through the NOFF file and
\* whatever program used virtual_memory before.
ImageExact ==
    space.program = linked /\ linked > 0 =>
        \A s \in Sections : s.name \notin Bss => Holds(vm, s)

\* The segments of a loaded program lie below its stack, and the stack within
\* its pages.  coff2noff's inverted test lets pass two bss pieces that are
\* apart, whose end is then counted too low, and no others.
SegmentsFit ==
    space.program = linked /\ linked > 0 =>
        /\ space.registers.Stack < space.size
        /\ \A s \in Sections :
              s.size > 0 /\ s.paddr + s.size > space.size - UserStackSize => Apart
        /\ Section(".sbss").size > 0 /\ Section(".bss").size > 0 => Apart

\* The flat file and the memories of main.c and disasm.c hold the same program
\* at the same addresses, and nothing is written past MEMSIZE; main.c refuses
\* what disasm.c refuses, and also a program that just fits.
LoadersAgree ==
    loaded # Nothing =>
        /\ loaded.disasm = Refused => loaded.main = Refused
        /\ loaded.main # Refused => loaded.main = loaded.disasm
        /\ loaded.disasm # Refused =>
              /\ \A p \in MEMSIZE .. FileLimit : loaded.disasm.mem[p] = Zero
              /\ flat # Nothing => loaded.disasm.mem = flat.file
              /\ \A s \in Sections : s.name \notin Bss => Holds(loaded.disasm.mem, s)

\* A program is in memory as it was linked, whichever way it got there.
LoadedExact == ImageExact /\ SegmentsFit /\ LoadersAgree
=============================================================================

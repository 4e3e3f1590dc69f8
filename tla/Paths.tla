------------------------------- MODULE Paths --------------------------------
(***************************************************************************)
(* How a path is taken apart, in two ways that have to agree: absPath,     *)
(* getAbsDir and getRealName of filesys/directory.h look for the last      *)
(* slash, the recursion of Directory::FindIndex (filesys/directory.cc)     *)
(* descends at every first one.  A name is a sequence of characters, the   *)
(* first at index 0 of the code being the first of the sequence.           *)
(***************************************************************************)
EXTENDS Integers, Sequences

CONSTANTS Letters,      \* the characters that are not a slash
          MaxName       \* bound: the length of a name

VARIABLES name,         \* the path of the caller
          rest,         \* what the current FindIndex was called with
          descended     \* the directories it went through

pathVars == <<name, rest, descended>>

Slash == "/"
Names == UNION {[1 .. n -> Letters \cup {Slash}] : n \in 1 .. MaxName}

\* The indices that "for (i = len - 1; i > 0; i--)" finds a slash at.
Slashes(s) == {i \in 1 .. Len(s) - 1 : s[i + 1] = Slash}
str_p(s) == CHOOSE i \in Slashes(s) : \A j \in Slashes(s) : j <= i

absPath(s) == Slashes(s) # {}
getAbsDir(s) == SubSeq(s, 1, str_p(s))

\* Mutant: the slash stays in front of the name.
getRealName_WithSlash(s) == IF absPath(s) THEN SubSeq(s, str_p(s) + 1, Len(s)) ELSE s
getRealName(s) == IF absPath(s) THEN SubSeq(s, str_p(s) + 2, Len(s)) ELSE s

\* FindIndex looks from index 0 on.
FirstSlash(s) ==
    CHOOSE i \in 0 .. Len(s) - 1 : s[i + 1] = Slash /\ \A j \in 1 .. i : s[j] # Slash

PathsInit == name \in Names /\ rest = name /\ descended = <<>>

\* The call for the rest of the name in the directory named before the slash.
FindIndexDescends ==
    /\ \E i \in 1 .. Len(rest) : rest[i] = Slash
    /\ descended' = Append(descended, SubSeq(rest, 1, FirstSlash(rest)))
    /\ rest' = SubSeq(rest, FirstSlash(rest) + 2, Len(rest))
    /\ UNCHANGED name

PathsNext == FindIndexDescends
PathsSpec == PathsInit /\ [][PathsNext]_pathVars

-----------------------------------------------------------------------------

\* The names with slashes between them.
Joined(names) ==
    LET upTo[k \in 1 .. Len(names)] ==
            IF k = 1 THEN names[1] ELSE upTo[k - 1] \o <<Slash>> \o names[k]
    IN  upTo[Len(names)]

\* When FindIndex has descended as far as it does, it is looking for the name
\* getRealName gives, in the directory getAbsDir gives; a path that absPath
\* takes for a plain name is not descended into.  Only a name whose single
\* slash is its first character is seen differently.
SplitsAgree ==
    name # <<>> /\ (\A i \in 1 .. Len(rest) : rest[i] # Slash) =>
        \/ absPath(name) /\ rest = getRealName(name) /\ Joined(descended) = getAbsDir(name)
        \/ ~absPath(name) /\ descended = <<>> /\ rest = name
        \/ ~absPath(name) /\ name[1] = Slash /\ descended = <<<<>>>>
=============================================================================

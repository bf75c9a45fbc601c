-------------------------------- MODULE Texts --------------------------------
(***************************************************************************)
(* Names and paths where their characters matter: the order of strings,    *)
(* the escapes of the tab-separated files (src/repository/fact_file.rs,    *)
(* catalogue_file.rs) and the normal form of repository paths              *)
(* (src/repository/path.rs).  A text is a sequence of character codes.     *)
(***************************************************************************)
EXTENDS Orders

CONSTANT Malformed   \* what a parser answers when it fails

Text == Seq(Nat)

Tab == 9
Dash == 45
Dot == 46
Slash == 47
Zero == 48
Backslash == 92

(* Strings compare by their bytes; a proper prefix comes first.            *)
TextBefore(s, t) ==
  \E i \in DOMAIN t :
    /\ \A j \in 1..(i - 1) : j \in DOMAIN s /\ s[j] = t[j]
    /\ i \in DOMAIN s => s[i] < t[i]

-----------------------------------------------------------------------------
(* NUL, tab, newline, return and the backslash, and what follows the       *)
(* backslash in a file.                                                    *)
EscapeCode ==
  [c \in {0, Tab, 10, 13, Backslash} |->
     CASE c = 0 -> Zero [] c = Tab -> 116 [] c = 10 -> 110 [] c = 13 -> 114
       [] c = Backslash -> Backslash]

(* (altered) a backslash is written as it is                               *)
EscapedButBackslash(text) ==
  FlattenSeq([i \in DOMAIN text |->
    IF text[i] \in DOMAIN EscapeCode \ {Backslash}
      THEN <<Backslash, EscapeCode[text[i]]>> ELSE <<text[i]>>])

Escaped(text) ==
  FlattenSeq([i \in DOMAIN text |->
    IF text[i] \in DOMAIN EscapeCode THEN <<Backslash, EscapeCode[text[i]]>> ELSE <<text[i]>>])

(* The character that a code stands for.                                   *)
Meant(code) == CHOOSE c \in DOMAIN EscapeCode : EscapeCode[c] = code

(* A backslash that does not follow an escaping one.                       *)
Escapes(field, i) ==
  /\ field[i] = Backslash
  /\ \E n \in 0..(i - 1) :
       /\ n % 2 = 0
       /\ \A j \in (i - n)..(i - 1) : field[j] = Backslash
       /\ n < i - 1 => field[i - n - 1] # Backslash

(* Every escape must be complete and known.                                *)
Unescaped[field \in Text] ==
  LET escape == {i \in DOMAIN field : Escapes(field, i)}
      kept == {i \in DOMAIN field : i \notin escape}
  IN  IF \E i \in escape :
           i = Len(field) \/ \A c \in DOMAIN EscapeCode : EscapeCode[c] # field[i + 1]
        THEN Malformed
        ELSE FlattenSeq([i \in DOMAIN field |->
               IF i \notin kept THEN <<>>
               ELSE IF i - 1 \in escape THEN <<Meant(field[i])>> ELSE <<field[i]>>])

-----------------------------------------------------------------------------
Control(c) == c < 32 \/ c \in 127..159

Letter(c) == c \in 65..90 \/ c \in 97..122

(* What lies between the slashes of a path.                                *)
Components(path) == Parts(path, Slash)

Joined(components) == JoinedBy(components, Slash)

Absolute(path) ==
  \/ Head(path) = Slash
  \/ Len(path) > 1 /\ Letter(path[1]) /\ path[2] = 58

(* Backslashes separate too; empty and "." components are dropped.         *)
Slashed[path \in Text] ==
  [i \in DOMAIN path |-> IF path[i] = Backslash THEN Slash ELSE path[i]]

Names[path \in Text] ==
  Filtered(Components(path), Elements(Components(path)) \ {<<>>, <<Dot>>})

(* The normal form of a path; the repository itself is ".".                *)
Normalized[path \in Text] ==
  LET names == Names[Slashed[path]]
  IN  IF \/ path = <<>> \/ 0 \in Elements(path) \/ Absolute(Slashed[path])
         \/ <<Dot, Dot>> \in Elements(names)
         \/ \E i \in DOMAIN names : \E c \in Elements(names[i]) : Control(c)
        THEN Malformed
        ELSE IF names = <<>> THEN <<Dot>> ELSE Joined(names)
=============================================================================

---------------------------- MODULE MCMMInstall -----------------------------
(***************************************************************************)
(* Three profiles for the five of installUnix: two with the same block,    *)
(* which may be links to one file, and one with a block of its own.        *)
(***************************************************************************)
EXTENDS MMInstall

CONSTANTS none, mm, bashrc, zshrc, fish

MCProfiles == <<"posix", "posix", "fish">>
MCLinks ==
  {<<bashrc, zshrc, fish>>, <<bashrc, bashrc, fish>>}

\* A profile in every state an install may find it: absent, empty, without
\* and with a last newline, with this block, with an older one between text,
\* and with the two kinds of incomplete block.
Plain  == <<"text", Newline>>
Ours   == <<"text", Newline, Newline>> \o Block("posix") \o <<Newline>>
Older  == <<"text", Newline>> \o Block("older") \o <<Newline, "text", Newline>>
Firsts == {none, <<>>, <<"text">>, Plain, Ours, Older,
           <<"text", Newline, Start>>, <<End, "text", Start>>}

Disk(binary, b, z, f) ==
  [file \in {mm, bashrc, zshrc, fish} |->
     CASE file = mm -> binary [] file = bashrc -> b [] file = zshrc -> z [] OTHER -> f]

MCDisks ==
  [unix |-> {Disk(binary, b, Older, none) : binary \in Binaries \cup {none}, b \in Firsts}
              \cup {Disk(binary, Plain, z, <<"text">>) : binary \in {none, Mm}, z \in Firsts},
   windows |-> {Disk(binary, none, none, none) :
                  binary \in {none, Mm, [bytes |-> "prior", exec |-> TRUE]}}]
=============================================================================

------------------------------ MODULE ModuleArgs ------------------------------
(***************************************************************************)
(* The arguments of modules (utils.py): what a command line or a test      *)
(* gives, in one of several shapes, becomes a list of arguments for each   *)
(* module, with the defaults added.  A text is a sequence of words; the    *)
(* separator and its escaped form are words of their own.  Words that      *)
(* differ in case only are one word.                                       *)
(***************************************************************************)
EXTENDS Integers, Sequences, SequencesExt

CONSTANTS
    None,
    Semicolon, Escaped      \* ";" and "\;"

ASSUME WordsAssumption == Semicolon # Escaped

\* Python's idea of a list that is true.
Truthy(list) == list # None /\ list # <<>>

FixModules(modules, defaultModules) ==
    CASE modules = None -> defaultModules
      [] modules = <<>> -> None
      [] OTHER -> modules

\* The next word of a text, with the parts before it.
Take(parts, word) ==
    IF word = Semicolon THEN Append(parts, <<>>)
    ELSE [parts EXCEPT ![Len(parts)] =
            Append(@, IF word = Escaped THEN Semicolon ELSE word)]

\* What SelectSeq does, for it is not defined for the proofs.
NonEmpty(parts) ==
    FlattenSeq([k \in DOMAIN parts |-> IF parts[k] = <<>> THEN <<>> ELSE << parts[k] >>])

\* split_by_semicolon: the escape is dropped, and so are empty parts.
Parts(text) == NonEmpty(FoldLeft(Take, << <<>> >>, text))

AllParts(texts) == FlattenSeq([i \in DOMAIN texts |-> Parts(texts[i])])

\* The shapes: nothing, one text, a list of texts for a single module, a list
\* of such lists, and a list in which both occur.
IsPlain(args) == args.shape = "text" /\ Len(Parts(args.text)) = 1

Structured(args, haveSeqs) ==
    CASE args.shape = "nothing" -> None
      [] args.shape = "text" ->
           << IF IsPlain(args) THEN << args.text >> ELSE Parts(args.text) >>
      [] args.shape = "texts" -> << AllParts(args.texts) >>
      [] args.shape = "lists" ->
           IF haveSeqs THEN [i \in DOMAIN args.lists |-> AllParts(args.lists[i])]
                       ELSE args.lists

Key(arg) == Head(arg)

Keys(list) == {Key(list[k]) : k \in DOMAIN list}

\* The arguments of list that keys do not name.
Unnamed(list, keys) ==
    FlattenSeq([k \in DOMAIN list |->
                  IF Key(list[k]) \in keys THEN <<>> ELSE << list[k] >>])

\* How a call ends: with the arguments, with sys.exit, or with an IndexError;
\* and what it leaves of the list of defaults, which the caller shares.
Gives(args, defaults) == [how |-> "returned", args |-> args, defaults |-> defaults]
Fails(how, defaults) == [how |-> how, args |-> None, defaults |-> defaults]

\* _merge_by_words: only the defaults of the first module.
MergeByWords(text, defaults) ==
    << << text \o FlattenSeq(Unnamed(defaults[1], ToSet(text))) >> >>

\* Fault: a default is added unless it is given in the same words.
MergeByValue(args, given, defaults) ==
    [i \in DOMAIN args |->
        args[i] \o SelectSeq(defaults[i], LAMBDA arg : arg \notin ToSet(args[i]))]

\* _merge_by_dict: the lists that were added for modules without arguments
\* are one list, which gets the defaults of all of them.
MergeByDict(args, given, defaults) ==
    [i \in DOMAIN args |->
        IF i <= given
        THEN args[i] \o Unnamed(defaults[i], Keys(args[i]))
        ELSE FlattenSeq(SubSeq(defaults, given + 1, Len(args)))]

\* How many lists are missing: there ought to be as many as defaults, or else
\* as modules, if these are several.
Missing(modules, args, defaults) ==
    LET have == IF args = None THEN 0 ELSE Len(args)
        wanted == IF Truthy(defaults) THEN Len(defaults) ELSE have
    IN  IF modules # None /\ Len(modules) > 1
        THEN Len(modules) - wanted ELSE wanted - have

Extended(modules, args, defaults) ==
    LET n == Missing(modules, args, defaults)
    IN  IF n > 0
        THEN (IF args = None THEN <<>> ELSE args) \o [k \in 1..n |-> <<>>]
        ELSE args

\* Fault: the list of defaults itself is extended and returned.
DefaultsInPlace(modules, defaults) ==
    LET extended == Extended(modules, defaults, defaults)
    IN  Gives(extended, extended)

\* The defaults are copied before they are extended.
DefaultsCopied(modules, defaults) ==
    Gives(Extended(modules, defaults, defaults), defaults)

\* What is given is merged with the defaults.  A module with defaults and
\* beyond the given lists, which happens when these are not extended, is an
\* IndexError.
Merge(modules, args, haveSeqs, defaults) ==
    LET given == Structured(args, haveSeqs)
        extended == Extended(modules, given, defaults)
    IN  CASE Len(extended) > Len(defaults) -> Fails("exit", defaults)
          [] Len(extended) <= Len(defaults) /\ IsPlain(args) ->
               Gives(MergeByWords(args.text, defaults), defaults)
          [] OTHER ->
               IF \E i \in DOMAIN defaults : i > Len(extended) /\ defaults[i] # <<>>
               THEN Fails("raised", defaults)
               ELSE Gives(MergeByDict(extended, Len(given), defaults), defaults)

\* fix_modulesArgs.
FixModulesArgs(modules, args, defaults, haveSeqs) ==
    IF args.shape = "mixed" THEN Fails("exit", defaults)
    ELSE LET given == Structured(args, haveSeqs)
         IN  CASE ~Truthy(given) /\ Truthy(defaults) ->
                    DefaultsCopied(modules, defaults)
               [] ~Truthy(defaults) ->
                    Gives(Extended(modules, given, defaults), defaults)
               [] OTHER -> Merge(modules, args, haveSeqs, defaults)
================================================================================

------------------------------- MODULE Tokenizer --------------------------------
(***************************************************************************)
(* service/tokenizer.go: how names, tags, keywords and queries become the  *)
(* tokens that the index of Layer 3C is kept by.  A text is the sequence   *)
(* of words between its separators; of a word only its lower-case form     *)
(* matters and whether it is short, a stopword or a file extension.        *)
(* Weights are in tenths.                                                  *)
(***************************************************************************)
EXTENDS Integers, FiniteSets, Sequences

Seqs == INSTANCE SequencesExt

CONSTANTS
    Word,              \* the words that occur in texts
    Lower,             \* strings.ToLower: the token a word is the spelling of
    Short,             \* tokens of fewer than MinTokenLength bytes
    Stopwords,         \* stopwords
    FileExtensions,    \* fileExtensionStopwords
    MaxTokensPerField, \* the cap on the tokens of a text, and of a content
    Meta,              \* the ContentMeta that are indexed
    TokensReturned     \* FALSE: tokenizeWords drops its result ("return nil //temporary")

Token == {Lower[w] : w \in Word}

ASSUME TokenizerAssumption ==
    /\ DOMAIN Lower = Word /\ IsFiniteSet(Word)
    /\ MaxTokensPerField \in Nat \ {0}
    /\ TokensReturned \in BOOLEAN
    /\ \A m \in Meta : m.name.stem \in Seq(Word) /\ m.type \in Seq(Word)
                      /\ m.tags \subseteq Seq(Word) /\ m.keywords \subseteq Seq(Word)

------------------------------------------------------------------------------
(* The normalisation that index and query share.                           *)

Dropped(tok) == tok \in Short \cup Stopwords \cup FileExtensions

\* Where the loop finds a token that is neither dropped nor seen before.
Firsts(text) ==
    {i \in DOMAIN text : ~Dropped(Lower[text[i]])
                         /\ \A j \in 1..i - 1 : Lower[text[j]] # Lower[text[i]]}

\* The loop ends when it has kept as many as the cap allows.  Nothing that uses
\* the result depends on its order.
TokenizeWords(text) ==
    LET Kept == {i \in Firsts(text) :
                    Cardinality({j \in Firsts(text) : j < i}) < MaxTokensPerField}
    IN  IF TokensReturned THEN {Lower[text[i]] : i \in Kept} ELSE {}

TokenizeQuery(query) == TokenizeWords(query)

\* A name is what precedes its last dot and what follows it, which
\* filepath.Ext takes for an extension whatever it is.
TokenizeFilename(name) == TokenizeWords(name.stem)

------------------------------------------------------------------------------
(* TokenizeContentMeta: each token at the weight of its strongest source.  *)

Sources(meta) ==
    {<<TokenizeFilename(meta.name), 10>>}
    \cup {<<TokenizeWords(tag), 8>> : tag \in meta.tags}
    \cup {<<TokenizeWords(kw), 5>> : kw \in meta.keywords}
    \cup {<<TokenizeWords(meta.type), 3>>}

Seen(meta) ==
    LET weights(tok) == {s[2] : s \in {s \in Sources(meta) : tok \in s[1]}}
    IN  [tok \in UNION {s[1] : s \in Sources(meta)} |->
            CHOOSE w \in weights(tok) : \A v \in weights(tok) : v <= w]

\* The map is walked in any order and the walk stops at the cap: which tokens
\* of a content with many are kept is not determined.
TokenizeContentMeta == [meta \in Meta |->
    LET seen == Seen(meta)
        size == IF Cardinality(DOMAIN seen) < MaxTokensPerField
                THEN Cardinality(DOMAIN seen) ELSE MaxTokensPerField
    IN  {[tok \in kept |-> seen[tok]] :
            kept \in {some \in SUBSET DOMAIN seen : Cardinality(some) = size}}]
==============================================================================

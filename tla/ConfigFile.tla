------------------------------ MODULE ConfigFile ------------------------------
(* config.yml and the restarts around it: the first start writes the        *)
(* template; every start loads the file, replaces the line of an outdated   *)
(* empty list by a list, compares the file's keys with the template's,      *)
(* appends the lines of the missing ones and restarts; the web console      *)
(* replaces or deletes the file and restarts.  The operator edits the file  *)
(* at will, and the process may die anywhere.                               *)
(* The file is a sequence of lines, each known by its kind.  The lines that *)
(* give the YAML its structure are told apart, the others are Plain         *)
(* settings, two blanks deep.                                               *)
EXTENDS Naturals, Sequences

CONSTANTS
    CfgPlain,     \* keys of plain settings
    CfgOutside,   \* the contents an operator or the console gives the file
    CfgTemplate,  \* the content of the template
    CfgNoFile

\* Top-level lines; the list visual_prefixs, an entry of it ("- prefix") and
\* a key inside an entry (whiteList).
CfgStructure == {"version", "settings", "visual", "item", "white"}

\* Two more ways to write the list: empty with a blank before the colon,
\* which is replaced at start, and empty without one, which is not.
CfgLines == CfgStructure \cup {"visualOld", "visualInline"} \cup CfgPlain

ASSUME CfgAssumption ==
    /\ CfgPlain \cap (CfgStructure \cup {"visualOld", "visualInline"}) = {}
    /\ CfgTemplate \in Seq(CfgLines)
    /\ CfgOutside \subseteq Seq(CfgLines)
    /\ CfgNoFile \notin Seq(CfgLines)

VARIABLES
    cfgFile,   \* the lines of config.yml, CfgNoFile when there is none
    cfgPc,     \* what the process is doing
    cfgBuf,    \* the content os.WriteFile is writing
    cfgTodo,   \* the missing keys still to be appended
    cfgRuns,   \* history: completions since the file was last changed from outside
    cfgWhole   \* history: the content that was written whole last has the skeleton

cfgVars == <<cfgFile, cfgPc, cfgBuf, cfgTodo, cfgRuns, cfgWhole>>

-----------------------------------------------------------------------------
(* What the loader makes of a content.                                      *)

CfgKeyOf(l) == IF l \in {"visualOld", "visualInline"} THEN "visual" ELSE l

\* The texts before the first colon of each line, at any depth.
CfgKeys(f) == {CfgKeyOf(f[i]) : i \in DOMAIN f}

\* Variant: only lines that are not indented count as keys of the file.
CfgMissingUnindented(f) == (CfgStructure \cup CfgPlain) \ (CfgKeys(f) \cap {"version", "settings"})

\* The template's keys without a line.  (A file in which every value is zero also
\* misses "settings"; the contents here have values.)
CfgMissing(f) == (CfgStructure \cup CfgPlain) \ CfgKeys(f)

\* The last top-level line before line i is "settings".
CfgInSettings(f, i) ==
    \E h \in 1 .. i - 1 : /\ f[h] = "settings"
                          /\ \A k \in h .. i - 1 : f[k] # "version"

\* yaml.Unmarshal takes the content: no key twice, every setting under
\* "settings", an entry right after the list's key or the entry before it,
\* and an entry's key right after the entry.
CfgParses(f) ==
    /\ \A i, j \in DOMAIN f :
          (CfgKeyOf(f[i]) = CfgKeyOf(f[j]) /\ f[i] \notin {"item", "white"}) => i = j
    /\ \A i \in DOMAIN f :
          /\ f[i] \notin {"version", "settings"} => CfgInSettings(f, i)
          /\ f[i] = "item" => f[i - 1] \in {"visual", "item", "white"}
          /\ f[i] = "white" => f[i - 1] = "item"

\* Nothing structural is missing and the settings come last.
CfgSkeleton(f) ==
    /\ CfgParses(f)
    /\ CfgStructure \subseteq CfgKeys(f)
    /\ CfgInSettings(f, Len(f) + 1)

\* replaceVisualPrefixsLine.  A content has at most one such line that loads.
CfgOutdated(f) == \E i \in DOMAIN f : f[i] = "visualOld"

CfgHeal(f) ==
    LET i == CHOOSE k \in DOMAIN f : f[k] = "visualOld"
    IN SubSeq(f, 1, i - 1) \o <<"visual", "item", "white">> \o SubSeq(f, i + 1, Len(f))

-----------------------------------------------------------------------------
CfgInit == /\ cfgFile \in CfgOutside \cup {CfgNoFile}
           /\ cfgPc = "down"
           /\ cfgBuf = <<>>
           /\ cfgTodo = {}
           /\ cfgRuns = 0
           /\ cfgWhole = (cfgFile # CfgNoFile /\ CfgSkeleton(cfgFile))

\* os.WriteFile empties the file, then writes; how it goes on is in pc.
CfgWrite(f, pc) ==
    /\ cfgFile' = <<>>
    /\ cfgBuf' = f
    /\ cfgPc' = pc
    /\ UNCHANGED cfgTodo

\* main: without a file the template is written and the process ends.
CfgFirstStart ==
    /\ cfgPc = "down" /\ cfgFile = CfgNoFile
    /\ CfgWrite(CfgTemplate, "writing")
    /\ cfgRuns' = 0
    /\ cfgWhole' = CfgSkeleton(CfgTemplate)

\* LoadConfig reads the file and heals it in memory and on disk, or goes on.
CfgLoad ==
    /\ cfgPc = "down" /\ cfgFile # CfgNoFile
    /\ IF CfgOutdated(cfgFile)
       THEN CfgWrite(CfgHeal(cfgFile), "healing")
       ELSE cfgPc' = "loaded" /\ UNCHANGED <<cfgFile, cfgBuf, cfgTodo>>
    /\ cfgWhole' = IF CfgOutdated(cfgFile) THEN CfgSkeleton(CfgHeal(cfgFile)) ELSE cfgWhole
    /\ UNCHANGED cfgRuns

\* The write is done: a healed file is loaded, any other write ends the process.
CfgWritten ==
    /\ cfgPc \in {"writing", "healing"}
    /\ cfgFile' = cfgBuf
    /\ cfgBuf' = <<>>
    /\ cfgPc' = IF cfgPc = "healing" THEN "loaded" ELSE "down"
    /\ UNCHANGED <<cfgTodo, cfgRuns, cfgWhole>>

\* Unmarshal and ensureConfigComplete; an error is log.Fatalf.
CfgCheck ==
    /\ cfgPc = "loaded"
    /\ IF ~CfgParses(cfgFile)
       THEN cfgPc' = "refused" /\ UNCHANGED cfgTodo
       ELSE /\ cfgTodo' = CfgMissing(cfgFile)
            /\ cfgPc' = IF cfgTodo' = {} THEN "up" ELSE "filling"
    /\ UNCHANGED <<cfgFile, cfgBuf, cfgRuns, cfgWhole>>

\* Variant: the line is written without a newline before it and becomes part
\* of the comment that ends the file.
CfgAppendJoined(k) ==
    /\ cfgPc = "filling" /\ k \in cfgTodo
    /\ cfgTodo' = cfgTodo \ {k}
    /\ UNCHANGED <<cfgFile, cfgPc, cfgBuf, cfgRuns, cfgWhole>>

\* appendToConfigFile: the template's line of one key, in the random order of
\* a Go map, at the end of the file.
CfgAppend(k) ==
    /\ cfgPc = "filling" /\ k \in cfgTodo
    /\ cfgTodo' = cfgTodo \ {k}
    /\ cfgFile' = Append(cfgFile, k)
    /\ UNCHANGED <<cfgPc, cfgBuf, cfgRuns, cfgWhole>>

\* RestartApplication: a script starts the program again.
CfgRestart ==
    /\ cfgPc = "filling" /\ cfgTodo = {}
    /\ cfgPc' = "down"
    /\ cfgRuns' = cfgRuns + 1
    /\ UNCHANGED <<cfgFile, cfgBuf, cfgTodo, cfgWhole>>

\* PATCH of the console: the content is not looked at, an error of the write
\* is ignored.
CfgPatch(f) ==
    /\ cfgPc = "up"
    /\ CfgWrite(f, "writing")
    /\ cfgRuns' = 0
    /\ cfgWhole' = CfgSkeleton(f)

\* DELETE of the console removes the file ...
CfgRemove ==
    /\ cfgPc = "up" /\ cfgFile # CfgNoFile
    /\ cfgFile' = CfgNoFile
    /\ cfgPc' = "deleting"
    /\ cfgRuns' = 0
    /\ cfgWhole' = FALSE
    /\ UNCHANGED <<cfgBuf, cfgTodo>>

\* ... and writes the template, unless the local address is not found: then
\* the process runs on without a file.
CfgRenew ==
    /\ cfgPc = "deleting"
    /\ \/ CfgWrite(CfgTemplate, "writing") /\ cfgWhole' = CfgSkeleton(CfgTemplate)
       \/ cfgPc' = "up" /\ UNCHANGED <<cfgFile, cfgBuf, cfgTodo, cfgWhole>>
    /\ UNCHANGED cfgRuns

\* The process ends or dies; a write that is under way leaves some first
\* lines of its content.
CfgCrash ==
    /\ cfgPc # "down"
    /\ IF cfgPc \in {"writing", "healing"}
       THEN /\ \E n \in 0 .. Len(cfgBuf) : cfgFile' = SubSeq(cfgBuf, 1, n)
            /\ cfgWhole' = CfgSkeleton(cfgFile')
            /\ cfgRuns' = 0
       ELSE UNCHANGED <<cfgFile, cfgWhole, cfgRuns>>
    /\ cfgPc' = "down"
    /\ cfgBuf' = <<>>
    /\ cfgTodo' = {}

\* The operator saves the file while the process does not write it.
CfgEdit(f) ==
    /\ cfgPc \in {"down", "refused", "up"}
    /\ cfgFile' = f
    /\ cfgRuns' = 0
    /\ cfgWhole' = CfgSkeleton(f)
    /\ cfgPc' = IF cfgPc = "up" THEN "up" ELSE "down"
    /\ UNCHANGED <<cfgBuf, cfgTodo>>

CfgNext == \/ CfgFirstStart \/ CfgLoad \/ CfgWritten \/ CfgCheck \/ CfgRestart
           \/ CfgRemove \/ CfgRenew \/ CfgCrash
           \/ \E k \in cfgTodo : CfgAppend(k)
           \/ \E f \in CfgOutside : CfgPatch(f) \/ CfgEdit(f)

CfgSpec == CfgInit /\ [][CfgNext]_cfgVars

-----------------------------------------------------------------------------
(* Properties.                                                              *)

CfgTypeOK ==
    /\ cfgFile \in Seq(CfgLines) \cup {CfgNoFile}
    /\ cfgPc \in {"down", "writing", "healing", "loaded", "filling", "refused",
                  "up", "deleting"}
    /\ cfgBuf \in Seq(CfgLines)
    /\ cfgTodo \subseteq CfgStructure \cup CfgPlain
    /\ cfgRuns \in Nat /\ cfgWhole \in BOOLEAN

\* A file that loads, has every structural line and ends within the settings
\* is never refused by a later start, whatever plain settings it lacks, in
\* whatever order they are appended and wherever the process dies meanwhile.
\* And one completion is enough: a program that restarted because of missing
\* keys does not find any missing at the next start.
CompletionSettles == /\ cfgWhole => cfgPc # "refused"
                     /\ cfgRuns <= 1

\* What ensureConfigComplete announces: the file has been brought up to date
\* and the restart applies it.
CompletionIsLoadable == cfgRuns > 0 => cfgPc # "refused"
=============================================================================

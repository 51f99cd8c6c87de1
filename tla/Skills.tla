---------------------------------- MODULE Skills ----------------------------------
(***************************************************************************)
(* The skills a daemon finds on its disk and the system prompt that lists  *)
(* them (oc-core: skill.rs, prompt.rs; oc-cli: skills_loader.rs).          *)
(*                                                                         *)
(* A SKILL.md is a sequence of lines: rules (---), fields of the           *)
(* frontmatter and lines of prose.  A directory is the sequence of its     *)
(* subdirectories in the order the system lists them, each with its name,  *)
(* its file (None if it has none) and its own subdirectories.              *)
(***************************************************************************)
EXTENDS Integers, FiniteSets, SequencesExt

CONSTANTS
  None,     \* absence of a value
  Rule,     \* the line "---"
  FieldLines,   \* the lines that are fields of a frontmatter
  NameOf,   \* NameOf[f]: what field f says of the name, or None
  OffOf,    \* OffOf[f]: whether field f says enabled: false
  OsOf,     \* OsOf[f]: the systems field f names, or the empty set
  Order     \* Order[n]: the place of name n in the order of names

-------------------------------------------------------------------------------
(* One file.                                                                 *)

(* Slips: the frontmatter ends at the last rule; the body keeps it. *)
LastRule(lines) == SelectLastInSeq(lines, LAMBDA l : l = Rule)
FirstRule(lines) == SelectInSeq(lines, LAMBDA l : l = Rule)
Keeping(lines, at) == lines
BodyAfter(lines, at) == SubSeq(lines, at + 1, Len(lines))

(* trim_start_matches: rules that follow the end of the frontmatter at once belong to it. *)
RECURSIVE SkipRules(_)
SkipRules(lines) == IF lines # <<>> /\ Head(lines) = Rule THEN SkipRules(Tail(lines)) ELSE lines

(* extract_frontmatter, of the lines after the first rule: the end must have a line before it. *)
ExtractFrontmatter(lines) ==
  LET later == IF lines = <<>> THEN 0 ELSE FirstRule(Tail(lines))
  IN  IF later = 0 THEN None
      ELSE [front |-> SkipRules(SubSeq(lines, 1, later)), body |-> SkipRules(BodyAfter(lines, later))]

(* The YAML of a frontmatter: fields, none of them twice (a rule before them only opens it). *)
IsFrontmatter(front) ==
  /\ front # <<>>
  /\ \A i \in DOMAIN front : front[i] \in FieldLines
  /\ \A i, j \in DOMAIN front : front[i] = front[j] => i = j
  /\ Cardinality({i \in DOMAIN front : NameOf[front[i]] # None}) <= 1

(* parse_skill. *)
ParseSkill(slug, leaf, raw) ==
  LET skill(front, body) ==
        LET named == {i \in DOMAIN front : NameOf[front[i]] # None}
        IN  [name |-> IF named = {} THEN leaf ELSE NameOf[front[CHOOSE i \in named : TRUE]],
             slug |-> slug, body |-> body,
             enabled |-> ~\E i \in DOMAIN front : OffOf[front[i]],
             os |-> UNION {OsOf[front[i]] : i \in DOMAIN front}]
      parts == ExtractFrontmatter(Tail(raw))
  IN  IF raw = <<>> \/ Head(raw) # Rule THEN skill(<<>>, raw)
      ELSE IF parts = None THEN None
      ELSE IF ~IsFrontmatter(parts.front) THEN None ELSE skill(parts.front, parts.body)

-------------------------------------------------------------------------------
(* All of them.                                                              *)

(* A slip: a system must be named as the host names itself. *)
ByItsName(os) == os
NormalizeOs(os) == CASE os \in {"darwin", "macos"} -> "macos"
                     [] os \in {"win32", "windows"} -> "windows"
                     [] OTHER -> os
OsMatches(required, host) == required = {} \/ \E r \in required : NormalizeOs(r) = NormalizeOs(host)

(* A slip: the lists are about names. *)
NamedOn(skill, list) == <<skill.name>> \in list
IsOn(skill, list) == skill.slug \in list

(* gated_skills. *)
Passes(skill, allow, deny, host) ==
  /\ skill.enabled /\ ~IsOn(skill, deny)
  /\ allow = {} \/ IsOn(skill, allow)
  /\ OsMatches(skill.os, host)

(* A slip: a skill of a publisher goes by its own directory's name. *)
OwnName(publisher, leaf) == <<leaf>>
Scoped(publisher, leaf) == <<publisher, leaf>>

(* load_one and read_skill_md. *)
LoadOne(dir, slug) == IF dir.file = None THEN None ELSE ParseSkill(slug, dir.leaf, dir.file)

(* load_from_dir: a directory that is no skill is a publisher's; one level down at most. *)
Load(tree, allow, deny, host) ==
  LET found(dir) ==
        IF LoadOne(dir, <<dir.leaf>>) # None THEN <<LoadOne(dir, <<dir.leaf>>)>>
        ELSE SelectSeq([n \in DOMAIN dir.subs |->
                          LoadOne(dir.subs[n], Scoped(dir.leaf, dir.subs[n].leaf))],
                       LAMBDA s : s # None)
  IN  SelectSeq(FlattenSeq([n \in DOMAIN tree |-> found(tree[n])]),
                LAMBDA s : Passes(s, allow, deny, host))

-------------------------------------------------------------------------------
(* The prompt: a prefix of lines that a provider may cache, and what changes. *)

(* Slips: things are listed as they were read; the time stands with the environment. *)
NoRank(name) == 0
Rank(name) == Order[name]
ByKey(seq, Key(_)) ==
  LET order == SetToSortSeq(DOMAIN seq, LAMBDA i, j : \/ Key(seq[i]) < Key(seq[j])
                                                      \/ Key(seq[i]) = Key(seq[j]) /\ i < j)
  IN  [n \in DOMAIN seq |-> seq[order[n]]]
Dated(inputs) == <<"environment", inputs.model, inputs.now>>
Undated(inputs) == <<"environment", inputs.model>>

(* render_system_prompt: sections without an entry are left out. *)
RenderSystemPrompt(inputs) ==
  LET section(title, seq, Key(_)) == IF seq = <<>> THEN <<>> ELSE <<<<title, ByKey(seq, Key)>>>>
  IN  [prefix |-> <<<<"soul", inputs.soul>>>>
                    \o (IF inputs.model = None THEN <<>> ELSE <<Undated(inputs)>>)
                    \o section("tools", inputs.tools, Rank)
                    \o section("skills", inputs.skills, LAMBDA s : Rank(s.name))
                    \o section("memory", inputs.bootstrap, Rank),
       suffix |-> <<"now", inputs.now>>]

-------------------------------------------------------------------------------
(* What is promised.                                                         *)

(* skill.rs:62-64: of a file that opens with a rule, fields and a rule the fields are what it says
   and the rest is its body, rules in it and all; a file without a frontmatter is body
   throughout; one whose frontmatter does not end is no skill. *)
FrontIsRead(front, body) ==
  LET got(raw) == ParseSkill(<<"x">>, "x", raw)
      proper == /\ front # <<>> /\ ToSet(front) \subseteq FieldLines /\ IsInjective(front)
                /\ Cardinality({f \in ToSet(front) : NameOf[f] # None}) <= 1
      opens == body # <<>> /\ Head(body) = Rule
      said == {NameOf[f] : f \in ToSet(front)} \ {None}
  IN  /\ proper /\ ~opens =>
           got(<<Rule>> \o front \o <<Rule>> \o body) =
             [name |-> IF said = {} THEN "x" ELSE CHOOSE n \in said : TRUE, slug |-> <<"x">>,
              body |-> body, enabled |-> ~\E f \in ToSet(front) : OffOf[f],
              os |-> UNION {OsOf[f] : f \in ToSet(front)}]
      /\ ~opens => got(body).body = body /\ got(body).name = "x" /\ got(body).enabled
      /\ proper => got(<<Rule>> \o front) = None

At(tree, slug) ==
  LET in(dirs, leaf) == {dirs[n] : n \in {m \in DOMAIN dirs : dirs[m].leaf = leaf}}
  IN  IF Len(slug) = 1 THEN in(tree, slug[1])
      ELSE UNION {in(d.subs, slug[2]) : d \in in(tree, slug[1])}

(* prompt.rs:160 and skills_loader.rs:3-9: every skill the prompt lists can be read at the path it
   gives and is what stands there; a denied directory is not listed, whatever its file calls it,
   and with an allowlist nothing but what is on it; nor is one that is switched off or
   is for other systems, by any of their names. *)
ListedCanBeRead(tree, allow, deny, host) ==
  LET listed == Load(tree, allow, deny, host)
      aliases == CASE host = "macos" -> {"macos", "darwin"} [] host = "windows" -> {"windows", "win32"}
                   [] OTHER -> {host}
  IN  /\ \A n \in DOMAIN listed :
           LET s == listed[n]
               dirs == At(tree, s.slug)
           IN  /\ Cardinality(dirs) = 1 /\ s.slug \notin deny
               /\ allow # {} => s.slug \in allow
               /\ \A d \in dirs : d.file # None /\ ParseSkill(s.slug, d.leaf, d.file) = s
               /\ s.enabled
               /\ s.os = {} \/ s.os \cap aliases # {}
      /\ \A m, n \in DOMAIN listed : m # n => listed[m].slug # listed[n].slug
      /\ \A n \in DOMAIN tree :
           tree[n].file # None /\ LoadOne(tree[n], <<tree[n].leaf>>) # None =>
             LET s == LoadOne(tree[n], <<tree[n].leaf>>)
             IN  (s.enabled /\ s.slug \notin deny /\ (allow = {} \/ s.slug \in allow)
                    /\ (s.os = {} \/ s.os \cap aliases # {})) <=> s \in ToSet(listed)

(* prompt.rs:1-4 "相同输入 → 逐字节相同输出 ... 让前缀稳定可缓存": the prefix is the same in whatever order the
   disk lists the skills and whatever the time, as long as no two have one name. *)
PrefixIsStable(tree, again) ==
  LET inputs(t, now) == [soul |-> "soul", model |-> "m", now |-> now, tools |-> <<>>,
                         skills |-> Load(t, {}, {}, "linux"), bootstrap |-> <<>>]
      names == [n \in DOMAIN inputs(tree, 1).skills |-> inputs(tree, 1).skills[n].name]
  IN  IsInjective(names) =>
        RenderSystemPrompt(inputs(tree, 1)).prefix = RenderSystemPrompt(inputs(again, 2)).prefix
===============================================================================

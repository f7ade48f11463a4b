---------------------------- MODULE ObjectFiles ----------------------------
(***************************************************************************)
(* The files between the three programs: what the compiler packs           *)
(* (Compiler::TestCompile, Packer.cpp), the linker reads (ObjectsReader    *)
(* .cpp, Translate and HandleModule) and writes (ExecutableCodeWriter.cpp) *)
(* and the machine loads (VirtualMachine::LoadScript).                     *)
(*                                                                         *)
(* All of them lie in one directory, where the files of compilations       *)
(* before stay until one of the same name is written.  The compiler may    *)
(* end between two files, a file may fail to open, and a file may be cut   *)
(* off, as when the disk is full: no write is looked at.                   *)
(*                                                                         *)
(* A file has a size and fields, each a value at an offset in a width; its *)
(* other bytes are zero.  To read what no field has, or behind the file,   *)
(* is undefined: the reader is then "astray".                              *)
(***************************************************************************)
EXTENDS Integers, Sequences, FiniteSets, SequencesExt

CONSTANTS
  Compilations,     (* what the compiler may have to pack                  *)
  Data,             (* what constants are                                  *)
  MaxCompilations,  (* bound: how many there are                           *)
  CutSizes,         (* bound: the sizes that files are cut to              *)
  MaxFailures       (* bound: how many saves fail or do not happen         *)

(* A command of a code object: operation, three times source and data,     *)
(* flags, line.                                                            *)
CommandWidths == <<1, 1, 8, 1, 8, 1, 8, 4, 4>>

(* Symbols are variables, since nothing declares functions yet.            *)
Variable == 1

(* A compilation has the order of its modules, and for each, in order, its *)
(* code and stack_size; and the constants and symbols of all of them.      *)
ASSUME ObjectFilesAssumption ==
  /\ MaxCompilations \in Nat /\ MaxFailures \in Nat /\ CutSizes \subseteq Nat
  /\ \A c \in Compilations :
       /\ c.order \in Seq(Nat) /\ IsInjective(c.order)
       /\ c.constants \in Seq([size : Nat, data : Data])
       /\ c.symbols \in Seq([offset : Nat, module : Nat])
       /\ c.code \in Seq(Seq([1 .. 9 -> Nat])) /\ Len(c.code) = Len(c.order)
       /\ c.stack_size \in Seq(Nat) /\ Len(c.stack_size) = Len(c.order)

VARIABLES
  directory,          (* the files that there are, by name                 *)
  compilation,        (* the one that was begun last                       *)
  compilations,       (* how many were begun                               *)
  intact,             (* whether all of its files so far were saved        *)
  failures,           (* how often this was not so                         *)
  stage,              (* what runs: "compiler", "sections" and "modules"   *)
                      (* of the linker, or "nothing"                       *)
  next,               (* the module or section that is next                *)
  section,            (* that is being read                                *)
  opened, offset, end,
  state,              (* the linking state and the command pools           *)
  outcome,            (* of the linker                                     *)
  written,            (* what the executable has, when it is whole         *)
  loaded              (* what the machine has                              *)

compiler == <<compilation, compilations, intact, failures>>
reader == <<section, opened, offset, end, state>>
vars == <<directory, compiler, stage, next, reader, outcome, written, loaded>>

-----------------------------------------------------------------------------
(* Files.                                                                  *)

(* The first n numbers, and all of them, added up. *)
SumOfFirst(numbers, n) ==
  LET sum[k \in Nat] == IF k = 0 THEN 0 ELSE sum[k - 1] + numbers[k]
  IN sum[n]
Sum(numbers) == SumOfFirst(numbers, Len(numbers))

(* An entry is a row of fields <<width, value>>. *)
Widths(entry) == [j \in DOMAIN entry |-> entry[j][1]]
EntrySizes(entries) == [e \in DOMAIN entries |-> Sum(Widths(entries[e]))]
Extent(entries) == Sum(EntrySizes(entries))

(* Entries from a place on, one behind the other, as fields of a file      *)
(* <<place, width, value>>.                                                *)
Laid(entries, from) ==
  UNION {{<<from + SumOfFirst(EntrySizes(entries), e - 1)
                 + SumOfFirst(Widths(entries[e]), j - 1),
            entries[e][j][1], entries[e][j][2]>> :
            j \in DOMAIN entries[e]} : e \in DOMAIN entries}

(* What can be read at a place: one value, or none. *)
Covers(field, at, width) == field[1] < at + width /\ at < field[1] + field[2]
Values(file, at, width) ==
  LET there == {field \in file.fields : field[1] = at /\ field[2] = width}
  IN IF at + width > file.size THEN {}
     ELSE IF there = {} /\ ~\E field \in file.fields : Covers(field, at, width) THEN {0}
     ELSE {field[3] : field \in there}

Main == <<"main", 0>>
Module(id) == <<"module", id>>
Executable == <<"executable", 0>>

(* A file is written, or it is not opened, or is cut off. *)
Written(name, file) ==
  directory' = [n \in DOMAIN directory \cup {name} |->
                  IF n = name THEN file ELSE directory[n]]
Fails == failures < MaxFailures /\ failures' = failures + 1
Spoiled(name, file) ==
  /\ Fails
  /\ \/ UNCHANGED directory
     \/ \E size \in CutSizes : size < file.size /\ Written(name, [file EXCEPT !.size = size])

-----------------------------------------------------------------------------
(* The compiler.  The two programs each have a table of these numbers.     *)
mo_header_reserved_size == 500
co_header_reserved_size == 100

(* Mutation: the size of a command that the table of the linker has.       *)
command_size_Linkers == 40
command_size == 36

debug_size == 100
module_prefix == "mslmodule"
module_extension == "mslco"
SectionTypes == <<"LINKING_ORDER", "CONSTANTS", "SYMBOLS", "DEBUG">>

size_of_symbol_field == 8 + 8 + 2 + 1

(* ByterizeCompilationState. *)
MainObject(c) ==
  LET sizes == <<2 * Len(c.order),
                 Sum([k \in DOMAIN c.constants |-> 8 + 8 + c.constants[k].size]),
                 Len(c.symbols) * size_of_symbol_field,
                 debug_size>>
      Offset(i) == mo_header_reserved_size + SumOfFirst(sizes, i - 1)
      Section(i) == << <<1, SectionTypes[i]>>, <<8, Offset(i)>>, <<8, sizes[i]>> >>
      header == << << <<5, "MSLMO">>, <<4, "version">>, <<2, "flags">>,
                      <<32, module_prefix>>, <<10, module_extension>> >>,
                   Section(1), Section(2), Section(3), Section(4) >>
      order == [k \in DOMAIN c.order |-> << <<2, c.order[k]>> >>]
      constants == [k \in DOMAIN c.constants |->
                      << <<8, k - 1>>, <<8, c.constants[k].size>>,
                         <<c.constants[k].size, c.constants[k].data>> >>]
      symbols == [k \in DOMAIN c.symbols |->
                    << <<8, k - 1>>, <<8, c.symbols[k].offset>>,
                       <<2, c.symbols[k].module>>, <<1, Variable>> >>]
      behind_order == mo_header_reserved_size + Extent(order)
  IN [size |-> Offset(5),
      fields |-> Laid(header, 0) \cup Laid(order, mo_header_reserved_size)
                   \cup Laid(constants, behind_order)
                   \cup Laid(symbols, behind_order + Extent(constants))]

(* ByterizeCommands, for the module that is number k of the order. *)
CodeObject(c, k) ==
  LET commands_size == Len(c.code[k]) * command_size
      header == << <<5, "MSLCO">>, <<4, "version">>, <<2, "flags">>,
                   <<8, commands_size>>, <<8, c.stack_size[k]>> >>
      commands == [i \in DOMAIN c.code[k] |->
                     [j \in 1 .. 9 |-> <<CommandWidths[j], c.code[k][i][j]>>]]
  IN [size |-> co_header_reserved_size + commands_size,
      fields |-> Laid(<<header>>, 0) \cup Laid(commands, co_header_reserved_size)]

MainObjects == [c \in Compilations |-> MainObject(c)]
CodeObjects == [c \in Compilations |-> [k \in DOMAIN c.order |-> CodeObject(c, k)]]

TestCompile(c) ==
  /\ stage = "nothing" /\ compilations < MaxCompilations
  /\ compilation' = c /\ compilations' = compilations + 1
  /\ intact' = TRUE /\ stage' = "compiler" /\ next' = 1
  /\ outcome' = "none" /\ loaded' = << >>
  /\ UNCHANGED <<directory, failures, reader, written>>

Compiling == stage = "compiler" /\ UNCHANGED
  <<compilation, compilations, reader, outcome, written, loaded>>

Saves(name, file) ==
  \/ Written(name, file) /\ UNCHANGED <<intact, failures>>
  \/ Spoiled(name, file) /\ intact' = FALSE

(* When a module cannot be saved the compiler goes on with the next. *)
SaveAsMSLCO ==
  /\ Compiling /\ next <= Len(compilation.order)
  /\ Saves(Module(compilation.order[next]), CodeObjects[compilation][next])
  /\ next' = next + 1 /\ UNCHANGED stage

SaveAsMSLMO ==
  /\ Compiling /\ next > Len(compilation.order)
  /\ Saves(Main, MainObjects[compilation])
  /\ stage' = "nothing" /\ UNCHANGED next

(* An exception that nothing catches, or the user, ends the compiler. *)
CompilerEnds ==
  /\ Compiling /\ Fails /\ stage' = "nothing" /\ intact' = FALSE
  /\ UNCHANGED <<directory, next>>

-----------------------------------------------------------------------------
NothingRead == [linking_order |-> << >>, constants |-> << >>, symbols |-> << >>,
                pools |-> << >>]

(* The linker.  "opened" is the name of the file that is in the buffer.    *)
Buffer == directory[opened]
Read(at, width) == Values(Buffer, at, width)
Ends(result) ==
  /\ stage' = "nothing" /\ outcome' = result
  /\ UNCHANGED <<directory, compiler, next, reader, written, loaded>>
Linking(s) ==
  /\ stage = s /\ UNCHANGED <<directory, compiler, opened, outcome, written, loaded>>

(* Link, to the sections of DeserializeMO. *)
Link ==
  /\ stage = "nothing" /\ outcome = "none"
  /\ IF Main \notin DOMAIN directory \/ directory[Main].size < mo_header_reserved_size
          \/ Values(directory[Main], 0, 5) # {"MSLMO"}
     THEN outcome' = "refused" /\ UNCHANGED stage
     ELSE stage' = "sections" /\ UNCHANGED outcome
  /\ next' = 1 /\ section' = "header"
  /\ opened' = Main /\ offset' = 0 /\ end' = 0
  /\ state' = NothingRead /\ loaded' = << >>
  /\ UNCHANGED <<directory, compiler, written>>

(* Mutation: a section also ends where the file does.                      *)
AtEnd_OrOfFile == offset >= end \/ offset >= Buffer.size

AtEnd == offset >= end
HeaderOffset == 5 + 4 + 2 + 32 + 10 + 17 * (next - 1)
AtSectionEnd == section = "header" \/ section = "DEBUG" \/ AtEnd

(* The next section.  What is compared with the size of the file is the    *)
(* size of the section behind the place in the header.                     *)
ReadSectionInfo ==
  /\ stage = "sections" /\ AtSectionEnd /\ next <= 4
  /\ \E type \in Read(HeaderOffset, 1), section_offset \in Read(HeaderOffset + 1, 8),
       section_size \in Read(HeaderOffset + 9, 8) :
       IF HeaderOffset + 17 + section_size > Buffer.size THEN Ends("refused")
       ELSE /\ Linking("sections")
            /\ section' = type /\ offset' = section_offset
            /\ end' = section_offset + section_size
            /\ next' = next + 1 /\ UNCHANGED <<stage, state>>

(* What one turn of a loop reads: an entry, or none. *)
ModuleIds == Read(offset, 2)
Constants ==
  UNION {{[id |-> c_id, size |-> data_size, data |-> data] :
            c_id \in Read(offset, 8), data \in Read(offset + 16, data_size)} :
         data_size \in Read(offset + 8, 8)}
Symbols ==
  {[id |-> s_id, offset |-> place, module |-> module, type |-> type] :
     s_id \in Read(offset, 8), place \in Read(offset + 8, 8),
     module \in Read(offset + 16, 2), type \in Read(offset + 18, 1)}
CommandsThere ==
  LET Part(j) == Read(offset + SumOfFirst(CommandWidths, j - 1), CommandWidths[j])
  IN IF \E j \in 1 .. 9 : Part(j) = {} THEN {}
     ELSE {[j \in 1 .. 9 |-> CHOOSE v \in Part(j) : TRUE]}

Entries(s) == stage \in {"sections", "modules"} /\ section = s /\ ~AtEnd
Reads(size) ==
  /\ Linking(stage) /\ offset' = offset + size
  /\ UNCHANGED <<stage, next, section, end>>

(* HandleLOSection, HandleConstantsSection and HandleSymbolSection. *)
ReadModuleId ==
  /\ Entries("LINKING_ORDER")
  /\ \E m_id \in ModuleIds :
       /\ Reads(2)
       /\ state' = [state EXCEPT !.linking_order = Append(@, m_id)]

ReadConstant ==
  /\ Entries("CONSTANTS")
  /\ \E constant \in Constants :
       /\ Reads(16 + constant.size)
       /\ state' = [state EXCEPT !.constants = Append(@, constant)]

ReadSymbol ==
  /\ Entries("SYMBOLS")
  /\ \E symbol \in Symbols :
       /\ Reads(19)
       /\ state' = [state EXCEPT !.symbols = Append(@, symbol)]

BeginModules ==
  /\ Linking("sections") /\ AtSectionEnd /\ next > 4
  /\ stage' = "modules" /\ next' = 1 /\ section' = "none"
  /\ UNCHANGED <<offset, end, state>>

(* HandleModule, to the commands of DeserializeCO.  A file that is too     *)
(* short or something else gives a null pointer, which is used.            *)
OpenModule ==
  LET name == Module(state.linking_order[next]) IN
  /\ stage = "modules" /\ section = "none" /\ next <= Len(state.linking_order)
  /\ IF name \notin DOMAIN directory THEN Ends("refused")
     ELSE IF directory[name].size < co_header_reserved_size
               \/ Values(directory[name], 0, 5) # {"MSLCO"} THEN Ends("astray")
     ELSE \E code_size \in Values(directory[name], 11, 8),
            stack_size \in Values(directory[name], 19, 8) :
            /\ opened' = name /\ section' = "commands"
            /\ offset' = co_header_reserved_size
            /\ end' = co_header_reserved_size + code_size
            /\ state' = [state EXCEPT !.pools = Append(@, [stack_size |-> stack_size,
                                                          commands |-> << >>])]
            /\ UNCHANGED <<directory, compiler, stage, next, outcome, written, loaded>>

(* The loop of DeserializeCO. *)
ReadCommand ==
  /\ Entries("commands")
  /\ \E command \in CommandsThere :
       /\ Reads(Sum(CommandWidths))
       /\ state' = [state EXCEPT !.pools[next].commands = Append(@, command)]

(* Mutation: the module is handled again. *)
EndModule_Again ==
  /\ Linking("modules") /\ section = "commands" /\ AtEnd
  /\ section' = "none"
  /\ UNCHANGED <<stage, next, offset, end, state>>

EndModule ==
  /\ Linking("modules") /\ section = "commands" /\ AtEnd
  /\ section' = "none" /\ next' = next + 1
  /\ UNCHANGED <<stage, offset, end, state>>

(* A turn that finds no entry in its place. *)
ReadAstray ==
  /\ \/ Entries("LINKING_ORDER") /\ ModuleIds = {}
     \/ Entries("CONSTANTS") /\ Constants = {}
     \/ Entries("SYMBOLS") /\ Symbols = {}
     \/ Entries("commands") /\ CommandsThere = {}
  /\ Ends("astray")

-----------------------------------------------------------------------------
(* SaveAsMSLI, and LoadScript.                                             *)
msli_header_size == 100

Align(n) == ((n + 7) \div 8) * 8
(* Every constant is aligned, and all of them; each command is taken for   *)
(* one operation of the machine, of four numbers.                          *)
RodSize == Sum([k \in DOMAIN state.constants |-> Align(state.constants[k].size)])
CodeSize == 32 * Sum([k \in DOMAIN state.pools |-> Len(state.pools[k].commands)])

CodeOffset == msli_header_size + RodSize

(* The bytes of both sections stand for what they were made of. *)
ReadOnlyData == <<"constants", state.constants>>
Code == <<"code", state.pools>>

ExecutableFile ==
  LET header == << <<4, "MSLI">>, <<4, "version">>, <<2, "flags">>, <<1, "MSLVM_1">>,
                   <<8, msli_header_size>>, <<8, RodSize>>, <<8, CodeOffset>>,
                   <<8, CodeSize>> >>
  IN [size |-> msli_header_size + RodSize + CodeSize,
      fields |-> Laid(<<header>>, 0)
                   \cup Laid(<< << <<RodSize, ReadOnlyData>>, <<CodeSize, Code>> >> >>,
                            msli_header_size)]

(* Without a command there is nothing to save. *)
SaveAsMSLI ==
  /\ stage = "modules" /\ section = "none" /\ next > Len(state.linking_order)
  /\ stage' = "nothing"
  /\ IF CodeSize = 0
     THEN outcome' = "refused" /\ UNCHANGED <<directory, failures, written>>
     ELSE \/ /\ Written(Executable, ExecutableFile) /\ UNCHANGED failures
             /\ outcome' = "linked" /\ written' = <<ReadOnlyData, Code>>
          \/ /\ Spoiled(Executable, ExecutableFile)
             /\ IF UNCHANGED directory THEN outcome' = "unsaved" /\ UNCHANGED written
                ELSE outcome' = "linked" /\ written' = << >>
  /\ UNCHANGED <<compilation, compilations, intact, next, reader, loaded>>

(* Mutation: the sizes in the header are not compared with the file's.     *)
FileHoldsCode_Unchecked(size, code_end) == TRUE

FileHoldsCode(size, code_end) == size >= code_end

(* What is behind the file is anything. *)
Loads(file, at, width) ==
  IF Values(file, at, width) = {} THEN {<<"astray">>} ELSE Values(file, at, width)

LoadScript ==
  LET file == directory[Executable] IN
  /\ stage = "nothing" /\ loaded = << >> /\ Executable \in DOMAIN directory
  /\ Values(file, 0, 4) = {"MSLI"} /\ Values(file, 10, 1) = {"MSLVM_1"}
  /\ \E rod_offset \in Values(file, 11, 8), rod_size \in Values(file, 19, 8),
       code_offset \in Values(file, 27, 8), code_size \in Values(file, 35, 8) :
       /\ FileHoldsCode(file.size, code_offset + code_size)
       /\ \E rod \in Loads(file, rod_offset, rod_size),
            code \in Loads(file, code_offset, code_size) : loaded' = <<rod, code>>
  /\ UNCHANGED <<directory, compiler, stage, next, reader, outcome, written>>

-----------------------------------------------------------------------------
Init ==
  /\ directory = [name \in {} |-> << >>]
  /\ compilation \in Compilations /\ compilations = 0 /\ intact = FALSE /\ failures = 0
  /\ stage = "nothing" /\ next = 1
  /\ section = "none" /\ opened = Main /\ offset = 0 /\ end = 0
  /\ state = NothingRead /\ outcome = "none" /\ written = << >> /\ loaded = << >>

Next ==
  \/ \E c \in Compilations : TestCompile(c)
  \/ SaveAsMSLCO \/ SaveAsMSLMO \/ CompilerEnds
  \/ Link \/ ReadSectionInfo \/ ReadModuleId \/ ReadConstant \/ ReadSymbol
  \/ BeginModules \/ OpenModule \/ ReadCommand \/ EndModule \/ ReadAstray
  \/ SaveAsMSLI \/ LoadScript

Spec == Init /\ [][Next]_vars

-----------------------------------------------------------------------------
(* Properties.                                                             *)

TypeOK ==
  /\ compilation \in Compilations /\ compilations \in 0 .. MaxCompilations /\ failures \in 0 .. MaxFailures
  /\ stage \in {"nothing", "compiler", "sections", "modules"}
  /\ outcome \in {"none", "refused", "astray", "unsaved", "linked"}
  /\ offset \in Nat /\ end \in Nat
  /\ \A name \in DOMAIN directory : directory[name].size \in Nat
  /\ stage = "modules" /\ section = "commands" => Len(state.pools) = next
  /\ stage \in {"sections", "modules"} => opened \in DOMAIN directory

(* What the linker has read when it has read the compilation c. *)
MainOf(c) ==
  [linking_order |-> c.order,
   constants |-> [k \in DOMAIN c.constants |->
                    [id |-> k - 1, size |-> c.constants[k].size,
                     data |-> c.constants[k].data]],
   symbols |-> [k \in DOMAIN c.symbols |->
                  [id |-> k - 1, offset |-> c.symbols[k].offset,
                   module |-> c.symbols[k].module, type |-> Variable]]]
PoolOf(c, k) == [stack_size |-> c.stack_size[k], commands |-> c.code[k]]
MainRead == [linking_order |-> state.linking_order, constants |-> state.constants,
             symbols |-> state.symbols]

(* A compilation that saved all of its files is linked, all of it as it    *)
(* was packed and nothing else, whatever compilations before it left in    *)
(* the directory: the offsets the packer computes from sizes are where it  *)
(* writes and where ObjectsReader reads.                                   *)
WholeCompilationLinks ==
  outcome # "none" /\ intact =>
    /\ outcome \in {"linked", "unsaved"} \/ \A k \in DOMAIN compilation.code : compilation.code[k] = << >>
    /\ MainRead = MainOf(compilation)
    /\ state.pools = [k \in DOMAIN compilation.code |-> PoolOf(compilation, k)]

(* After failed saves the linker may mix compilations, since nothing in a  *)
(* file says which one it is of; but what it links is made of whole files: *)
(* a file that was cut off never passes for a shorter one (DeserializeMO   *)
(* and DeserializeCO go by the sizes in the headers).                      *)
LinksWholeFiles ==
  outcome \in {"linked", "unsaved"} =>
    /\ \E c \in Compilations : MainRead = MainOf(c)
    /\ \A n \in DOMAIN state.pools :
         \E c \in Compilations : \E k \in DOMAIN c.order :
           c.order[k] = state.linking_order[n] /\ state.pools[n] = PoolOf(c, k)

(* What the machine loads is the executable that was written last, and     *)
(* that one was written as a whole (SaveAsMSLI, LoadScript).               *)
LoadsWhatWasLinked == loaded # << >> => loaded = written
=============================================================================

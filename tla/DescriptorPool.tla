--------------------------- MODULE DescriptorPool ---------------------------
(***************************************************************************)
(* The registry of protobuf types: DescriptorPool with the database of     *)
(* files it loads from, and the message classes made for its descriptors   *)
(* (message_factory, builder, symbol_database).  Files are converted when  *)
(* something in them is first asked for, their imports before them, and a  *)
(* conversion that raises leaves what it registered so far.                *)
(*                                                                         *)
(* A full name is the sequence of its parts.  A descriptor is identified   *)
(* by its name, its file and the conversion that made it.  Whatever a      *)
(* descriptor holds besides types, and all options, are left out.          *)
(***************************************************************************)
EXTENDS Integers, Sequences, SequencesExt, FiniteSets, Functions

CONSTANTS Protos,      \* files that may be added
          Fallback     \* the files of the pool's descriptor_db

VARIABLES pool, answer

dvars == <<pool, answer>>

-----------------------------------------------------------------------------
(* Types are named in full (abs) or relative to where they are used; a     *)
(* field without a named type is a scalar.                                 *)
Abs(p)  == [abs |-> TRUE, path |-> p]
Rel(p)  == [abs |-> FALSE, path |-> p]
ScalarT == Rel(<<>>)

Kinds  == {"message", "enum", "service", "extension", "value"}
Step(do, kind, name, ref) == [do |-> do, kind |-> kind, name |-> name, ref |-> ref]
Register(kind, name)      == Step("register", kind, name, ScalarT)
Resolve(name, ref)        == Step("resolve", "field", name, ref)
MethodType(name, ref)     == Step("resolve", "method", name, ref)
Each(s, F(_)) == FlattenSeq([i \in 1..Len(s) |-> F(s[i])])
Desc(name, file, build) == [name |-> name, file |-> file, build |-> build]

(* _ConvertMessageDescriptor: nested types first.  Enums in a message do   *)
(* not register their values.                                              *)
RECURSIVE ConvertMessageDescriptor(_, _)
ConvertMessageDescriptor(m, package) ==
    LET name == Append(package, m.name)
    IN  Each(m.nested, LAMBDA n : ConvertMessageDescriptor(n, name))
        \o Each(m.enums, LAMBDA e : <<Register("enum", Append(name, e.name))>>)
        \o <<Register("message", name)>>

(* _ConvertEnumDescriptor at the top level: the values are siblings.       *)
ConvertEnumDescriptor(e, package) ==
    <<Register("enum", Append(package, e.name))>>
    \o Each(e.values, LAMBDA v : <<Register("value", Append(package, v))>>)

(* The types an extension refers to: its extendee, then its own.           *)
ExtensionTypes(x, package) == <<Resolve(package, x.extendee), Resolve(package, x.type)>>

(* _SetAllFieldTypes.                                                      *)
RECURSIVE SetAllFieldTypes(_, _)
SetAllFieldTypes(m, package) ==
    LET name == Append(package, m.name)
    IN  Each(m.fields, LAMBDA f : <<Resolve(name, f.type)>>)
        \o Each(m.extensions, LAMBDA x : ExtensionTypes(x, name))
        \o Each(m.nested, LAMBDA n : SetAllFieldTypes(n, name))

(* _MakeServiceDescriptor, its methods first.                              *)
MakeServiceDescriptor(s, package) ==
    Each(s.types, LAMBDA t : <<MethodType(package, t)>>) \o <<Register("service", Append(package, s.name))>>

(* What a conversion does, in this order.                                  *)
Conversion(proto) ==
    Each(proto.messages, LAMBDA m : ConvertMessageDescriptor(m, proto.package))
    \o Each(proto.enums, LAMBDA e : ConvertEnumDescriptor(e, proto.package))
    \o Each(proto.extensions, LAMBDA x : ExtensionTypes(x, proto.package))
    \o Each(proto.messages, LAMBDA m : SetAllFieldTypes(m, proto.package))
    \o Each(proto.services, LAMBDA s : MakeServiceDescriptor(s, proto.package))

Registered(proto) == {s \in ToSet(Conversion(proto)) : s.do = "register"}

(* All extensions of a file, with whether they are at its top level; those *)
(* of its messages come innermost first.                                   *)
RECURSIVE NestedExtensions(_, _)
NestedExtensions(m, package) ==
    LET name == Append(package, m.name)
    IN  Each(m.nested, LAMBDA n : NestedExtensions(n, name))
        \o Each(m.extensions, LAMBDA x : <<[ext |-> x, package |-> name, top |-> FALSE]>>)
Extensions(proto) ==
    Each(proto.extensions, LAMBDA x : <<[ext |-> x, package |-> proto.package, top |-> TRUE]>>)
    \o Each(proto.messages, LAMBDA m : NestedExtensions(m, proto.package))

-----------------------------------------------------------------------------
(* The database: by file name, by symbol.  A file without a package has    *)
(* its enums, values, extensions and services under a leading empty part,  *)
(* where no lookup finds them.                                             *)
Joined(package, n) == IF package = <<>> THEN <<"", n>> ELSE Append(package, n)
Symbols(proto) ==
    {s.name : s \in UNION {ToSet(ConvertMessageDescriptor(m, proto.package)) : m \in ToSet(proto.messages)}}
    \cup {Joined(proto.package, e.name) : e \in ToSet(proto.enums)}
    \cup {Joined(proto.package, v) : v \in UNION {ToSet(e.values) : e \in ToSet(proto.enums)}}
    \cup {Joined(proto.package, x.name) : x \in ToSet(proto.extensions)}
    \cup {Joined(proto.package, s.name) : s \in ToSet(proto.services)}

NoDb == [byFile |-> <<>>, bySymbol |-> <<>>]

(* DescriptorDatabase.Add: the same file again is nothing, another file of *)
(* this name raises, a symbol goes to the last file that has it.           *)
Put(f, k, v) == [x \in DOMAIN f \cup {k} |-> IF x = k THEN v ELSE f[x]]
DbAdd(db, proto) ==
    IF proto.name \in DOMAIN db.byFile THEN db
    ELSE [byFile |-> Put(db.byFile, proto.name, proto),
          bySymbol |-> [s \in DOMAIN db.bySymbol \cup Symbols(proto) |->
                           IF s \in Symbols(proto) THEN proto ELSE db.bySymbol[s]]]
DbConflict(db, proto) == proto.name \in DOMAIN db.byFile /\ db.byFile[proto.name] # proto

(* FindFileContainingSymbol: the symbol, or what it is declared in.        *)
Parent(name) == IF name = <<>> THEN <<>> ELSE Front(name)
HasSymbol(db, name) == name \in DOMAIN db.bySymbol \/ Parent(name) \in DOMAIN db.bySymbol
SymbolFile(db, name) == IF name \in DOMAIN db.bySymbol THEN db.bySymbol[name] ELSE db.bySymbol[Parent(name)]

FallbackDb == FoldLeft(DbAdd, NoDb, Fallback)

-----------------------------------------------------------------------------
(* The pool: its database, the registers by kind of symbol, the files      *)
(* converted, extensions by extended message and number, the conversions   *)
(* begun, the types resolved, the message classes and what extensions each *)
(* has been given.                                                         *)
EmptyPool == [db |-> NoDb, reg |-> [k \in Kinds |-> <<>>], files |-> <<>>, byNumber |-> <<>>,
              builds |-> <<>>, uses |-> {}, classes |-> {}, attached |-> {}]
Ok(p)      == [pool |-> p, err |-> ""]
Raise(p, e) == [pool |-> p, err |-> e]
Then(r, F(_)) == IF r.err = "" THEN F(r.pool) ELSE r

(* Mutant: a name taken by another file is not a conflict.                 *)
ConflictOfKind(p, kind, name, file) ==
    \E k \in Kinds \ {kind} : name \in DOMAIN p.reg[k]

(* _CheckConflictRegister.                                                 *)
CheckConflictRegister(p, kind, name, file) ==
    \E k \in Kinds : name \in DOMAIN p.reg[k] /\ (k # kind \/ p.reg[k][name].file # file)

RegisterIn(p, kind, d) ==
    IF CheckConflictRegister(p, kind, d.name, d.file) THEN Raise(p, "TypeError")
    ELSE Ok([p EXCEPT !.reg[kind] = Put(@, d.name, d)])

(* _GetDeps: the direct dependencies and what they import publicly.        *)
RECURSIVE Visible(_, _)
Visible(p, names) ==
    LET more == names \cup UNION {p.files[n].proto.public : n \in names}
    IN  IF more = names THEN names ELSE Visible(p, more)

(* The messages and enums declared by a file, as types to refer to.        *)
TypesOf(proto, build) ==
    {Desc(s.name, proto.name, build) : s \in {r \in Registered(proto) : r.kind \in {"message", "enum"}}}

(* _GetTypeFromScope: from the innermost package outwards.                 *)
Candidates(package, ref) ==
    IF ref.abs THEN {ref.path} ELSE {SubSeq(package, 1, n) \o ref.path : n \in 0..Len(package)}
GetTypeFromScope(package, ref, scope) ==
    {d \in scope : /\ d.name \in Candidates(package, ref)
                   /\ \A e \in scope : e.name \in Candidates(package, ref) => Len(e.name) <= Len(d.name)}

(* One step of a conversion; file is its descriptor, scope what it sees.   *)
Take(r, s, file, scope) ==
    IF r.err # "" THEN r
    ELSE IF s.do = "register" THEN RegisterIn(r.pool, s.kind, Desc(s.name, file.name, file.build))
    ELSE IF s.ref = ScalarT THEN r
    ELSE LET found == GetTypeFromScope(s.name, s.ref, scope)
         IN  IF found = {} THEN Raise(r.pool, "KeyError")
             ELSE Ok([r.pool EXCEPT !.uses = @ \cup {[by |-> file.build, in |-> s.name, kind |-> s.kind, type |-> d] : d \in found}])

(* What a file refers to types in: its own and those it can see.           *)
ScopeOf(p, file) ==
    TypesOf(file.proto, file.build)
    \cup UNION {TypesOf(p.files[n].proto, p.files[n].build) : n \in Visible(p, ToSet(file.proto.deps))}

(* _AddExtensionDescriptor: the name is registered before the number is    *)
(* looked at, and a class that exists is given the extension.              *)
NumberExtension(p, key, d) ==
    IF key \in DOMAIN p.byNumber /\ p.byNumber[key] # d THEN Raise(p, "AssertionError")
    ELSE Ok([p EXCEPT !.byNumber = Put(@, key, d),
                      !.attached = IF key[1] \in p.classes THEN @ \cup {<<key[1], d>>} ELSE @])
AddExtensionDescriptor(p, x, file) ==
    LET d        == Desc(Append(x.package, x.ext.name), file.name, file.build)
        extendee == CHOOSE e \in GetTypeFromScope(x.package, x.ext.extendee, ScopeOf(p, file)) : TRUE
    IN  Then(IF x.top THEN RegisterIn(p, "extension", d) ELSE Ok(p),
             LAMBDA q : NumberExtension(q, <<extendee, x.ext.number>>, d))

AddExtensions(p, file) ==
    FoldLeft(LAMBDA r, x : Then(r, LAMBDA q : AddExtensionDescriptor(q, x, file)), Ok(p), Extensions(file.proto))

(* _ConvertFileProtoToFileDescriptor.  A file that imports itself, or is   *)
(* imported by what it imports, never ends (stack).  A file already        *)
(* converted is the one of its name, whatever the proto says.              *)
RECURSIVE Convert(_, _, _)
FindFileIn(p, name, stack) ==
    IF name \in DOMAIN p.files THEN Ok(p)
    ELSE IF name \in DOMAIN p.db.byFile \cup DOMAIN FallbackDb.byFile
         THEN Convert(p, IF name \in DOMAIN p.db.byFile THEN p.db.byFile[name] ELSE FallbackDb.byFile[name], stack)
    ELSE Raise(p, "KeyError")

Built(p, proto) ==
    LET file  == [name |-> proto.name, build |-> Len(p.builds) + 1, proto |-> proto, serialized |-> proto]
        begun == [p EXCEPT !.builds = Append(@, proto)]
    IN  Then(FoldLeft(LAMBDA r, s : Take(r, s, file, ScopeOf(p, file)), Ok(begun), Conversion(proto)),
             LAMBDA q : Ok([q EXCEPT !.files = Put(@, proto.name, file)]))

Convert(p, proto, stack) ==
    LET deps == FoldLeft(LAMBDA r, n : Then(r, LAMBDA q : FindFileIn(q, n, stack \cup {proto.name})), Ok(p), proto.deps)
    IN  IF proto.name \in stack THEN Raise(p, "RecursionError")
        ELSE Then(IF proto.name \in DOMAIN p.files THEN Ok(p) ELSE Then(deps, LAMBDA q : Built(q, proto)),
                  LAMBDA q : AddExtensions(q, q.files[proto.name]))

-----------------------------------------------------------------------------
(* Lookups.  What they return is only kept as the error, or none.          *)

(* _FindFileContainingSymbolInDb.                                          *)
InDb(p, name) ==
    IF HasSymbol(p.db, name) \/ HasSymbol(FallbackDb, name)
    THEN Convert(p, SymbolFile(IF HasSymbol(p.db, name) THEN p.db ELSE FallbackDb, name), {})
    ELSE Raise(p, "KeyError")

Has(p, kind, name) == name \in DOMAIN p.reg[kind]
Found(p, c) == IF c THEN Ok(p) ELSE Raise(p, "KeyError")

(* FindMessageTypeByName, FindEnumTypeByName, FindServiceByName.           *)
FindByName(p, kind, name) ==
    IF Has(p, kind, name) THEN Ok(p) ELSE Then(InDb(p, name), LAMBDA q : Found(q, Has(q, kind, name)))

(* The message that a registered descriptor was made from.                 *)
RECURSIVE Within(_, _, _)
Within(messages, package, name) ==
    UNION {LET at == Append(package, m.name)
           IN  IF at = name THEN {m} ELSE Within(m.nested, at, name) : m \in ToSet(messages)}
MessageAt(p, name) ==
    LET d == p.reg["message"][name]
        proto == p.builds[d.build]
    IN  CHOOSE m \in Within(proto.messages, proto.package, name) : TRUE

(* FindFieldByName, FindOneofByName.                                       *)
FindFieldByName(p, name) ==
    Then(FindByName(p, "message", Parent(name)),
         LAMBDA q : Found(q, Last(name) \in {f.name : f \in ToSet(MessageAt(q, Parent(name)).fields)}))

(* FindExtensionByName: registered, in a message, or in a file of the      *)
(* database (whose own extensions_by_name is asked).                       *)
ExtensionIn(scope, name) ==
    IF scope.err = ""
    THEN Found(scope.pool, Last(name) \in {x.name : x \in ToSet(MessageAt(scope.pool, Parent(name)).extensions)})
    ELSE IF scope.err = "KeyError"
    THEN Then(InDb(scope.pool, name), LAMBDA q : Found(q, Has(q, "extension", name)))
    ELSE scope
FindExtensionByName(p, name) ==
    IF Has(p, "extension", name) THEN Ok(p) ELSE ExtensionIn(FindByName(p, "message", Parent(name)), name)

(* _InternalFindFileContainingSymbol: a symbol of any register, or a       *)
(* field, an extension or an enum value of a message.                      *)
Members(m) == {f.name : f \in ToSet(m.fields)} \cup {x.name : x \in ToSet(m.extensions)}
              \cup UNION {ToSet(e.values) : e \in ToSet(m.enums)}
MemberOf(r, name) ==
    IF r.err = "" THEN Found(r.pool, Last(name) \in Members(MessageAt(r.pool, Parent(name))))
    ELSE IF r.err = "AssertionError" THEN Raise(r.pool, "KeyError")
    ELSE r
InternalFindFileContainingSymbol(p, name) ==
    IF \E k \in Kinds : Has(p, k, name) THEN Ok(p) ELSE MemberOf(FindByName(p, "message", Parent(name)), name)
OrInDb(r, name) ==
    IF r.err # "KeyError" THEN r
    ELSE Then(InDb(r.pool, name), LAMBDA q : InternalFindFileContainingSymbol(q, name))
FindFileContainingSymbol(p, name) == OrInDb(InternalFindFileContainingSymbol(p, name), name)

-----------------------------------------------------------------------------
(* GetMessageClass: the class of a descriptor is made once; it is given    *)
(* the extensions known by then, and the types of its fields get classes.  *)
Uses(p, d) == {u.type : u \in {v \in p.uses : v.by = d.build /\ v.in = d.name /\ v.kind = "field"}}
IsMessage(p, d) == \E s \in Registered(p.builds[d.build]) : s.kind = "message" /\ s.name = d.name
MakeClass(p, d) ==
    [p EXCEPT !.classes = @ \cup {d},
              !.attached = @ \cup {<<d, p.byNumber[k]>> : k \in {x \in DOMAIN p.byNumber : x[1] = d}}]
RECURSIVE GetMessageClass(_, _)
GetMessageClass(p, d) ==
    IF d \in p.classes THEN p
    ELSE FoldLeft(LAMBDA q, e : IF IsMessage(q, e) THEN GetMessageClass(q, e) ELSE q,
                  MakeClass(p, d), SetToSeq(Uses(p, d)))

(* GetMessageClassesForFiles, of one file: its messages and what its       *)
(* extensions extend and hold.                                             *)
ClassesFor(p, file) ==
    LET own == {Desc(Append(file.proto.package, m.name), file.name, file.build) : m \in ToSet(file.proto.messages)}
    IN  FoldLeft(LAMBDA q, d : IF IsMessage(q, d) THEN GetMessageClass(q, d) ELSE q,
                 p, SetToSeq(own \cup Uses(p, Desc(file.proto.package, file.name, file.build))))
GetMessageClassesForFile(p, name) == Then(FindFileIn(p, name, {}), LAMBDA q : Ok(ClassesFor(q, q.files[name])))

(* A generated module: AddSerializedFile, then builder makes the classes   *)
(* of all messages of the file and symbol_database registers them.  The    *)
(* file that is found under this name gets the bytes as serialized_pb.     *)
AddSerializedFile(p, proto) ==
    Then(Convert(p, proto, {}), LAMBDA q : Ok([q EXCEPT !.files[proto.name].serialized = proto]))
BuildTopDescriptorsAndMessages(p, name) ==
    FoldLeft(LAMBDA r, s : Then(r, LAMBDA q :
                 LET d == Desc(s.name, name, q.files[name].build)
                 IN  RegisterIn(IF d \in q.classes THEN q ELSE MakeClass(q, d), "message", d)),
             Ok(p), SelectSeq(Conversion(p.files[name].proto), LAMBDA s : s.do = "register" /\ s.kind = "message"))

-----------------------------------------------------------------------------
PoolInit == pool = EmptyPool /\ answer = ""

Answer(r) == pool' = r.pool /\ answer' = r.err

Names == UNION {{s.name : s \in Registered(f)} : f \in Protos \cup ToSet(Fallback)}
FileNames == {f.name : f \in Protos \cup ToSet(Fallback)}

Add(proto) == IF DbConflict(pool.db, proto) THEN Answer(Raise(pool, "ConflictingDefinition"))
              ELSE Answer(Ok([pool EXCEPT !.db = DbAdd(@, proto)]))
Import(proto) == Answer(Then(AddSerializedFile(pool, proto), LAMBDA q : BuildTopDescriptorsAndMessages(q, proto.name)))
Find(name) == \/ \E kind \in {"message", "enum", "service"} : Answer(FindByName(pool, kind, name))
              \/ Answer(FindExtensionByName(pool, name))
              \/ Answer(FindFileContainingSymbol(pool, name))
FindField(name) == Answer(FindFieldByName(pool, name))

PoolNext == \/ \E proto \in Protos : Add(proto) \/ Answer(AddSerializedFile(pool, proto)) \/ Import(proto)
            \/ \E name \in FileNames : Answer(FindFileIn(pool, name, {})) \/ Answer(GetMessageClassesForFile(pool, name))
            \/ \E name \in Names : Find(name) \/ FindField(Append(name, "f"))
PoolSpec == PoolInit /\ [][PoolNext]_dvars

-----------------------------------------------------------------------------
(* Whatever was added, imported, looked up or failed in between, the files *)
(* of the pool stand: their symbols resolve to the descriptors of their    *)
(* own conversion and to nothing else, each under one register; what they  *)
(* import is there; the types they use are in files that stand and that    *)
(* they can see (descriptor_pool.py 135-171, 705-801).                     *)
FilesStand ==
    \A f \in DOMAIN pool.files :
      LET file == pool.files[f]
      IN  /\ \A s \in Registered(file.proto) : \A k \in Kinds :
                Has(pool, k, s.name) <=> (k = s.kind)
          /\ \A s \in Registered(file.proto) : pool.reg[s.kind][s.name] = Desc(s.name, f, file.build)
          /\ ToSet(file.proto.deps) \subseteq DOMAIN pool.files
          /\ \A u \in pool.uses : u.by = file.build =>
                /\ u.type.file \in {f} \cup Visible(pool, ToSet(file.proto.deps))
                /\ pool.files[u.type.file].build = u.type.build

(* A message class can parse every extension of its message that the pool  *)
(* has, loaded before the class was made or after it (python_message.py    *)
(* 175-179, descriptor_pool.py 331-335).                                   *)
ClassesComplete ==
    \A d \in pool.classes : \A k \in DOMAIN pool.byNumber : k[1] = d => <<d, pool.byNumber[k]>> \in pool.attached
=============================================================================

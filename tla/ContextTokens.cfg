\* A cache of two tokens, three conversations and two handlers.
SPECIFICATION Spec
CONSTANTS
    Chats = {c1, c2, c3}
    Tokens = {t1, t2}
    NoToken = NoToken
    Nil = Nil
    MaxContextTokens = 2
    Handlers = {h1, h2}
SYMMETRY Symmetry
INVARIANTS MapMatchesList RecentlyUsedKept NeverStale ReplyKeepsItsToken

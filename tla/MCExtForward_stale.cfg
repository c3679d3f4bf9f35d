\* Whether a query goes out under the ext_connection of its own connection.
CONSTANTS
    Fds = {3, 4}
    MaxGen = 3
    MaxQueries = 2
    MaxReplies = 0
SPECIFICATION FairSpec
INVARIANTS
    ForwardedAsOneself
CHECK_DEADLOCK FALSE

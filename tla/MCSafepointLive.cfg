CONSTANTS
    Thread = {m, a}
    Main = m
    None = None
SPECIFICATION FairSpec
PROPERTIES StopCompletes AllResume JoinWakes

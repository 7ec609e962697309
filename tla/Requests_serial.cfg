SPECIFICATION AllSpec
CONSTANTS
    Parts = {"sessions", "tickets", "catalogue", "cart", "reviews", "replies",
             "taxonomy"}
    Calls = {c1}
    MaxTokens = 3  MaxBans = 2  RedisFails = TRUE
    Customers = {1}  Agents = {a1}
    MaxTickets = 2  MaxMessages = 1
    Kinds = {"profile", "store", "product", "opening", "answer"}
    MaxFiles = 3  StorageFails = TRUE  CacheFails = TRUE  Crashes = TRUE
    Parent <- TwoParents  MaxImages = 1  MaxUploads = 2
    Stores = {s1}  Users = {u1}
    OwnerMax = 1  StaffMax = 1  Followed = {}  MaxEdits = 1
    UserOf <- ThreeOrders  MaxAddresses = 3  StoreGoes = TRUE
    Variants = {v1, v2}
    MaxItems = 2  MaxCarts = 2  MaxQuantity = 2  MaxStock = 1
    Buyers = {u1, u2, u3}  Kind = "store"  Ratings = {1, 2, 4}  MaxReviews = 4
    Team = {u4}  Reactions = {"like", "love"}  MaxReplies = 3
    CreatorSet = TRUE
CHECK_DEADLOCK FALSE
INVARIANT NothingDangles
INVARIANT Unique
INVARIANT RepliesCounted
PROPERTY RoundingOnly
